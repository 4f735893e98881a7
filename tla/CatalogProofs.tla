--------------------------- MODULE CatalogProofs ---------------------------
(***************************************************************************)
(* Theorems about Catalog: its types, that no interleaving leaves a        *)
(* member, an Awesome entry or a Linux.do topic without its repository     *)
(* fact, and that a synchronisation that runs alone never empties the      *)
(* catalog and rebuilds every ranking. The last part is about the searches *)
(* a synchronisation sends (SearchPlan).                                   *)
(***************************************************************************)
EXTENDS Catalog, SearchPlan, TLAPS

(***************************************************************************)
(* Types                                                                   *)
(***************************************************************************)

\* The states that the error path and refreshRankings begin with.
LEMMA NewStates ==
    ASSUME TypeOK, NEW s \in Syncs
    PROVE  /\ Idle \in SyncState
           /\ Failed(s) \in SyncState
           /\ Refresh(s) \in SyncState
<1>1. sync[s] \in SyncState
    BY DEF TypeOK
<1>2. Idle \in SyncState
    BY CatalogAssumption DEF Idle, SyncState, Refreshing
<1> QED
    BY <1>1, <1>2 DEF Failed, Refresh, Idle, SyncState, Refreshing, Buckets

\* A synchronisation that goes on keeps its row, and every row keeps its id.
LEMMA RowsKept ==
    ASSUME TypeOK, NEW s \in Syncs, NEW state \in SyncState,
           sync' = [sync EXCEPT ![s] = state],
           sync[s].pc # "idle", state.run = sync[s].run,
           runs' = runs
    PROVE  /\ sync' \in [Syncs -> SyncState]
           /\ \A t \in Active' : sync'[t].run \in DOMAIN runs'
BY DEF TypeOK, Active

\* Init establishes the types.
LEMMA InitType == Init => TypeOK
<1> SUFFICES ASSUME Init PROVE TypeOK
    OBVIOUS
<1>1. Idle \in SyncState
    BY CatalogAssumption DEF Idle, SyncState, Refreshing
<1>2. Active = {}
    BY DEF Init, Active, Idle
<1>3. sync \in [Syncs -> SyncState]
    BY <1>1 DEF Init
<1>4. runs \in Seq({"running", "success", "failed"}) /\ Len(runs) <= MaxRuns
    BY CatalogAssumption DEF Init
<1>5. fact \in [Repos -> Fact \cup {NoFact}] /\ rank \in [Buckets -> SUBSET Repos]
    BY DEF Init
<1>6. writes \in 0..MaxWrites
    BY CatalogAssumption DEF Init
<1> QED
    BY <1>2, <1>3, <1>4, <1>5, <1>6 DEF Init, TypeOK

\* A synchronisation enters the catalog of runs.
LEMMA StartSyncType ==
    ASSUME TypeOK, NEW s \in Syncs, NEW full \in BOOLEAN, StartSync(s, full)
    PROVE  TypeOK'
<1> DEFINE begun == [Idle EXCEPT !.pc = "search", !.run = Len(runs) + 1,
                                 !.full = full, !.alive = TRUE]
<1>1. /\ runs' \in Seq({"running", "success", "failed"})
      /\ Len(runs') = Len(runs) + 1
      /\ Len(runs') <= MaxRuns
    BY CatalogAssumption DEF TypeOK, StartSync
<1>2. begun \in SyncState
    <2>1. Len(runs) + 1 \in 0..MaxRuns
        BY CatalogAssumption DEF TypeOK, StartSync
    <2>2. Idle \in SyncState
        BY NewStates
    <2> QED
        BY <2>1, <2>2 DEF SyncState
<1>3. sync' = [sync EXCEPT ![s] = begun]
    BY DEF StartSync
<1>4. sync' \in [Syncs -> SyncState]
    BY <1>2, <1>3 DEF TypeOK
<1>5. DOMAIN runs = 1..Len(runs) /\ DOMAIN runs' = 1..Len(runs')
    BY <1>1 DEF TypeOK
<1>6. begun.run = Len(runs) + 1
    BY DEF Idle
<1>7. ASSUME NEW t \in Active' PROVE sync'[t].run \in DOMAIN runs'
    <2>1. CASE t = s
        BY <2>1, <1>1, <1>3, <1>5, <1>6 DEF TypeOK
    <2>2. CASE t # s
        <3>1. t \in Active /\ sync'[t] = sync[t]
            BY <2>2, <1>3, <1>7 DEF Active, TypeOK
        <3>2. sync[t].run \in 1..Len(runs)
            BY <3>1, <1>5 DEF TypeOK
        <3> QED
            BY <3>1, <3>2, <1>1, <1>5 DEF TypeOK
    <2> QED
        BY <2>1, <2>2
<1> QED
    BY <1>1, <1>4, <1>7 DEF TypeOK, StartSync, tables

\* Fetching a candidate stores a fact or nothing.
LEMMA CandidateType ==
    ASSUME TypeOK, NEW s \in Syncs, NEW r \in Repos, Candidate(s, r)
    PROVE  TypeOK'
<1> DEFINE state == [sync[s] EXCEPT !.cand = @ \cup {r}]
<1>1. state \in SyncState /\ state.run = sync[s].run
    BY DEF TypeOK, SyncState
<1>2. /\ sync' \in [Syncs -> SyncState]
      /\ \A t \in Active' : sync'[t].run \in DOMAIN runs'
    BY <1>1, RowsKept DEF Candidate
<1>3. fact' \in [Repos -> Fact \cup {NoFact}]
    BY DEF Candidate, UpsertRepo, TypeOK
<1> QED
    BY <1>2, <1>3 DEF TypeOK, Candidate

\* The end of the search, and of a phase of the rankings, moves only sync.
LEMMA SyncOnlyType ==
    ASSUME TypeOK, NEW s \in Syncs, NEW state \in SyncState,
           sync' = [sync EXCEPT ![s] = state], sync[s].pc # "idle",
           state.run = sync[s].run,
           UNCHANGED <<foreignKeys, tables, runs, writes, overlapped, touched>>
    PROVE  TypeOK'
<1>1. /\ sync' \in [Syncs -> SyncState]
      /\ \A t \in Active' : sync'[t].run \in DOMAIN runs'
    BY RowsKept
<1> QED
    BY <1>1 DEF TypeOK, tables

LEMMA SearchDoneType ==
    ASSUME TypeOK, NEW s \in Syncs, SearchDone(s)
    PROVE  TypeOK'
<1> DEFINE state == IF sync[s].cand = {} THEN Failed(s)
                                         ELSE [sync[s] EXCEPT !.pc = "member"]
<1>1. sync[s] \in SyncState
    BY DEF TypeOK
<1>2. state \in SyncState /\ state.run = sync[s].run
    BY <1>1, NewStates, ZenonT(40) DEF SyncState, Failed, Idle
<1>3. sync' = [sync EXCEPT ![s] = state]
    BY DEF SearchDone
<1> QED
    BY <1>2, <1>3, SyncOnlyType DEF SearchDone

LEMMA ReplaceMembershipType ==
    ASSUME TypeOK, NEW s \in Syncs, ReplaceMembership(s)
    PROVE  TypeOK'
<1> DEFINE found == sync[s].cand \cap Stored
           state == IF found = {} THEN Failed(s)
                    ELSE IF sync[s].full THEN [sync[s] EXCEPT !.pc = "prune"]
                    ELSE Refresh(s)
<1>1. sync[s] \in SyncState
    BY DEF TypeOK
<1>2. state \in SyncState /\ state.run = sync[s].run
    BY <1>1, NewStates, ZenonT(40) DEF SyncState, Failed, Refresh, Idle
<1>3. sync' = [sync EXCEPT ![s] = state]
    BY DEF ReplaceMembership
<1>4. /\ sync' \in [Syncs -> SyncState]
      /\ \A t \in Active' : sync'[t].run \in DOMAIN runs'
    BY <1>2, <1>3, RowsKept DEF ReplaceMembership
<1>5. member' \subseteq Repos
    BY DEF ReplaceMembership, TypeOK, Stored
<1> QED
    BY <1>4, <1>5 DEF TypeOK, ReplaceMembership

LEMMA PruneType ==
    ASSUME TypeOK, NEW s \in Syncs, Prune(s)
    PROVE  TypeOK'
<1>1. /\ sync' \in [Syncs -> SyncState]
      /\ \A t \in Active' : sync'[t].run \in DOMAIN runs'
    <2>1. Refresh(s).run = sync[s].run
        BY DEF Refresh, Idle
    <2> QED
        BY <2>1, NewStates, RowsKept DEF Prune
<1>2. fact' \in [Repos -> Fact \cup {NoFact}]
    BY DEF Prune, TypeOK
<1>3. rank' \in [Buckets -> SUBSET Repos]
    <2>1. [b \in Buckets |-> rank[b] \cap Kept(s)] \in [Buckets -> SUBSET Repos]
        BY DEF TypeOK
    <2> QED
        BY <2>1 DEF Prune, TypeOK
<1> QED
    BY <1>1, <1>2, <1>3 DEF TypeOK, Prune

LEMMA ReadRankingType ==
    ASSUME TypeOK, NEW s \in Syncs, NEW b \in Buckets, ReadRanking(s, b)
    PROVE  TypeOK'
<1> DEFINE state == [sync[s] EXCEPT !.at = b, !.entries = Matching(b)]
<1>1. Matching(b) \subseteq Repos
    BY DEF Matching, Stored
<1>2. state \in SyncState /\ state.run = sync[s].run
    BY <1>1 DEF TypeOK, SyncState
<1>3. sync' = [sync EXCEPT ![s] = state]
    BY DEF ReadRanking
<1>4. sync[s].pc # "idle"
    BY DEF ReadRanking, Refreshing
<1> QED
    BY <1>2, <1>3, <1>4, SyncOnlyType DEF ReadRanking

LEMMA WriteRankingType ==
    ASSUME TypeOK, NEW s \in Syncs, WriteRanking(s)
    PROVE  TypeOK'
<1> DEFINE state == [sync[s] EXCEPT !.todo = @ \ {sync[s].at},
                                    !.at = NoBucket, !.entries = {}]
<1>1. sync[s] \in SyncState
    BY DEF TypeOK
<1>2. state \in SyncState /\ state.run = sync[s].run
    BY <1>1 DEF SyncState
<1>3. sync' = [sync EXCEPT ![s] = state]
    BY DEF WriteRanking
<1>4. /\ sync' \in [Syncs -> SyncState]
      /\ \A t \in Active' : sync'[t].run \in DOMAIN runs'
    BY <1>2, <1>3, RowsKept DEF WriteRanking, Refreshing
<1>5. rank' \in [Buckets -> SUBSET Repos]
    BY <1>1 DEF WriteRanking, TypeOK, SyncState
<1> QED
    BY <1>4, <1>5 DEF TypeOK, WriteRanking

LEMMA NextPhaseType ==
    ASSUME TypeOK, NEW s \in Syncs, NextPhase(s)
    PROVE  TypeOK'
<1>1. sync[s] \in SyncState
    BY DEF TypeOK
<1>2. CASE sync[s].pc = "all"
    <2> DEFINE langs == {fact[r].language : r \in member \cap Stored}
               state == [sync[s] EXCEPT !.pc = "languages", !.todo = langs]
    <2>1. \A r \in Stored : fact[r].language \in Languages
        BY DEF TypeOK, Stored, Fact
    <2>2. langs \subseteq Buckets
        BY <2>1 DEF Buckets
    <2>3. sync' = [sync EXCEPT ![s] = state]
        BY <1>2 DEF NextPhase
    <2> HIDE DEF langs
    <2>4. state \in SyncState /\ state.run = sync[s].run
        BY <1>1, <2>2 DEF SyncState, Refreshing
    <2> QED
        BY <1>2, <2>3, <2>4, SyncOnlyType DEF NextPhase
<1>3. CASE sync[s].pc = "languages"
    <2> DEFINE state == [sync[s] EXCEPT !.pc = "topics", !.todo = {TopicBucket}]
    <2>1. state \in SyncState /\ state.run = sync[s].run
        BY <1>1 DEF SyncState, Refreshing, Buckets
    <2>2. sync' = [sync EXCEPT ![s] = state]
        BY <1>3 DEF NextPhase
    <2> QED
        BY <1>3, <2>1, <2>2, SyncOnlyType DEF NextPhase
<1>4. CASE sync[s].pc = "topics"
    <2> DEFINE state == [sync[s] EXCEPT !.pc = "done"]
    <2>1. state \in SyncState /\ state.run = sync[s].run
        BY <1>1 DEF SyncState
    <2>2. sync' = [sync EXCEPT ![s] = state]
        BY <1>4 DEF NextPhase
    <2> QED
        BY <1>4, <2>1, <2>2, SyncOnlyType DEF NextPhase
<1> QED
    BY <1>2, <1>3, <1>4 DEF NextPhase

LEMMA StepFailsType ==
    ASSUME TypeOK, NEW s \in Syncs, StepFails(s)
    PROVE  TypeOK'
<1>1. Failed(s) \in SyncState /\ Failed(s).run = sync[s].run
    BY NewStates DEF Failed, Idle
<1> QED
    BY <1>1, SyncOnlyType DEF StepFails, Refreshing

LEMMA ContextEndsType ==
    ASSUME TypeOK, NEW s \in Syncs, ContextEnds(s)
    PROVE  TypeOK'
<1> DEFINE state == IF sync[s].pc = "done"
                    THEN [sync[s] EXCEPT !.alive = FALSE]
                    ELSE [Failed(s) EXCEPT !.alive = FALSE]
<1>1. sync[s] \in SyncState /\ Failed(s) \in SyncState
    BY NewStates DEF TypeOK
<1>2. Failed(s).run = sync[s].run
    BY DEF Failed, Idle
<1>3. state \in SyncState /\ state.run = sync[s].run
    BY <1>1, <1>2 DEF SyncState
<1>4. sync' = [sync EXCEPT ![s] = state]
    BY DEF ContextEnds
<1> QED
    BY <1>3, <1>4, SyncOnlyType DEF ContextEnds

LEMMA FinishType ==
    ASSUME TypeOK, NEW s \in Syncs, Finish(s)
    PROVE  TypeOK'
<1>1. sync' \in [Syncs -> SyncState]
    BY NewStates DEF TypeOK, Finish
<1>2. /\ runs' \in Seq({"running", "success", "failed"})
      /\ Len(runs') = Len(runs)
      /\ DOMAIN runs' = DOMAIN runs
    BY DEF TypeOK, Finish
<1>3. \A t \in Active' : sync'[t].run \in DOMAIN runs'
    <2>1. \A t \in Active' : t # s /\ t \in Active /\ sync'[t] = sync[t]
        BY DEF Active, Finish, TypeOK, Idle
    <2> QED
        BY <1>2, <2>1 DEF TypeOK
<1> QED
    BY <1>1, <1>2, <1>3 DEF TypeOK, Finish, tables

\* What Awesome and Linux.do write.
LEMMA WriteType ==
    ASSUME TypeOK, Write,
           fact' \in [Repos -> Fact \cup {NoFact}],
           awesome' \subseteq Repos,
           linuxdo' \subseteq Repos
    PROVE  TypeOK'
<1>1. writes' \in 0..MaxWrites
    BY CatalogAssumption DEF TypeOK, Write
<1>2. \A t \in Active' : sync'[t].run \in DOMAIN runs'
    BY DEF TypeOK, Write, Active
<1> QED
    BY <1>1, <1>2 DEF TypeOK, Write

LEMMA RestartType ==
    ASSUME TypeOK, Restart
    PROVE  TypeOK'
<1>1. Idle \in SyncState
    BY CatalogAssumption DEF Idle, SyncState, Refreshing
<1>2. Active' = {}
    BY DEF Restart, Active, Idle
<1>3. sync' \in [Syncs -> SyncState]
    BY <1>1 DEF Restart
<1> QED
    BY <1>2, <1>3 DEF TypeOK, Restart, tables

\* One step of a synchronisation.
LEMMA SyncStepType ==
    ASSUME TypeOK, NEW s \in Syncs, SyncStep(s)
    PROVE  TypeOK'
BY StartSyncType, CandidateType, SearchDoneType, ReplaceMembershipType,
   PruneType, ReadRankingType, WriteRankingType, NextPhaseType, StepFailsType,
   ContextEndsType, FinishType
   DEF SyncStep

\* Every step keeps the types.
LEMMA NextType == TypeOK /\ [Next]_vars => TypeOK'
<1> SUFFICES ASSUME TypeOK, [Next]_vars PROVE TypeOK'
    OBVIOUS
<1>1. ASSUME NEW s \in Syncs, SyncStep(s) PROVE TypeOK'
    BY <1>1, SyncStepType
<1>2. ASSUME NEW repos \in SUBSET Repos, AwesomeSnapshot(repos) PROVE TypeOK'
    <2>1. fact' \in [Repos -> Fact \cup {NoFact}]
        BY <1>2 DEF AwesomeSnapshot, TypeOK
    <2> QED
        BY <1>2, <2>1, WriteType DEF AwesomeSnapshot, TypeOK
<1>3. ASSUME NEW r \in Repos, AwesomeSource(r) PROVE TypeOK'
    <2>1. fact' \in [Repos -> Fact \cup {NoFact}]
        BY <1>3 DEF AwesomeSource, upsertAwesomeRepo, TypeOK
    <2> QED
        BY <1>3, <2>1, WriteType DEF AwesomeSource, TypeOK
<1>4. ASSUME NEW r \in Repos, LinuxDoPublish(r) PROVE TypeOK'
    <2>1. fact' \in [Repos -> Fact \cup {NoFact}]
        BY <1>4 DEF LinuxDoPublish, upsertAwesomeRepo, TypeOK
    <2> QED
        BY <1>4, <2>1, WriteType DEF LinuxDoPublish, TypeOK
<1>5. ASSUME NEW r \in Repos, LinuxDoRevoke(r) PROVE TypeOK'
    BY <1>5 DEF LinuxDoRevoke, TypeOK, Active
<1>6. CASE Restart
    BY <1>6, RestartType
<1>7. CASE UNCHANGED vars
    BY <1>7 DEF vars, tables, TypeOK, Active
<1> QED
    BY <1>1, <1>2, <1>3, <1>4, <1>5, <1>6, <1>7 DEF Next

\* The types hold for any set of repositories, languages and synchronisations.
THEOREM TypeCorrect == Spec => []TypeOK
BY InitType, NextType, PTL DEF Spec

(***************************************************************************)
(* Members and references have their facts                                 *)
(***************************************************************************)

\* What is a fact stays one, except for what Prune deletes.
FactsBehindReferences == MembersHaveFacts /\ ReferencedHaveFacts

\* Storing facts loses none.
LEMMA StoringKeeps ==
    ASSUME TypeOK, NEW R \in SUBSET Repos, NEW f \in [R -> Fact],
           fact' = [r \in Repos |-> IF r \in R THEN f[r] ELSE fact[r]]
    PROVE  Stored \cup R \subseteq Stored'
<1>1. \A x \in Fact : x # NoFact
    BY DEF Fact, NoFact
<1> QED
    BY <1>1 DEF Stored

LEMMA StoringOneKeeps ==
    ASSUME TypeOK, NEW r \in Repos, NEW f \in Fact, fact' = [fact EXCEPT ![r] = f]
    PROVE  Stored \cup {r} \subseteq Stored'
<1>1. f # NoFact
    BY DEF Fact, NoFact
<1> QED
    BY <1>1 DEF Stored, TypeOK

LEMMA PruneKeeps ==
    ASSUME TypeOK, NEW s \in Syncs, Prune(s)
    PROVE  Stored' = Kept(s)
BY DEF Prune, Kept, Stored

LEMMA SyncStepFacts ==
    ASSUME TypeOK, FactsBehindReferences, NEW s \in Syncs, SyncStep(s)
    PROVE  FactsBehindReferences'
<1> USE DEF FactsBehindReferences, MembersHaveFacts, ReferencedHaveFacts
<1>1. ASSUME NEW r \in Repos, Candidate(s, r) PROVE FactsBehindReferences'
    <2>1. CASE fact' = fact
        BY <1>1, <2>1 DEF Candidate, Stored, Referenced
    <2>2. ASSUME NEW f \in Fact, fact' = [fact EXCEPT ![r] = f]
          PROVE  FactsBehindReferences'
        BY <1>1, <2>2, StoringOneKeeps DEF Candidate, Referenced
    <2> QED
        BY <1>1, <2>1, <2>2 DEF Candidate, UpsertRepo
<1>2. CASE ReplaceMembership(s)
    BY <1>2 DEF ReplaceMembership, Stored, Referenced
<1>3. CASE Prune(s)
    BY <1>3, PruneKeeps DEF Prune, Kept, Referenced
<1>4. CASE WriteRanking(s)
    BY <1>4 DEF WriteRanking, Stored, Referenced
<1>5. ASSUME UNCHANGED tables PROVE FactsBehindReferences'
    BY <1>5 DEF tables, Stored, Referenced
<1> QED
    BY <1>1, <1>2, <1>3, <1>4, <1>5
       DEF SyncStep, StartSync, SearchDone, ReadRanking, NextPhase, StepFails,
           ContextEnds, Finish

\* Every step keeps the facts behind members and references.
LEMMA NextFacts ==
    TypeOK /\ FactsBehindReferences /\ [Next]_vars => FactsBehindReferences'
<1> SUFFICES ASSUME TypeOK, FactsBehindReferences, [Next]_vars
             PROVE  FactsBehindReferences'
    OBVIOUS
<1> USE DEF FactsBehindReferences, MembersHaveFacts, ReferencedHaveFacts
<1>1. ASSUME NEW s \in Syncs, SyncStep(s) PROVE FactsBehindReferences'
    BY <1>1, SyncStepFacts
<1>2. ASSUME NEW repos \in SUBSET Repos, AwesomeSnapshot(repos)
      PROVE  FactsBehindReferences'
    <2>1. Stored \cup repos \subseteq Stored'
        BY <1>2, StoringKeeps DEF AwesomeSnapshot
    <2> QED
        BY <1>2, <2>1 DEF AwesomeSnapshot, Write, Referenced
<1>3. ASSUME NEW r \in Repos, AwesomeSource(r) PROVE FactsBehindReferences'
    <2>1. Stored \subseteq Stored'
        BY <1>3, StoringOneKeeps DEF AwesomeSource, upsertAwesomeRepo
    <2> QED
        BY <1>3, <2>1 DEF AwesomeSource, Write, Referenced
<1>4. ASSUME NEW r \in Repos, LinuxDoPublish(r) PROVE FactsBehindReferences'
    <2>1. Stored \cup {r} \subseteq Stored'
        BY <1>4, StoringOneKeeps DEF LinuxDoPublish, upsertAwesomeRepo
    <2> QED
        BY <1>4, <2>1 DEF LinuxDoPublish, Write, Referenced
<1>5. ASSUME NEW r \in Repos, LinuxDoRevoke(r) PROVE FactsBehindReferences'
    BY <1>5 DEF LinuxDoRevoke, Stored, Referenced
<1>6. CASE Restart
    BY <1>6 DEF Restart, tables, Stored, Referenced
<1>7. CASE UNCHANGED vars
    BY <1>7 DEF vars, tables, Stored, Referenced
<1> QED
    BY <1>1, <1>2, <1>3, <1>4, <1>5, <1>6, <1>7 DEF Next

\* Both parts hold from the start and are kept together.
LEMMA FactsStay == Spec => []FactsBehindReferences
<1>1. Init => FactsBehindReferences
    BY DEF Init, FactsBehindReferences, MembersHaveFacts, ReferencedHaveFacts,
           Stored, Referenced
<1> QED
    BY <1>1, InitType, NextType, NextFacts, PTL DEF Spec

\* However many synchronisations overlap, no member of the catalog is left
\* without its repository fact.
THEOREM MembersAreStored == Spec => []MembersHaveFacts
<1>1. FactsBehindReferences => MembersHaveFacts
    BY DEF FactsBehindReferences
<1> QED
    BY <1>1, FactsStay, PTL

\* Nor is an Awesome entry or a Linux.do topic, although a full synchronisation
\* deletes from the table they share.
THEOREM ReferencesHaveFacts == Spec => []ReferencedHaveFacts
<1>1. FactsBehindReferences => ReferencedHaveFacts
    BY DEF FactsBehindReferences
<1> QED
    BY <1>1, FactsStay, PTL

(***************************************************************************)
(* A synchronisation that runs alone never empties the catalog             *)
(***************************************************************************)

\* Until two synchronisations overlap there is one at most.
Alone == ~overlapped => \A s, t \in Active : s = t

\* Between its two transactions, all members are candidates of the one that
\* is about to prune.
PruneCovered ==
    ~overlapped => \A s \in Syncs :
        sync[s].pc = "prune" => member # {} /\ member \subseteq sync[s].cand

KeptInv == TypeOK /\ Alone /\ PruneCovered

\* A step of s that leaves the members alone, and from which s does not come
\* out about to prune, keeps the invariant.
LEMMA OtherStepKept ==
    ASSUME KeptInv, NEW s \in Syncs, NEW state,
           sync' = [sync EXCEPT ![s] = state],
           sync[s].pc # "idle", state.pc # "prune",
           member' = member, overlapped' = overlapped
    PROVE  Alone' /\ PruneCovered'
<1>1. \A t \in Syncs : t # s => sync'[t] = sync[t]
    BY DEF KeptInv, TypeOK
<1>2. sync'[s] = state
    BY DEF KeptInv, TypeOK
<1>3. Active' \subseteq Active
    BY <1>1 DEF Active
<1> QED
    BY <1>1, <1>2, <1>3 DEF KeptInv, Alone, PruneCovered

LEMMA StartSyncKept ==
    ASSUME KeptInv, NEW s \in Syncs, NEW full \in BOOLEAN, StartSync(s, full)
    PROVE  Alone' /\ PruneCovered'
<1> SUFFICES ASSUME ~overlapped' PROVE Alone' /\ PruneCovered'
    BY DEF Alone, PruneCovered
<1>1. Active = {}
    BY DEF StartSync
<1>2. \A t \in Syncs : t # s => sync'[t] = sync[t] /\ sync[t].pc = "idle"
    BY <1>1 DEF StartSync, Active, KeptInv, TypeOK
<1>3. sync'[s].pc = "search"
    BY DEF StartSync, Idle, KeptInv, TypeOK
<1> QED
    BY <1>2, <1>3 DEF Alone, PruneCovered, Active

LEMMA ReplaceMembershipKept ==
    ASSUME KeptInv, NEW s \in Syncs, ReplaceMembership(s)
    PROVE  Alone' /\ PruneCovered' /\ (member # {} => member' # {})
<1> DEFINE found == sync[s].cand \cap Stored
<1>1. sync[s] \in SyncState /\ sync[s].pc = "member"
    BY DEF KeptInv, TypeOK, ReplaceMembership
<1>2. CASE found = {}
    <2>1. Failed(s).pc # "prune"
        BY DEF Failed, Idle
    <2> QED
        BY <1>1, <1>2, <2>1, OtherStepKept DEF ReplaceMembership
<1>3. CASE found # {}
    <2> DEFINE state == IF sync[s].full THEN [sync[s] EXCEPT !.pc = "prune"]
                                        ELSE Refresh(s)
    <2>1. sync' = [sync EXCEPT ![s] = state] /\ member' = found
        BY <1>3 DEF ReplaceMembership
    <2>2. state.pc = "prune" => state.cand = sync[s].cand
        BY <1>1 DEF Refresh, Idle, SyncState
    <2> HIDE DEF state
    <2>3. /\ sync'[s] = state
          /\ \A t \in Syncs : t # s => sync'[t] = sync[t]
        BY <2>1 DEF KeptInv, TypeOK
    <2>4. Active' \subseteq Active /\ s \in Active
        BY <1>1, <2>3 DEF Active
    <2>5. Alone'
        BY <2>4 DEF KeptInv, Alone, ReplaceMembership
    <2>6. ASSUME ~overlapped', NEW t \in Syncs, sync'[t].pc = "prune"
          PROVE  t = s
        <3>1. t \in Active'
            BY <2>6 DEF Active
        <3> QED
            BY <2>4, <2>6, <3>1 DEF KeptInv, Alone, ReplaceMembership
    <2>7. PruneCovered'
        BY <1>3, <2>1, <2>2, <2>3, <2>6 DEF PruneCovered
    <2> QED
        BY <1>3, <2>1, <2>5, <2>7
<1> QED
    BY <1>2, <1>3

LEMMA PruneKept ==
    ASSUME KeptInv, NEW s \in Syncs, Prune(s)
    PROVE  /\ Alone' /\ PruneCovered'
           /\ member # {} /\ ~overlapped => member' # {}
<1>1. sync[s].pc = "prune" /\ overlapped' = overlapped
    BY DEF Prune
<1>2. ~overlapped => member' = member
    BY <1>1 DEF Prune, KeptInv, PruneCovered
<1>3. Refresh(s).pc = "all"
    BY DEF Refresh, Idle
<1>4. CASE ~overlapped
    BY <1>1, <1>2, <1>3, <1>4, OtherStepKept DEF Prune
<1>5. CASE overlapped
    BY <1>1, <1>5 DEF Alone, PruneCovered
<1> QED
    BY <1>4, <1>5

\* The steps of a synchronisation that do not touch the members.
LEMMA QuietStepKept ==
    ASSUME KeptInv, NEW s \in Syncs,
           \/ \E r \in Repos : Candidate(s, r)
           \/ SearchDone(s)
           \/ \E b \in Buckets : ReadRanking(s, b)
           \/ WriteRanking(s)
           \/ NextPhase(s)
           \/ StepFails(s)
           \/ ContextEnds(s)
           \/ Finish(s)
    PROVE  Alone' /\ PruneCovered' /\ member' = member
<1>1. sync[s] \in SyncState /\ s \in DOMAIN sync
    BY DEF KeptInv, TypeOK
<1>2. Failed(s).pc = "failed" /\ Idle.pc = "idle"
    BY DEF Failed, Idle
<1>3. \A r \in Repos : Candidate(s, r) => Alone' /\ PruneCovered'
    <2> SUFFICES ASSUME NEW r \in Repos, Candidate(s, r)
                 PROVE  Alone' /\ PruneCovered'
        OBVIOUS
    <2> DEFINE state == [sync[s] EXCEPT !.cand = @ \cup {r}]
    <2>1. sync' = [sync EXCEPT ![s] = state] /\ state.pc = "search"
        BY <1>1 DEF Candidate, SyncState
    <2> HIDE DEF state
    <2> QED
        BY <2>1, OtherStepKept DEF Candidate
<1>4. SearchDone(s) => Alone' /\ PruneCovered'
    <2> DEFINE state == IF sync[s].cand = {} THEN Failed(s)
                                             ELSE [sync[s] EXCEPT !.pc = "member"]
    <2>1. state.pc # "prune"
        BY <1>1, <1>2 DEF SyncState
    <2> QED
        BY <2>1, OtherStepKept DEF SearchDone, tables
<1>5. \A b \in Buckets : ReadRanking(s, b) => Alone' /\ PruneCovered'
    <2> SUFFICES ASSUME NEW b \in Buckets, ReadRanking(s, b)
                 PROVE  Alone' /\ PruneCovered'
        OBVIOUS
    <2> DEFINE state == [sync[s] EXCEPT !.at = b, !.entries = Matching(b)]
    <2>1. state.pc = sync[s].pc
        BY <1>1 DEF SyncState
    <2>2. sync' = [sync EXCEPT ![s] = state]
        BY DEF ReadRanking
    <2> HIDE DEF state
    <2> QED
        BY <2>1, <2>2, OtherStepKept DEF ReadRanking, Refreshing, tables
<1>6. WriteRanking(s) => Alone' /\ PruneCovered'
    <2> DEFINE state == [sync[s] EXCEPT !.todo = @ \ {sync[s].at},
                                        !.at = NoBucket, !.entries = {}]
    <2>1. state.pc = sync[s].pc
        BY <1>1 DEF SyncState
    <2>2. WriteRanking(s) => sync' = [sync EXCEPT ![s] = state]
        BY DEF WriteRanking
    <2> HIDE DEF state
    <2> QED
        BY <2>1, <2>2, OtherStepKept DEF WriteRanking, Refreshing
<1>7. NextPhase(s) => Alone' /\ PruneCovered'
    <2> SUFFICES ASSUME NextPhase(s) PROVE Alone' /\ PruneCovered'
        OBVIOUS
    <2> DEFINE to(p, buckets) == [sync[s] EXCEPT !.pc = p, !.todo = buckets]
    <2>1. \A p, buckets : to(p, buckets).pc = p
        BY <1>1 DEF SyncState
    <2>2. sync[s].pc \in Refreshing /\ member' = member /\ overlapped' = overlapped
        BY DEF NextPhase, Refreshing, tables
    <2>3. \/ \E buckets : sync' = [sync EXCEPT ![s] = to("languages", buckets)]
          \/ sync' = [sync EXCEPT ![s] = to("topics", {TopicBucket})]
          \/ sync' = [sync EXCEPT ![s] = [sync[s] EXCEPT !.pc = "done"]]
        BY DEF NextPhase
    <2>4. [sync[s] EXCEPT !.pc = "done"].pc = "done"
        BY <1>1 DEF SyncState
    <2> HIDE DEF to
    <2> QED
        <3>1. sync[s].pc # "idle"
            BY <2>2 DEF Refreshing
        <3>2. ASSUME NEW buckets, sync' = [sync EXCEPT ![s] = to("languages", buckets)]
              PROVE  Alone' /\ PruneCovered'
            <4> DEFINE state == to("languages", buckets)
            <4>1. state.pc # "prune" /\ sync' = [sync EXCEPT ![s] = state]
                BY <2>1, <3>2
            <4> HIDE DEF state
            <4> QED
                BY <2>2, <3>1, <4>1, OtherStepKept
        <3>3. CASE sync' = [sync EXCEPT ![s] = to("topics", {TopicBucket})]
            <4> DEFINE state == to("topics", {TopicBucket})
            <4>1. state.pc # "prune" /\ sync' = [sync EXCEPT ![s] = state]
                BY <2>1, <3>3
            <4> HIDE DEF state
            <4> QED
                BY <2>2, <3>1, <4>1, OtherStepKept
        <3>4. CASE sync' = [sync EXCEPT ![s] = [sync[s] EXCEPT !.pc = "done"]]
            BY <2>2, <2>4, <3>1, <3>4, OtherStepKept
        <3> QED
            BY <2>3, <3>2, <3>3, <3>4
<1>8. StepFails(s) => Alone' /\ PruneCovered'
    BY <1>2, OtherStepKept DEF StepFails, Refreshing, tables
<1>9. ContextEnds(s) => Alone' /\ PruneCovered'
    <2> DEFINE state == IF sync[s].pc = "done"
                        THEN [sync[s] EXCEPT !.alive = FALSE]
                        ELSE [Failed(s) EXCEPT !.alive = FALSE]
    <2>1. state.pc # "prune"
        BY <1>1, <1>2, NewStates DEF SyncState, KeptInv
    <2> QED
        BY <2>1, OtherStepKept DEF ContextEnds, tables
<1>10. Finish(s) => Alone' /\ PruneCovered'
    BY <1>2, OtherStepKept DEF Finish, tables
<1> QED
    BY <1>3, <1>4, <1>5, <1>6, <1>7, <1>8, <1>9, <1>10
       DEF Candidate, SearchDone, ReadRanking, WriteRanking, NextPhase,
           StepFails, ContextEnds, Finish, tables

\* Every step keeps the invariant, and the catalog that held something holds
\* something afterwards unless synchronisations overlapped.
LEMMA NextKept ==
    KeptInv /\ [Next]_vars =>
        /\ KeptInv'
        /\ member # {} /\ ~overlapped => member' # {}
<1> SUFFICES ASSUME KeptInv, [Next]_vars
             PROVE  /\ Alone' /\ PruneCovered'
                    /\ member # {} /\ ~overlapped => member' # {}
    BY NextType DEF KeptInv
<1>1. ASSUME NEW s \in Syncs, SyncStep(s)
      PROVE  /\ Alone' /\ PruneCovered'
             /\ member # {} /\ ~overlapped => member' # {}
    <2>1. ASSUME NEW full \in BOOLEAN, StartSync(s, full)
          PROVE  Alone' /\ PruneCovered' /\ member' = member
        BY <2>1, StartSyncKept DEF StartSync, tables
    <2> QED
        BY <1>1, <2>1, ReplaceMembershipKept, PruneKept, QuietStepKept DEF SyncStep
<1>2. ASSUME Write PROVE Alone' /\ PruneCovered' /\ member' = member
    BY <1>2 DEF Write, KeptInv, Alone, PruneCovered, Active
<1>3. ASSUME Restart PROVE Alone' /\ PruneCovered' /\ member' = member
    BY <1>3 DEF Restart, tables, Idle, Alone, PruneCovered, Active
<1>4. ASSUME UNCHANGED vars PROVE Alone' /\ PruneCovered' /\ member' = member
    BY <1>4 DEF vars, tables, KeptInv, Alone, PruneCovered, Active
<1>5. ASSUME NEW r \in Repos, LinuxDoRevoke(r)
      PROVE  Alone' /\ PruneCovered' /\ member' = member
    BY <1>5 DEF LinuxDoRevoke, KeptInv, Alone, PruneCovered, Active
<1> QED
    BY <1>1, <1>2, <1>3, <1>4, <1>5
       DEF Next, AwesomeSnapshot, AwesomeSource, LinuxDoPublish

\* Whatever fails on the way, synchronisations that do not overlap never turn
\* a catalog that lists something into an empty one.
THEOREM CatalogIsKept == Spec => CatalogKept
<1>1. Init => KeptInv
    <2>1. Init => Active = {} /\ \A s \in Syncs : sync[s].pc = "idle"
        BY DEF Init, Active, Idle
    <2> QED
        BY <2>1, InitType DEF KeptInv, Alone, PruneCovered
<1> QED
    BY <1>1, NextKept, PTL DEF Spec, CatalogKept

(***************************************************************************)
(* A synchronisation that ran alone has rebuilt every ranking it owes      *)
(***************************************************************************)

\* The buckets a synchronisation has read or is still to read by its phase.
Due(s) ==
    {AllBucket}
    \cup (IF sync[s].pc = "all" THEN {} ELSE {fact[r].language : r \in member})
    \cup (IF sync[s].pc \in {"all", "languages"} THEN {} ELSE {TopicBucket})

\* What was read for the bucket at hand is still what matches it, and every
\* bucket due is either still to be done or lists what matches it.
Rebuilt(s) ==
    /\ sync[s].at # NoBucket => sync[s].entries = Matching(sync[s].at)
    /\ \A b \in Due(s) : b \in sync[s].todo \/ rank[b] = Matching(b)
    /\ sync[s].pc = "done" => sync[s].todo = {}

RankInv ==
    ~overlapped /\ ~touched =>
        \A s \in Syncs : sync[s].pc \in Refreshing \cup {"done"} => Rebuilt(s)

\* A step of s, which runs alone: what s owes afterwards is all that counts.
LEMMA OwnStepRanks ==
    ASSUME KeptInv, NEW s \in Syncs, NEW state,
           sync' = [sync EXCEPT ![s] = state],
           sync[s].pc # "idle",
           overlapped' = overlapped,
           state.pc \in Refreshing \cup {"done"} /\ ~overlapped /\ ~touched' => Rebuilt(s)'
    PROVE  RankInv'
<1> SUFFICES ASSUME ~overlapped, ~touched', NEW t \in Syncs,
                    sync'[t].pc \in Refreshing \cup {"done"}
             PROVE  Rebuilt(t)'
    BY DEF RankInv
<1>1. sync'[s] = state /\ \A u \in Syncs : u # s => sync'[u] = sync[u]
    BY DEF KeptInv, TypeOK
<1>2. s \in Active
    BY DEF Active
<1>3. t = s
    <2>1. SUFFICES ASSUME t # s PROVE FALSE
        OBVIOUS
    <2>2. t \in Active
        BY <1>1, <2>1 DEF Active, Refreshing
    <2> QED
        BY <1>2, <2>1, <2>2 DEF KeptInv, Alone
<1> QED
    BY <1>1, <1>3

\* The steps that end in a state without rankings to rebuild, or with all of
\* them still to be rebuilt.
LEMMA FreshStepRanks ==
    ASSUME KeptInv, NEW s \in Syncs, NEW state \in SyncState,
           sync' = [sync EXCEPT ![s] = state],
           sync[s].pc # "idle",
           overlapped' = overlapped,
           \/ state.pc \notin Refreshing \cup {"done"}
           \/ state = Refresh(s)
    PROVE  RankInv'
<1>1. CASE state.pc \notin Refreshing \cup {"done"}
    BY <1>1, OwnStepRanks
<1>2. CASE state = Refresh(s)
    <2>1. state.pc = "all" /\ state.at = NoBucket /\ state.todo = {AllBucket}
        BY <1>2 DEF Refresh, Idle
    <2>2. sync'[s] = state
        BY DEF KeptInv, TypeOK
    <2>3. Rebuilt(s)'
        BY <2>1, <2>2 DEF Rebuilt, Due
    <2> QED
        BY <2>3, OwnStepRanks
<1> QED
    BY <1>1, <1>2

LEMMA ReadRankingRanks ==
    ASSUME KeptInv, RankInv, NEW s \in Syncs, NEW b \in Buckets, ReadRanking(s, b)
    PROVE  RankInv'
<1> DEFINE read == [sync[s] EXCEPT !.at = b, !.entries = Matching(b)]
<1>1. sync[s] \in SyncState /\ sync[s].pc \in Refreshing
    BY DEF KeptInv, TypeOK, ReadRanking
<1>a. /\ read.at = b /\ read.entries = Matching(b)
      /\ read.pc = sync[s].pc /\ read.todo = sync[s].todo
    BY <1>1 DEF SyncState
<1>b. sync' = [sync EXCEPT ![s] = read]
    BY DEF ReadRanking
<1> HIDE DEF read
<1>2. PICK state : /\ state.at = b /\ state.entries = Matching(b)
                   /\ state.pc = sync[s].pc /\ state.todo = sync[s].todo
                   /\ sync' = [sync EXCEPT ![s] = state]
    BY <1>a, <1>b
<1>3. sync' = [sync EXCEPT ![s] = state] /\ UNCHANGED <<tables, overlapped, touched>>
    BY <1>2 DEF ReadRanking
<1>4. sync'[s] = state
    BY <1>3 DEF KeptInv, TypeOK
<1>5. \A x \in Buckets : Matching(x)' = Matching(x)
    BY <1>3 DEF tables, Matching, Stored
<1>6. ASSUME ~overlapped, ~touched PROVE Rebuilt(s)'
    <2>1. Rebuilt(s)
        BY <1>1, <1>6 DEF RankInv
    <2>2. Due(s)' = Due(s) /\ rank' = rank
        BY <1>2, <1>3, <1>4 DEF Due, tables
    <2>3. sync[s].pc # "done"
        BY <1>1 DEF Refreshing
    <2>4. \A x \in Due(s) : Matching(x)' = Matching(x)
        BY <1>3 DEF tables, Matching, Stored
    <2> QED
        BY <1>2, <1>4, <1>5, <2>1, <2>2, <2>3, <2>4 DEF Rebuilt
<1>7. sync[s].pc # "idle"
    BY <1>1 DEF Refreshing
<1>8. overlapped' = overlapped /\ touched' = touched
    BY <1>3
<1> QED
    BY <1>2, <1>6, <1>7, <1>8, OwnStepRanks

LEMMA WriteRankingRanks ==
    ASSUME KeptInv, RankInv, NEW s \in Syncs, WriteRanking(s)
    PROVE  RankInv'
<1> DEFINE written == [sync[s] EXCEPT !.todo = @ \ {sync[s].at},
                                      !.at = NoBucket, !.entries = {}]
           b0 == sync[s].at
<1>1. sync[s] \in SyncState /\ sync[s].pc \in Refreshing /\ b0 \in Buckets
    BY DEF KeptInv, TypeOK, WriteRanking, SyncState
<1>a. /\ written.at = NoBucket /\ written.todo = sync[s].todo \ {b0}
      /\ written.pc = sync[s].pc
    BY <1>1 DEF SyncState
<1>b. sync' = [sync EXCEPT ![s] = written]
    BY DEF WriteRanking
<1> HIDE DEF written
<1>2. PICK state : /\ state.at = NoBucket /\ state.todo = sync[s].todo \ {b0}
                   /\ state.pc = sync[s].pc
                   /\ sync' = [sync EXCEPT ![s] = state]
    BY <1>a, <1>b
<1>3. /\ sync' = [sync EXCEPT ![s] = state]
      /\ rank' = [rank EXCEPT ![b0] = sync[s].entries]
      /\ UNCHANGED <<fact, member, overlapped, touched>>
    BY <1>2 DEF WriteRanking
<1>4. sync'[s] = state
    BY <1>3 DEF KeptInv, TypeOK
<1>5. ASSUME ~overlapped, ~touched PROVE Rebuilt(s)'
    <2>1. Rebuilt(s)
        BY <1>1, <1>5 DEF RankInv
    <2>2. Due(s)' = Due(s)
        BY <1>2, <1>3, <1>4 DEF Due
    <2>3. \A x : Matching(x)' = Matching(x)
        BY <1>3 DEF Matching, Stored
    <2>4. rank'[b0] = Matching(b0)
        BY <1>1, <1>3, <2>1 DEF Rebuilt, WriteRanking, KeptInv, TypeOK
    <2>5. \A x : x # b0 => rank'[x] = rank[x]
        BY <1>3 DEF KeptInv, TypeOK
    <2>6. sync[s].pc # "done"
        BY <1>1 DEF Refreshing
    <2>7. ASSUME NEW x \in Due(s)' PROVE x \in sync'[s].todo \/ rank'[x] = Matching(x)'
        <3>1. CASE x = b0
            BY <2>3, <2>4, <3>1
        <3>2. CASE x # b0
            BY <1>2, <1>4, <2>1, <2>2, <2>3, <2>5, <3>2 DEF Rebuilt
        <3> QED
            BY <3>1, <3>2
    <2> QED
        BY <1>2, <1>4, <2>6, <2>7 DEF Rebuilt
<1>6. sync[s].pc # "idle"
    BY <1>1 DEF Refreshing
<1>7. overlapped' = overlapped /\ touched' = touched
    BY <1>3
<1> QED
    BY <1>2, <1>5, <1>6, <1>7, OwnStepRanks

\* A phase ends when nothing is left of it, and the next one starts with all
\* of its buckets still to be done.
LEMMA NextPhaseRanks ==
    ASSUME KeptInv, RankInv, FactsBehindReferences, NEW s \in Syncs, NextPhase(s)
    PROVE  RankInv'
<1> DEFINE langs == {fact[r].language : r \in member}
           to(p, buckets) == [sync[s] EXCEPT !.pc = p, !.todo = buckets]
<1>1. sync[s] \in SyncState /\ sync[s].pc \in Refreshing /\ sync[s].at = NoBucket
    BY DEF KeptInv, TypeOK, NextPhase, Refreshing
<1>2. \A p, buckets : /\ to(p, buckets).pc = p /\ to(p, buckets).todo = buckets
                      /\ to(p, buckets).at = NoBucket
    BY <1>1 DEF SyncState
<1>3. UNCHANGED <<tables, overlapped, touched>> /\ sync[s].todo = {}
    BY DEF NextPhase
<1>4. member \cap Stored = member
    BY DEF FactsBehindReferences, MembersHaveFacts
<1>5. \/ sync[s].pc = "all" /\ sync' = [sync EXCEPT ![s] = to("languages", langs)]
      \/ sync[s].pc = "languages" /\ sync' = [sync EXCEPT ![s] = to("topics", {TopicBucket})]
      \/ sync[s].pc = "topics" /\ sync' = [sync EXCEPT ![s] = [sync[s] EXCEPT !.pc = "done"]]
    BY <1>4 DEF NextPhase
<1>6. /\ [sync[s] EXCEPT !.pc = "done"].pc = "done"
      /\ [sync[s] EXCEPT !.pc = "done"].todo = {}
      /\ [sync[s] EXCEPT !.pc = "done"].at = NoBucket
    BY <1>1, <1>3 DEF SyncState
<1> HIDE DEF to
<1>7. PICK state : /\ sync' = [sync EXCEPT ![s] = state] /\ state.at = NoBucket
                   /\ \/ sync[s].pc = "all" /\ state.pc = "languages" /\ state.todo = langs
                      \/ sync[s].pc = "languages" /\ state.pc = "topics" /\ state.todo = {TopicBucket}
                      \/ sync[s].pc = "topics" /\ state.pc = "done" /\ state.todo = {}
    <2>1. CASE sync[s].pc = "all" /\ sync' = [sync EXCEPT ![s] = to("languages", langs)]
        <3> DEFINE next == to("languages", langs)
        <3>1. next.pc = "languages" /\ next.todo = langs /\ next.at = NoBucket
            BY <1>2
        <3>2. sync' = [sync EXCEPT ![s] = next]
            BY <2>1
        <3> HIDE DEF next
        <3> QED
            BY <2>1, <3>1, <3>2
    <2>2. CASE sync[s].pc = "languages" /\ sync' = [sync EXCEPT ![s] = to("topics", {TopicBucket})]
        <3> DEFINE next == to("topics", {TopicBucket})
        <3>1. next.pc = "topics" /\ next.todo = {TopicBucket} /\ next.at = NoBucket
            BY <1>2
        <3>2. sync' = [sync EXCEPT ![s] = next]
            BY <2>2
        <3> HIDE DEF next
        <3> QED
            BY <2>2, <3>1, <3>2
    <2>3. CASE sync[s].pc = "topics" /\ sync' = [sync EXCEPT ![s] = [sync[s] EXCEPT !.pc = "done"]]
        BY <1>6, <2>3
    <2> QED
        BY <1>5, <2>1, <2>2, <2>3
<1>8. sync'[s] = state
    BY <1>7 DEF KeptInv, TypeOK
<1>9. ASSUME ~overlapped, ~touched PROVE Rebuilt(s)'
    <2>1. \A b \in Due(s) : rank[b] = Matching(b)
        BY <1>1, <1>3, <1>9 DEF RankInv, Rebuilt
    <2>2. \A b : Matching(b)' = Matching(b)
        BY <1>3 DEF Matching, Stored, tables
    <2>3. \A b \in Due(s)' : b \in Due(s) \/ b \in state.todo
        BY <1>3, <1>7, <1>8 DEF Due, tables
    <2> QED
        BY <1>3, <1>7, <1>8, <2>1, <2>2, <2>3 DEF Rebuilt, tables
<1>10. sync[s].pc # "idle"
    BY <1>1 DEF Refreshing
<1>11. overlapped' = overlapped /\ touched' = touched
    BY <1>3
<1> QED
    BY <1>7, <1>9, <1>10, <1>11, OwnStepRanks

LEMMA SyncStepRanks ==
    ASSUME KeptInv, RankInv, FactsBehindReferences, NEW s \in Syncs, SyncStep(s)
    PROVE  RankInv'
<1>1. /\ sync[s] \in SyncState /\ s \in DOMAIN sync
      /\ Failed(s) \in SyncState /\ Refresh(s) \in SyncState /\ Idle \in SyncState
      /\ Failed(s).pc = "failed" /\ Idle.pc = "idle"
    BY NewStates DEF KeptInv, TypeOK, Failed, Idle
<1>2. ASSUME NEW full \in BOOLEAN, StartSync(s, full) PROVE RankInv'
    <2> SUFFICES ASSUME ~overlapped', NEW t \in Syncs,
                        sync'[t].pc \in Refreshing \cup {"done"}
                 PROVE  FALSE
        BY DEF RankInv
    <2>1. Active = {}
        BY <1>2 DEF StartSync
    <2>2. t # s => sync'[t].pc = "idle"
        BY <1>2, <2>1 DEF StartSync, Active, KeptInv, TypeOK
    <2>3. sync'[s].pc = "search"
        BY <1>2 DEF StartSync, Idle, KeptInv, TypeOK
    <2> QED
        BY <2>2, <2>3 DEF Refreshing
<1>3. ASSUME NEW r \in Repos, Candidate(s, r) PROVE RankInv'
    <2> DEFINE state == [sync[s] EXCEPT !.cand = @ \cup {r}]
    <2>1. sync' = [sync EXCEPT ![s] = state] /\ state.pc = "search" /\ state \in SyncState
        BY <1>1, <1>3 DEF Candidate, SyncState
    <2> HIDE DEF state
    <2> QED
        BY <1>3, <2>1, FreshStepRanks DEF Candidate, Refreshing
<1>4. CASE SearchDone(s)
    <2> DEFINE state == IF sync[s].cand = {} THEN Failed(s)
                                             ELSE [sync[s] EXCEPT !.pc = "member"]
    <2>1. state.pc \in {"failed", "member"} /\ state \in SyncState
        BY <1>1 DEF SyncState
    <2>2. sync' = [sync EXCEPT ![s] = state]
        BY <1>4 DEF SearchDone
    <2> HIDE DEF state
    <2> QED
        BY <1>4, <2>1, <2>2, FreshStepRanks DEF SearchDone, Refreshing
<1>5. CASE ReplaceMembership(s)
    <2> DEFINE state == IF sync[s].cand \cap Stored = {} THEN Failed(s)
                        ELSE IF sync[s].full THEN [sync[s] EXCEPT !.pc = "prune"]
                        ELSE Refresh(s)
    <2>1. state \in SyncState /\ (state.pc \in {"failed", "prune"} \/ state = Refresh(s))
        BY <1>1 DEF SyncState
    <2>2. sync' = [sync EXCEPT ![s] = state]
        BY <1>5 DEF ReplaceMembership
    <2> HIDE DEF state
    <2> QED
        BY <1>5, <2>1, <2>2, FreshStepRanks DEF ReplaceMembership, Refreshing
<1>6. CASE Prune(s)
    BY <1>1, <1>6, FreshStepRanks DEF Prune
<1>7. ASSUME NEW b \in Buckets, ReadRanking(s, b) PROVE RankInv'
    BY <1>7, ReadRankingRanks
<1>8. CASE WriteRanking(s)
    BY <1>8, WriteRankingRanks
<1>9. CASE NextPhase(s)
    BY <1>9, NextPhaseRanks
<1>10. CASE StepFails(s)
    BY <1>1, <1>10, FreshStepRanks DEF StepFails, Refreshing
<1>11. CASE ContextEnds(s)
    <2>1. CASE sync[s].pc = "done"
        <3> DEFINE dead == [sync[s] EXCEPT !.alive = FALSE]
        <3>a. /\ dead.pc = "done" /\ dead.at = sync[s].at /\ dead.todo = sync[s].todo
              /\ dead.entries = sync[s].entries
            BY <1>1, <2>1 DEF SyncState
        <3>b. sync' = [sync EXCEPT ![s] = dead]
            BY <1>11, <2>1 DEF ContextEnds
        <3> HIDE DEF dead
        <3>1. PICK state : /\ state.pc = "done" /\ state.at = sync[s].at
                           /\ state.todo = sync[s].todo /\ state.entries = sync[s].entries
                           /\ sync' = [sync EXCEPT ![s] = state]
            BY <3>a, <3>b
        <3>2. sync' = [sync EXCEPT ![s] = state] /\ UNCHANGED <<tables, overlapped, touched>>
            BY <1>11, <3>1 DEF ContextEnds
        <3>3. sync'[s] = state
            BY <3>2 DEF KeptInv, TypeOK
        <3>4. ASSUME ~overlapped, ~touched PROVE Rebuilt(s)'
            <4>1. Rebuilt(s)
                BY <2>1, <3>4 DEF RankInv
            <4>2. Due(s)' = Due(s)
                BY <2>1, <3>1, <3>2, <3>3 DEF Due, tables
            <4>3. \A b : Matching(b)' = Matching(b)
                BY <3>2 DEF Matching, Stored, tables
            <4>4. rank' = rank
                BY <3>2 DEF tables
            <4>5. \A b \in Due(s)' : b \in sync'[s].todo \/ rank'[b] = Matching(b)'
                BY <3>1, <3>3, <4>1, <4>2, <4>3, <4>4 DEF Rebuilt
            <4>6. (sync[s].at # NoBucket => sync[s].entries = Matching(sync[s].at))'
                BY <3>1, <3>2, <3>3, <4>1 DEF Rebuilt, Matching, Stored, tables
            <4>7. sync'[s].todo = {}
                BY <2>1, <3>1, <3>3, <4>1 DEF Rebuilt
            <4> QED
                BY <4>5, <4>6, <4>7 DEF Rebuilt
        <3> QED
            BY <2>1, <3>2, <3>4, OwnStepRanks
    <2>2. CASE sync[s].pc # "done"
        <3> DEFINE state == [Failed(s) EXCEPT !.alive = FALSE]
        <3>1. state.pc = "failed" /\ state \in SyncState
            BY <1>1 DEF SyncState
        <3>2. sync' = [sync EXCEPT ![s] = state] /\ overlapped' = overlapped /\ sync[s].pc # "idle"
            BY <1>11, <2>2 DEF ContextEnds
        <3> HIDE DEF state
        <3> QED
            BY <3>1, <3>2, FreshStepRanks DEF Refreshing
    <2> QED
        BY <2>1, <2>2
<1>12. CASE Finish(s)
    BY <1>1, <1>12, FreshStepRanks DEF Finish, Refreshing
<1> QED
    BY <1>2, <1>3, <1>4, <1>5, <1>6, <1>7, <1>8, <1>9, <1>10, <1>11, <1>12 DEF SyncStep

LEMMA NextRanks ==
    KeptInv /\ FactsBehindReferences /\ RankInv /\ [Next]_vars => RankInv'
<1> SUFFICES ASSUME KeptInv, FactsBehindReferences, RankInv, [Next]_vars PROVE RankInv'
    OBVIOUS
<1>1. ASSUME NEW s \in Syncs, SyncStep(s) PROVE RankInv'
    BY <1>1, SyncStepRanks
<1>2. ASSUME touched' PROVE RankInv'
    BY <1>2 DEF RankInv
<1>3. CASE Restart
    BY <1>3 DEF Restart, RankInv, Idle, Refreshing
<1>4. CASE UNCHANGED vars
    BY <1>4 DEF vars, tables, RankInv, Rebuilt, Due, Matching, Stored
<1> QED
    BY <1>1, <1>2, <1>3, <1>4
       DEF Next, Write, AwesomeSnapshot, AwesomeSource, LinuxDoPublish, LinuxDoRevoke

\* When a synchronisation that ran alone is about to report success, no ranking
\* it owes is older than the membership and the facts it left: the languages it
\* went through are those the catalog still has.
THEOREM RankingsRebuilt == Spec => []RankedAtSuccess
<1>1. Init => KeptInv /\ RankInv
    <2>1. Init => Active = {} /\ \A s \in Syncs : sync[s].pc = "idle"
        BY DEF Init, Active, Idle
    <2> QED
        BY <2>1, InitType DEF KeptInv, Alone, PruneCovered, RankInv, Refreshing
<1>2. RankInv => RankedAtSuccess
    BY DEF RankInv, Rebuilt, Due, RankedAtSuccess, Refreshing
<1> QED
    BY <1>1, <1>2, FactsStay, NextKept, NextRanks, PTL DEF Spec

(***************************************************************************)
(* Search plans                                                            *)
(***************************************************************************)

\* Rounding leaves at most two candidates over.
LEMMA RemainingIsSmall ==
    ASSUME NEW total \in Nat
    PROVE  Remaining(total) \in 0..2
  BY SMT DEF Remaining, Share

\* The three strategies of a slot spend the slot's budget exactly, and none of
\* them a negative part of it (ingest/service.go:400).
THEOREM StrategiesSpendTheirSlot ==
    ASSUME NEW total \in Nat
    PROVE  LET limits == CandidateStrategyLimits(total)
           IN  /\ \A i \in Strategies : limits[i] \in 0..total
               /\ limits[0] + limits[1] + limits[2] = total
<1> DEFINE a == (total * 5) \div 10
           b == (total * 3) \div 10
           d == (total * 2) \div 10
           r == Remaining(total)
           limits == CandidateStrategyLimits(total)
<1>1. r \in 0..2 /\ r = total - (a + b + d) /\ a \in Nat /\ b \in Nat /\ d \in Nat
  BY RemainingIsSmall, SMT DEF Remaining, Share
<1>2. /\ limits[0] = a + (r + 2) \div 3
      /\ limits[1] = b + (r + 1) \div 3
      /\ limits[2] = d + r \div 3
  BY <1>1 DEF CandidateStrategyLimits, Strategies, Share
<1>3. (r + 2) \div 3 + (r + 1) \div 3 + r \div 3 = r
  <2>1. r = 0 \/ r = 1 \/ r = 2
    BY <1>1
  <2> QED BY <2>1
<1>4. /\ (r + 2) \div 3 \in 0..r
      /\ (r + 1) \div 3 \in 0..r
      /\ r \div 3 \in 0..r
  <2>1. r = 0 \/ r = 1 \/ r = 2
    BY <1>1
  <2> QED BY <2>1
<1> HIDE DEF a, b, d, r, limits
<1>5. limits[0] + limits[1] + limits[2] = total
  BY <1>1, <1>2, <1>3, <1>4, SMT
<1>6. limits[0] \in 0..total /\ limits[1] \in 0..total /\ limits[2] \in 0..total
  BY <1>1, <1>2, <1>4, SMT
<1>7. \A i \in Strategies : limits[i] \in 0..total
  BY <1>6 DEF Strategies
<1> QED BY <1>5, <1>7 DEF limits

\* No two slots differ by more than one candidate (ingest/service.go:386).
THEOREM SlotsDifferByOne ==
    ASSUME NEW total \in Nat, NEW slots \in Nat \ {0},
           NEW i \in 0..(slots - 1), NEW j \in 0..(slots - 1)
    PROVE  DistributeEvenly(total, slots)[i] <= DistributeEvenly(total, slots)[j] + 1
<1>1. total \div slots \in Int
  BY SMT
<1> QED BY <1>1 DEF DistributeEvenly

\* Whatever FEED_TARGET_SIZE says, no search asks for more than the one page
\* SearchRepositories reads, so that no candidate of the budget is lost to its
\* silent cap (ingest/service.go:354, github/client.go:84).
THEOREM PlansFitOnePage ==
    ASSUME NEW configured \in Int, NEW p \in Seeds \X Strategies
    PROVE  Plan(configured)[p] \in 0..Page
<1> DEFINE size == TargetSize(configured)
           slot == DistributeEvenly(size, 8)[p[1]]
<1>1. size \in 1..1600
  BY DEF TargetSize
<1>2. p[1] \in 0..7 /\ p[2] \in 0..2
  BY DEF Seeds, Strategies
<1> HIDE DEF size
<1>3. slot = size \div 8 + (IF p[1] < size % 8 THEN 1 ELSE 0)
  BY <1>2 DEF DistributeEvenly
<1> HIDE DEF slot
<1>4. slot \in 0..200
  <2>1. size = 8 * (size \div 8) + (size % 8) /\ size % 8 \in 0..7 /\ size \div 8 \in Int
    BY <1>1, SMT
  <2> QED BY <1>1, <1>2, <1>3, <2>1, SMT
<1>5. Remaining(slot) \in 0..2 /\ Remaining(slot) = slot
          - ((slot * 5) \div 10 + (slot * 3) \div 10 + (slot * 2) \div 10)
  BY <1>4, RemainingIsSmall, SMT DEF Remaining, Share
<1>6. /\ CandidateStrategyLimits(slot)[0] = (slot * 5) \div 10 + (Remaining(slot) + 2) \div 3
      /\ CandidateStrategyLimits(slot)[1] = (slot * 3) \div 10 + (Remaining(slot) + 1) \div 3
      /\ CandidateStrategyLimits(slot)[2] = (slot * 2) \div 10 + Remaining(slot) \div 3
  BY <1>4, <1>5 DEF CandidateStrategyLimits, Strategies, Share
<1>7. CandidateStrategyLimits(slot)[0] \in 0..100
  BY <1>4, <1>5, <1>6, SMT
<1>8. CandidateStrategyLimits(slot)[1] \in 0..100 /\ CandidateStrategyLimits(slot)[2] \in 0..100
  BY <1>4, <1>5, <1>6, SMT
<1>9. p[2] = 0 \/ p[2] = 1 \/ p[2] = 2
  BY <1>2
<1>10. Plan(configured)[p] = CandidateStrategyLimits(slot)[p[2]]
  BY DEF Plan, slot, size
<1> QED BY <1>7, <1>8, <1>9, <1>10 DEF Page

\* Eight slots spend what is distributed over them, whatever rounding leaves.
LEMMA SlotsSpendTheTotal ==
    ASSUME NEW total \in Nat
    PROVE  LET d == DistributeEvenly(total, 8)
           IN  /\ \A i \in Seeds : d[i] \in Nat
               /\ d[0] + d[1] + d[2] + d[3] + d[4] + d[5] + d[6] + d[7] = total
<1> DEFINE d == DistributeEvenly(total, 8)
<1>1. PICK q \in Nat, r \in 0..7 : q = total \div 8 /\ r = total % 8 /\ total = 8 * q + r
  BY SMT
<1>2. \A i \in 0..7 : d[i] = q + (IF i < r THEN 1 ELSE 0)
  BY <1>1 DEF DistributeEvenly
<1>3. \A i \in 0..7 : d[i] \in Nat
  BY <1>1, <1>2
<1> HIDE DEF d
<1>4. d[0] + d[1] + d[2] + d[3] + d[4] + d[5] + d[6] + d[7] = 8 * q + r
  <2> DEFINE extra(i) == IF i < r THEN 1 ELSE 0
  <2>1. /\ d[0] = q + extra(0) /\ d[1] = q + extra(1) /\ d[2] = q + extra(2)
        /\ d[3] = q + extra(3) /\ d[4] = q + extra(4) /\ d[5] = q + extra(5)
        /\ d[6] = q + extra(6) /\ d[7] = q + extra(7)
    BY <1>2
  <2>2. r = 0 \/ r = 1 \/ r = 2 \/ r = 3 \/ r = 4 \/ r = 5 \/ r = 6 \/ r = 7
    BY <1>1
  <2>3. extra(0) + extra(1) + extra(2) + extra(3) + extra(4) + extra(5) + extra(6) + extra(7) = r
    BY <2>2
  <2>4. \A i \in 0..7 : extra(i) \in Nat
    OBVIOUS
  <2> HIDE DEF extra
  <2>5. PICK e0, e1, e2, e3, e4, e5, e6, e7 :
          /\ e0 = extra(0) /\ e1 = extra(1) /\ e2 = extra(2) /\ e3 = extra(3)
          /\ e4 = extra(4) /\ e5 = extra(5) /\ e6 = extra(6) /\ e7 = extra(7)
    OBVIOUS
  <2>6. e0 + e1 + e2 + e3 + e4 + e5 + e6 + e7 = r
    BY <2>3, <2>5
  <2>7. /\ d[0] = q + e0 /\ d[1] = q + e1 /\ d[2] = q + e2 /\ d[3] = q + e3
        /\ d[4] = q + e4 /\ d[5] = q + e5 /\ d[6] = q + e6 /\ d[7] = q + e7
    BY <2>1, <2>5
  <2>8. /\ e0 \in Nat /\ e1 \in Nat /\ e2 \in Nat /\ e3 \in Nat
        /\ e4 \in Nat /\ e5 \in Nat /\ e6 \in Nat /\ e7 \in Nat
    BY <2>4, <2>5
  <2>9. QED
    BY <1>1, <2>6, <2>7, <2>8, SMT
<1> QED BY <1>1, <1>3, <1>4 DEF d, Seeds

\* Whatever FEED_TARGET_SIZE says, the 24 searches of a synchronisation share
\* the candidate budget exactly (buildSearchPlans, ingest/service.go:354).
THEOREM PlansSpendTheBudget ==
    ASSUME NEW configured \in Int
    PROVE  LET plan == Plan(configured)
               seed(i) == plan[<<i, 0>>] + plan[<<i, 1>>] + plan[<<i, 2>>]
           IN  seed(0) + seed(1) + seed(2) + seed(3) + seed(4) + seed(5) + seed(6) + seed(7)
                   = TargetSize(configured)
<1> DEFINE plan == Plan(configured)
           seed(i) == plan[<<i, 0>>] + plan[<<i, 1>>] + plan[<<i, 2>>]
           slot == DistributeEvenly(TargetSize(configured), 8)
<1>1. TargetSize(configured) \in Nat
  BY DEF TargetSize
<1>2. \A i \in Seeds : seed(i) = slot[i]
  <2> SUFFICES ASSUME NEW i \in Seeds PROVE seed(i) = slot[i]
    OBVIOUS
  <2>1. slot[i] \in Nat
    BY <1>1, SlotsSpendTheTotal
  <2>2. \A k \in Strategies : plan[<<i, k>>] = CandidateStrategyLimits(slot[i])[k]
    BY DEF Plan
  <2>3. plan[<<i, 0>>] = CandidateStrategyLimits(slot[i])[0]
        /\ plan[<<i, 1>>] = CandidateStrategyLimits(slot[i])[1]
        /\ plan[<<i, 2>>] = CandidateStrategyLimits(slot[i])[2]
    BY <2>2 DEF Strategies
  <2> HIDE DEF slot, plan
  <2>4. QED
    BY <2>1, <2>3, StrategiesSpendTheirSlot
<1>3. slot[0] + slot[1] + slot[2] + slot[3] + slot[4] + slot[5] + slot[6] + slot[7]
          = TargetSize(configured)
  BY <1>1, SlotsSpendTheTotal
<1>4. \A i \in 0..7 : seed(i) = slot[i]
  BY <1>2 DEF Seeds
<1> HIDE DEF seed, slot
<1>5. seed(0) + seed(1) + seed(2) + seed(3) + seed(4) + seed(5) + seed(6) + seed(7)
          = TargetSize(configured)
  BY <1>3, <1>4
<1> QED BY <1>5 DEF seed, plan

=============================================================================
