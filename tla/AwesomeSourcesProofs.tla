------------------------ MODULE AwesomeSourcesProofs ------------------------
(***************************************************************************)
(* AwesomeSources for any number of sources, repositories, READMEs and     *)
(* calls. What a call read before its commit is tied to the row it will    *)
(* write by CallInv: an update that would rebind a source that is shown    *)
(* has a revision the row no longer has.                                   *)
(***************************************************************************)
EXTENDS AwesomeSources, TLAPS

CallOk(c) ==
    LET k == call[c]
    IN  /\ k.pc \in {"update", "publish", "read"} \cup Syncing =>
               k.src \in Sources /\ Exists(k.src)
        /\ k.pc = "update" =>
               /\ k.repo \in Repos
               /\ k.revision <= source[k.src].revision
               /\ k.repo # source[k.src].repo =>
                      \/ k.revision < source[k.src].revision
                      \/ source[k.src].status \in {"draft", "ready"}
        /\ k.pc = "publish" => snapshot[k.src] # NoSnapshot
        /\ k.pc \in {"read"} \cup Syncing => k.repo \in Repos
        /\ k.pc = "fetched" => k.got \in Readmes
        /\ k.pc \notin {"committed", "owing"} => k.owe = {}

CallInv == \A c \in Calls : CallOk(c)

IInv ==
    /\ TypeOK
    /\ CallInv
    /\ ShaNamesSnapshot
    /\ RunsHoldTheirSource
    /\ StaleIsOwedOrSkipped

LEMMA Bounds ==
    /\ MaxRevision \in Nat \ {0}
    /\ MaxFaults \in Nat
    /\ Catalog \notin Sources
    /\ NoRun \notin Calls /\ Orphan \notin Calls /\ NoRun # Orphan
    /\ NoSha \notin Readmes
    /\ NoRepo \notin Repos
  BY SourcesAssumption

LEMMA RowFields ==
    ASSUME TypeOK, NEW s \in Sources, Exists(s)
    PROVE  /\ source[s] \in Row
           /\ source[s].status \in Status
           /\ source[s].repo \in Repos
           /\ source[s].revision \in 1..MaxRevision
           /\ source[s].sha \in Readmes \cup {NoSha}
  BY DEF TypeOK, Exists, Row

LEMMA CallFields ==
    ASSUME TypeOK, NEW c \in Calls
    PROVE  /\ call[c] \in CallState
           /\ call[c].pc \in {"idle", "update", "publish", "read", "committed", "owing",
                              "run", "facts", "fetched"}
           /\ call[c].src \in Sources \cup {NoSource}
           /\ call[c].repo \in Repos \cup {NoRepo}
           /\ call[c].revision \in 0..MaxRevision
           /\ call[c].sha \in Readmes \cup {NoSha}
           /\ call[c].got \in Readmes \cup {NoSha}
           /\ call[c].owe \in SUBSET Keys
  BY DEF TypeOK, CallState, Syncing

LEMMA IdleFields ==
    /\ Idle \in CallState
    /\ \A keys \in SUBSET Keys : Committed(keys) \in CallState /\ Owing(keys) \in CallState
<1> USE Bounds
<1>1. Idle \in CallState
  BY DEF Idle, CallState, Syncing
<1>2. ASSUME NEW keys \in SUBSET Keys
      PROVE  Committed(keys) \in CallState /\ Owing(keys) \in CallState
  BY <1>1 DEF Idle, CallState, Committed, Owing, Syncing
<1> QED BY <1>1, <1>2

LEMMA CallStages ==
    /\ Idle.pc = "idle" /\ Idle.owe = {}
    /\ \A keys : Committed(keys).pc = "committed" /\ Committed(keys).owe = keys
    /\ \A keys : Owing(keys).pc = "owing" /\ Owing(keys).owe = keys
  BY DEF Idle, Committed, Owing

\* A row that is edited keeps its shape.
LEMMA EditedRow ==
    ASSUME NEW row \in Row, row.revision < MaxRevision,
           NEW status \in Status, NEW repo \in Repos, NEW sha \in Readmes \cup {NoSha}
    PROVE  /\ [row EXCEPT !.status = status, !.revision = @ + 1] \in Row
           /\ [row EXCEPT !.repo = repo, !.revision = @ + 1, !.sha = sha] \in Row
<1>1. row.revision + 1 \in 1..MaxRevision
  BY Bounds DEF Row
<1> QED BY <1>1 DEF Row

LEMMA NoSourceIsNoRow == NoSource \notin Row
  BY SourcesAssumption DEF Row, Status

LEMMA TypeInit == Init => TypeOK
  BY SourcesAssumption, IdleFields DEF Init, TypeOK, Keys

LEMMA TypeSetStatus ==
    ASSUME TypeOK, NEW s \in Sources, Exists(s), NEW status \in Status,
           SetAwesomeSourceStatus(s, status)
    PROVE  source' \in [Sources -> Row \cup {NoSource}] /\ stale' \in SUBSET Keys
<1> DEFINE row == [source[s] EXCEPT !.status = status, !.revision = @ + 1]
<1>1. source[s] \in Row /\ source[s].revision < MaxRevision
  BY RowFields DEF SetAwesomeSourceStatus
<1>2. source[s].sha \in Readmes \cup {NoSha} /\ source[s].repo \in Repos
  BY <1>1 DEF Row
<1>3. row \in Row
  BY <1>1, <1>2, EditedRow
<1>4. source' = [source EXCEPT ![s] = row]
  BY DEF SetAwesomeSourceStatus
<1>5. stale' \in SUBSET Keys
  BY DEF SetAwesomeSourceStatus, Public, TypeOK, Keys
<1> HIDE DEF row
<1> QED BY <1>3, <1>4, <1>5 DEF TypeOK

LEMMA TypeRequest ==
    ASSUME TypeOK, CallInv, NEW c \in Calls, Request(c)
    PROVE  TypeOK'
<1> USE IdleFields, CallFields, Bounds DEF Keys
<1>1. ASSUME NEW s \in Sources, NEW r \in Repos, CreateSource(c, s, r)
      PROVE  TypeOK'
  <2>1. [status |-> "draft", repo |-> r, revision |-> 1, sha |-> NoSha] \in Row
    BY DEF Row, Status
  <2>2. Committed({Catalog}) \in CallState
    BY DEF Keys
  <2> QED BY <1>1, <2>1, <2>2 DEF CreateSource, TypeOK, readers
<1>2. ASSUME NEW s \in Sources, NEW r \in Repos, NEW n \in 1..MaxRevision, BeginUpdate(c, s, r, n)
      PROVE  TypeOK'
  <2>1. [Idle EXCEPT !.pc = "update", !.src = s, !.repo = r, !.revision = n] \in CallState
    <3>1. n \in 0..MaxRevision
      OBVIOUS
    <3>2. Idle \in CallState
      BY IdleFields
    <3> QED BY <3>1, <3>2 DEF CallState, Syncing
  <2> QED BY <1>2, <2>1 DEF BeginUpdate, TypeOK, database, readers
<1>3. ASSUME NEW s \in Sources, BeginPublish(c, s)
      PROVE  TypeOK'
  <2>1. [Idle EXCEPT !.pc = "publish", !.src = s] \in CallState
    BY DEF Idle, CallState
  <2> QED BY <1>3, <2>1 DEF BeginPublish, TypeOK, database, readers
<1>4. ASSUME NEW s \in Sources, ArchiveSource(c, s)
      PROVE  TypeOK'
  <2>1. SetAwesomeSourceStatus(s, "archived") /\ Exists(s) /\ "archived" \in Status
    BY <1>4 DEF ArchiveSource, Status
  <2>2. source' \in [Sources -> Row \cup {NoSource}] /\ stale' \in SUBSET Keys
    BY <2>1, TypeSetStatus
  <2>3. Committed({Catalog, s}) \in CallState
    BY DEF Keys
  <2> QED BY <1>4, <2>2, <2>3 DEF ArchiveSource, TypeOK
<1>5. ASSUME NEW s \in Sources, BeginSync(c, s)
      PROVE  TypeOK'
  <2>1. [Idle EXCEPT !.pc = "read", !.src = s, !.repo = source[s].repo,
                     !.sha = source[s].sha] \in CallState
    BY <1>5, RowFields DEF Idle, CallState, BeginSync
  <2> QED BY <1>5, <2>1 DEF BeginSync, TypeOK, database, readers
<1> QED BY <1>1, <1>2, <1>3, <1>4, <1>5 DEF Request

LEMMA TypeEdit ==
    ASSUME TypeOK, CallInv, NEW c \in Calls,
           CommitUpdate(c) \/ EditRejected(c) \/ CommitPublish(c) \/ ReadBackFails(c)
               \/ Invalidate(c)
    PROVE  TypeOK'
<1> USE IdleFields, CallFields, Bounds DEF Keys
<1> DEFINE s == call[c].src
<1>1. CASE CommitUpdate(c)
  <2>1. s \in Sources /\ Exists(s) /\ call[c].repo \in Repos
    BY <1>1 DEF CommitUpdate, CallInv, CallOk
  <2>2. PICK sha \in {NoSha, source[s].sha} :
            source' = [source EXCEPT ![s] =
                [source[s] EXCEPT !.repo = call[c].repo, !.revision = @ + 1, !.sha = sha]]
    BY <1>1 DEF CommitUpdate
  <2>3. source' \in [Sources -> Row \cup {NoSource}]
    <3> DEFINE row == [source[s] EXCEPT !.repo = call[c].repo, !.revision = @ + 1,
                                        !.sha = sha]
    <3>1. source[s] \in Row /\ source[s].revision < MaxRevision
      BY <1>1, <2>1, RowFields DEF CommitUpdate
    <3>2. sha \in Readmes \cup {NoSha} /\ source[s].status \in Status
      BY <3>1, <2>2 DEF Row
    <3>3. row \in Row
      BY <2>1, <3>1, <3>2, EditedRow
    <3>4. source' = [source EXCEPT ![s] = row]
      BY <2>2
    <3> HIDE DEF row
    <3> QED BY <3>3, <3>4 DEF TypeOK
  <2>4. Committed({Catalog, s}) \in CallState
    BY <2>1 DEF Keys
  <2>5. stale' \subseteq Keys
    BY <1>1, <2>1 DEF CommitUpdate, Public, TypeOK
  <2> QED BY <1>1, <2>3, <2>4, <2>5 DEF CommitUpdate, TypeOK
<1>2. CASE EditRejected(c)
  BY <1>2 DEF EditRejected, TypeOK, database, readers
<1>3. CASE CommitPublish(c)
  <2>1. s \in Sources /\ Exists(s)
    BY <1>3 DEF CommitPublish, CallInv, CallOk
  <2>2. SetAwesomeSourceStatus(s, "published") /\ "published" \in Status
    BY <1>3 DEF CommitPublish, Status
  <2>3. source' \in [Sources -> Row \cup {NoSource}] /\ stale' \in SUBSET Keys
    BY <2>1, <2>2, TypeSetStatus
  <2>4. Committed({Catalog, s}) \in CallState
    BY <2>1 DEF Keys
  <2> QED BY <1>3, <2>3, <2>4 DEF CommitPublish, TypeOK
<1>4. CASE ReadBackFails(c)
  BY <1>4 DEF ReadBackFails, TypeOK, database, readers
<1>5. CASE Invalidate(c)
  <2>1. PICK k \in call[c].owe :
            /\ stale' = stale \ {k} /\ skipped' = skipped \ {k}
            /\ call' = [call EXCEPT ![c] = IF call[c].owe = {k} THEN Idle
                                           ELSE Owing(call[c].owe \ {k})]
    BY <1>5 DEF Invalidate
  <2>2. Owing(call[c].owe \ {k}) \in CallState
    BY DEF Keys
  <2> QED BY <1>5, <2>1, <2>2 DEF Invalidate, TypeOK, database, readers
<1> QED BY <1>1, <1>2, <1>3, <1>4, <1>5

LEMMA TypeSync ==
    ASSUME TypeOK, CallInv, NEW c \in Calls,
           StartRun(c) \/ RunInProgress(c) \/ StoreFacts(c) \/ FetchReadme(c)
               \/ FastPath(c) \/ ReplaceSnapshot(c) \/ SyncFails(c) \/ FinishLost(c)
    PROVE  TypeOK'
<1> USE IdleFields, CallFields, Bounds DEF Keys
<1> DEFINE s == call[c].src
<1>1. CASE StartRun(c)
  <2>1. [call[c] EXCEPT !.pc = "run"] \in CallState
    BY DEF CallState, Syncing
  <2> QED BY <1>1, <2>1 DEF StartRun, TypeOK, readers
<1>2. CASE RunInProgress(c)
  BY <1>2 DEF RunInProgress, TypeOK, database, readers
<1>3. CASE StoreFacts(c)
  <2>1. [call[c] EXCEPT !.pc = "facts"] \in CallState
    BY DEF CallState, Syncing
  <2>2. stale' \subseteq Keys /\ drifted' \subseteq Sources
    BY <1>3 DEF StoreFacts, TypeOK, Listed
  <2> QED BY <1>3, <2>1, <2>2 DEF StoreFacts, TypeOK, database, readers
<1>4. CASE FetchReadme(c)
  <2>1. PICK m \in Readmes : call' = [call EXCEPT ![c].pc = "fetched", ![c].got = m]
    BY <1>4 DEF FetchReadme
  <2>2. [call[c] EXCEPT !.pc = "fetched", !.got = m] \in CallState
    BY DEF CallState, Syncing
  <2>3. call' = [call EXCEPT ![c] = [call[c] EXCEPT !.pc = "fetched", !.got = m]]
    BY <2>1 DEF TypeOK, CallState
  <2> QED BY <1>4, <2>2, <2>3 DEF FetchReadme, TypeOK, database, readers
<1>5. CASE FastPath(c)
  <2>1. s \in Sources
    BY <1>5 DEF FastPath, CallInv, CallOk, Syncing
  <2>2. Owing({Catalog, s}) \in CallState
    BY <2>1 DEF Keys
  <2> QED BY <1>5, <2>2 DEF FastPath, TypeOK, readers
<1>6. CASE ReplaceSnapshot(c)
  <2>1. s \in Sources /\ Exists(s) /\ call[c].repo \in Repos /\ call[c].got \in Readmes
    BY <1>6 DEF ReplaceSnapshot, CallInv, CallOk, Syncing
  <2>2. Owing({Catalog, s}) \in CallState
    BY <2>1 DEF Keys
  <2>3. PICK found \in SUBSET Listing[call[c].got] :
            /\ snapshot' = [snapshot EXCEPT ![s] = [repo |-> call[c].repo,
                                                   readme |-> call[c].got,
                                                   entries |-> found]]
            /\ EntriesStored(s, found)
    BY <1>6 DEF ReplaceSnapshot
  <2>6. [repo |-> call[c].repo, readme |-> call[c].got, entries |-> found] \in Snapshot
    BY <2>1, <2>3, SourcesAssumption DEF Snapshot
  <2>4. [source[s] EXCEPT !.status = IF @ = "draft" THEN "ready" ELSE @,
                          !.sha = call[c].got] \in Row
    BY <2>1, RowFields, ZenonT(40) DEF Row, Status
  <2>5. stale' \subseteq Keys /\ drifted' \subseteq Sources
    BY <2>1, <2>3 DEF EntriesStored, Public, Listed, TypeOK
  <2>7. snapshot' \in [Sources -> Snapshot \cup {NoSnapshot}]
    BY <2>1, <2>3, <2>6 DEF TypeOK
  <2> QED BY <1>6, <2>2, <2>4, <2>5, <2>7 DEF ReplaceSnapshot, TypeOK
<1>7. CASE SyncFails(c)
  BY <1>7 DEF SyncFails, TypeOK, readers
<1>8. CASE FinishLost(c)
  <2>1. faults + 1 \in 0..MaxFaults
    BY <1>8 DEF FinishLost, TypeOK
  <2>2. Owing({Catalog}) \in CallState
    OBVIOUS
  <2> QED BY <1>8, <2>1, <2>2 DEF FinishLost, TypeOK, readers
<1> QED BY <1>1, <1>2, <1>3, <1>4, <1>5, <1>6, <1>7, <1>8

LEMMA TypeStep ==
    ASSUME TypeOK, CallInv, [Next]_vars
    PROVE  TypeOK'
<1>1. CASE UNCHANGED vars
  BY <1>1 DEF vars, database, readers, TypeOK
<1>2. CASE Crash
  BY <1>2, Bounds, IdleFields DEF Crash, TypeOK
<1>3. ASSUME NEW c \in Calls, Request(c) \/ CallStep(c)
      PROVE  TypeOK'
  BY <1>3, TypeRequest, TypeEdit, TypeSync DEF CallStep
<1> QED BY <1>1, <1>2, <1>3 DEF Next

-----------------------------------------------------------------------------
(* What a call read stays good enough for what it will write. *)

\* The list a synchronisation leaves, and the others it leaves alone.
LEMMA ReplacedList ==
    ASSUME TypeOK, CallInv, NEW c \in Calls, ReplaceSnapshot(c)
    PROVE  \E found \in SUBSET Repos :
               LET l == [repo |-> call[c].repo, readme |-> call[c].got, entries |-> found]
               IN  /\ l \in Snapshot
                   /\ snapshot' = [snapshot EXCEPT ![call[c].src] = l]
                   /\ snapshot'[call[c].src] = l
                   /\ \A o \in Sources \ {call[c].src} : snapshot'[o] = snapshot[o]
<1>1. /\ call[c].repo \in Repos /\ call[c].got \in Readmes
      /\ call[c].src \in Sources
  BY DEF ReplaceSnapshot, CallInv, CallOk, Syncing
<1>2. PICK found \in SUBSET Listing[call[c].got] :
          snapshot' = [snapshot EXCEPT ![call[c].src] =
              [repo |-> call[c].repo, readme |-> call[c].got, entries |-> found]]
  BY DEF ReplaceSnapshot
<1>3. found \in SUBSET Repos
  BY <1>1, SourcesAssumption
<1>4. [repo |-> call[c].repo, readme |-> call[c].got, entries |-> found] \in Snapshot
  BY <1>1, <1>3 DEF Snapshot
<1> QED BY <1>1, <1>2, <1>3, <1>4 DEF TypeOK

\* No step loses a row or a list, or changes the repository or reopens a row
\* without counting a revision.
Grows ==
    \A s \in Sources :
        /\ snapshot[s] # NoSnapshot => snapshot'[s] # NoSnapshot
        /\ Exists(s) =>
               /\ Exists(s)'
               /\ source'[s].revision >= source[s].revision
               /\ source'[s].revision = source[s].revision =>
                      /\ source'[s].repo = source[s].repo
                      /\ source[s].status \in {"draft", "ready"} =>
                             source'[s].status \in {"draft", "ready"}

LEMMA OthersOk ==
    ASSUME TypeOK, TypeOK', CallInv, Grows, NEW d \in Calls, call'[d] = call[d]
    PROVE  CallOk(d)'
<1>1. CallOk(d) /\ call[d].revision \in Nat
  BY CallFields, Bounds DEF CallInv
<1>2. CASE call[d].pc \in {"update", "publish", "read"} \cup Syncing
  <2> DEFINE s == call[d].src
  <2>1. s \in Sources /\ Exists(s)
    BY <1>1, <1>2 DEF CallOk
  <2>2. Exists(s)'
    BY <2>1 DEF Grows
  <2>3. source[s].revision \in Nat /\ source'[s].revision \in Nat
    BY <2>1, <2>2, Bounds, NoSourceIsNoRow DEF TypeOK, Row, Exists
  <2>4. call[d].pc = "update" =>
            /\ call[d].revision <= source'[s].revision
            /\ call[d].repo # source'[s].repo =>
                   \/ call[d].revision < source'[s].revision
                   \/ source'[s].status \in {"draft", "ready"}
    BY <1>1, <2>1, <2>3 DEF CallOk, Grows
  <2> QED BY <1>1, <2>1, <2>2, <2>4 DEF CallOk, Grows
<1>3. CASE call[d].pc \notin {"update", "publish", "read"} \cup Syncing
  BY <1>1, <1>3 DEF CallOk, Syncing
<1> QED BY <1>2, <1>3

LEMMA IdleOk ==
    ASSUME NEW c \in Calls, NEW keys,
           call'[c] = Idle \/ call'[c] = Committed(keys) \/ call'[c] = Owing(keys)
    PROVE  CallOk(c)'
<1>1. /\ call'[c].pc \in {"idle", "committed", "owing"}
      /\ call'[c].pc = "idle" => call'[c].owe = {}
  BY CallStages
<1> QED BY <1>1 DEF CallOk, Syncing

LEMMA SameRowsGrow ==
    ASSUME TypeOK, UNCHANGED <<source, snapshot>>
    PROVE  Grows
<1>1. \A s \in Sources : Exists(s) => source[s].revision \in Nat
  BY RowFields, Bounds
<1> QED BY <1>1 DEF Grows, Exists

LEMMA StatusGrows ==
    ASSUME TypeOK, NEW s \in Sources, Exists(s), NEW status \in Status,
           SetAwesomeSourceStatus(s, status), UNCHANGED snapshot
    PROVE  Grows
<1>1. \A o \in Sources : Exists(o) => source[o].revision \in Nat /\ source[o] \in Row
  BY RowFields, Bounds
<1>2. source'[s] = [source[s] EXCEPT !.status = status, !.revision = source[s].revision + 1]
  BY DEF SetAwesomeSourceStatus, TypeOK
<1>3. source'[s].revision = source[s].revision + 1
  BY <1>1, <1>2 DEF Row
<1>4. \A o \in Sources \ {s} : source'[o] = source[o]
  BY DEF SetAwesomeSourceStatus, TypeOK
<1>5. source'[s] # NoSource
  <2>1. source[s].revision < MaxRevision
    BY DEF SetAwesomeSourceStatus
  <2>2. [source[s] EXCEPT !.status = status, !.revision = @ + 1] \in Row
    BY <1>1, <2>1, RowFields, EditedRow
  <2> QED BY <1>2, <2>2, NoSourceIsNoRow
<1> QED BY <1>1, <1>3, <1>4, <1>5 DEF Grows, Exists

LEMMA RowsGrow ==
    ASSUME TypeOK, CallInv, NEW c \in Calls, CommitUpdate(c) \/ ReplaceSnapshot(c)
    PROVE  Grows
<1> DEFINE s == call[c].src
<1>1. s \in Sources /\ Exists(s) /\ source[s] \in Row
  BY RowFields DEF CommitUpdate, ReplaceSnapshot, CallInv, CallOk, Syncing
<1>2. \A o \in Sources : Exists(o) => source[o].revision \in Nat
  BY RowFields, Bounds
<1>3. CASE CommitUpdate(c)
  <2>1. PICK sha \in {NoSha, source[s].sha} :
            source' = [source EXCEPT ![s] =
                [source[s] EXCEPT !.repo = call[c].repo, !.revision = @ + 1, !.sha = sha]]
    BY <1>3 DEF CommitUpdate
  <2>2. /\ source'[s] = [source[s] EXCEPT !.repo = call[c].repo, !.revision = @ + 1, !.sha = sha]
        /\ \A o \in Sources \ {s} : source'[o] = source[o]
    BY <1>1, <2>1 DEF TypeOK
  <2>3. source'[s].revision = source[s].revision + 1
    BY <1>1, <2>2 DEF Row
  <2>4. source'[s] # NoSource
    <3>1. /\ source[s].revision < MaxRevision /\ call[c].repo \in Repos
          /\ sha \in Readmes \cup {NoSha} /\ source[s].status \in Status
      BY <1>1, <1>3, RowFields DEF CommitUpdate, CallInv, CallOk
    <3>2. [source[s] EXCEPT !.repo = call[c].repo, !.revision = @ + 1, !.sha = sha] \in Row
      BY <1>1, <3>1, EditedRow
    <3> QED BY <2>2, <3>2, NoSourceIsNoRow
  <2>5. snapshot' = snapshot
    BY <1>3 DEF CommitUpdate
  <2>6. ASSUME NEW o \in Sources, Exists(o)
        PROVE  /\ source'[o] # NoSource
               /\ source'[o].revision >= source[o].revision
               /\ source'[o].revision = source[o].revision => source'[o] = source[o]
    <3>1. CASE o = s
      BY <1>2, <2>3, <2>4, <2>6, <3>1
    <3>2. CASE o # s
      <4>1. source'[o] = source[o] /\ source[o].revision \in Nat
        BY <1>2, <2>2, <2>6, <3>2
      <4> QED BY <4>1, <2>6 DEF Exists
    <3> QED BY <3>1, <3>2
  <2> QED BY <2>5, <2>6 DEF Grows, Exists
<1>4. CASE ReplaceSnapshot(c)
  <2>1. /\ source'[s] = [source[s] EXCEPT !.status = IF @ = "draft" THEN "ready" ELSE @,
                                          !.sha = call[c].got]
        /\ \A o \in Sources \ {s} : source'[o] = source[o]
    BY <1>1, <1>4, ZenonT(40) DEF ReplaceSnapshot, TypeOK
  <2>2. /\ source'[s].revision = source[s].revision /\ source'[s].repo = source[s].repo
        /\ source'[s].status = IF source[s].status = "draft" THEN "ready" ELSE source[s].status
    BY <1>1, <2>1 DEF Row
  <2>3. /\ \E found \in SUBSET Repos : snapshot'[s] =
               [repo |-> call[c].repo, readme |-> call[c].got, entries |-> found]
        /\ \A o \in Sources \ {s} : snapshot'[o] = snapshot[o]
    BY <1>1, <1>4, ReplacedList DEF TypeOK
  <2>4. call[c].repo \in Repos /\ call[c].got \in Readmes
    BY <1>4 DEF ReplaceSnapshot, CallInv, CallOk, Syncing
  <2>5. snapshot'[s] # NoSnapshot
    BY <2>3, <2>4, SourcesAssumption
  <2>6. source'[s] # NoSource
    <3>1. source'[s] \in Row
      BY <1>1, <2>1, <2>4, RowFields DEF Row, Status
    <3> QED BY <3>1, NoSourceIsNoRow
  <2>7. ASSUME NEW o \in Sources, Exists(o)
        PROVE  /\ source'[o] # NoSource
               /\ source'[o].revision >= source[o].revision
               /\ source'[o].repo = source[o].repo
               /\ source[o].status \in {"draft", "ready"} =>
                      source'[o].status \in {"draft", "ready"}
    <3>1. CASE o = s
      BY <1>2, <2>2, <2>6, <2>7, <3>1
    <3>2. CASE o # s
      <4>1. source'[o] = source[o] /\ source[o].revision \in Nat
        BY <1>2, <2>1, <2>7, <3>2
      <4> QED BY <4>1, <2>7 DEF Exists
    <3> QED BY <3>1, <3>2
  <2>8. \A o \in Sources : snapshot[o] # NoSnapshot => snapshot'[o] # NoSnapshot
    BY <2>3, <2>5
  <2> QED BY <2>7, <2>8 DEF Grows, Exists
<1> QED BY <1>3, <1>4

LEMMA CallRequest ==
    ASSUME TypeOK, CallInv, NEW c \in Calls, Request(c)
    PROVE  CallOk(c)' /\ Grows /\ (\A d \in Calls \ {c} : call'[d] = call[d])
<1> USE DEF TypeOK
<1>1. ASSUME NEW s \in Sources, NEW r \in Repos, CreateSource(c, s, r)
      PROVE  CallOk(c)' /\ Grows
  <2>1. Grows
    <3>1. \A o \in Sources : Exists(o) => source'[o] = source[o] /\ source[o].revision \in Nat
      BY <1>1, RowFields, Bounds DEF CreateSource
    <3> QED BY <1>1, <3>1 DEF CreateSource, Grows, Exists
  <2> QED BY <1>1, <2>1, IdleOk DEF CreateSource
<1>2. ASSUME NEW s \in Sources, NEW r \in Repos, NEW n \in 1..MaxRevision, BeginUpdate(c, s, r, n)
      PROVE  CallOk(c)' /\ Grows
  <2>1. /\ call'[c].pc = "update" /\ call'[c].src = s /\ call'[c].repo = r
        /\ call'[c].revision = n /\ call'[c].owe = {}
    BY <1>2 DEF BeginUpdate, Idle
  <2>2. Exists(s) /\ source[s].revision \in Nat /\ n <= source[s].revision
    BY <1>2, RowFields, Bounds DEF BeginUpdate
  <2>3. Grows /\ source' = source
    BY <1>2, SameRowsGrow DEF BeginUpdate, database, readers
  <2> QED BY <1>2, <2>1, <2>2, <2>3 DEF BeginUpdate, CallOk, Exists, Syncing
<1>3. ASSUME NEW s \in Sources, BeginPublish(c, s)
      PROVE  CallOk(c)' /\ Grows
  <2>1. call'[c].pc = "publish" /\ call'[c].src = s /\ call'[c].owe = {}
    BY <1>3 DEF BeginPublish, Idle
  <2>2. Grows /\ UNCHANGED <<source, snapshot>>
    BY <1>3, SameRowsGrow DEF BeginPublish, database, readers
  <2> QED BY <1>3, <2>1, <2>2 DEF BeginPublish, Entries, CallOk, Exists, Syncing
<1>4. ASSUME NEW s \in Sources, ArchiveSource(c, s)
      PROVE  CallOk(c)' /\ Grows
  BY <1>4, StatusGrows, IdleOk DEF ArchiveSource, Status
<1>5. ASSUME NEW s \in Sources, BeginSync(c, s)
      PROVE  CallOk(c)' /\ Grows
  <2>1. /\ call'[c].pc = "read" /\ call'[c].src = s /\ call'[c].owe = {}
        /\ call'[c].repo = source[s].repo
    BY <1>5 DEF BeginSync, Idle
  <2>2. Grows /\ source' = source
    BY <1>5, SameRowsGrow DEF BeginSync, database, readers
  <2>3. source[s].repo \in Repos
    BY <1>5, RowFields DEF BeginSync
  <2> QED BY <1>5, <2>1, <2>2, <2>3 DEF BeginSync, CallOk, Exists, Syncing
<1>6. \A d \in Calls \ {c} : call'[d] = call[d]
  BY DEF Request, CreateSource, BeginUpdate, BeginPublish, ArchiveSource, BeginSync
<1> QED BY <1>1, <1>2, <1>3, <1>4, <1>5, <1>6 DEF Request

LEMMA CallSync ==
    ASSUME TypeOK, CallInv, NEW c \in Calls,
           StartRun(c) \/ StoreFacts(c) \/ FetchReadme(c)
    PROVE  CallOk(c)' /\ Grows
<1>1. CallOk(c) /\ call[c] \in CallState
  BY CallFields DEF CallInv
<1>2. Grows /\ UNCHANGED <<source, snapshot>>
  BY SameRowsGrow DEF StartRun, StoreFacts, FetchReadme, database, readers
<1>3. /\ call'[c].pc \in Syncing
      /\ call'[c].src = call[c].src /\ call'[c].repo = call[c].repo
      /\ call'[c].owe = call[c].owe
      /\ call'[c].pc = "fetched" => call'[c].got \in Readmes
  BY <1>1 DEF StartRun, StoreFacts, FetchReadme, TypeOK, CallState, Syncing
<1>4. call[c].pc \in {"read"} \cup Syncing
  BY DEF StartRun, StoreFacts, FetchReadme, Syncing
<1> QED BY <1>1, <1>2, <1>3, <1>4 DEF CallOk, Exists, Syncing

LEMMA CallSteps ==
    ASSUME TypeOK, CallInv, NEW c \in Calls, CallStep(c)
    PROVE  CallOk(c)' /\ Grows /\ (\A d \in Calls \ {c} : call'[d] = call[d])
<1> USE DEF TypeOK
<1>7. \A d \in Calls \ {c} : call'[d] = call[d]
  BY DEF CallStep, CommitUpdate, EditRejected, CommitPublish, ReadBackFails, Invalidate,
         StartRun, RunInProgress, StoreFacts, FetchReadme, FastPath, ReplaceSnapshot,
         SyncFails, FinishLost
<1>1. CASE StartRun(c) \/ StoreFacts(c) \/ FetchReadme(c)
  BY <1>1, <1>7, CallSync
<1>2. CASE CommitUpdate(c) \/ ReplaceSnapshot(c)
  BY <1>2, RowsGrow, IdleOk DEF CommitUpdate, ReplaceSnapshot
<1>3. CASE CommitPublish(c)
  <2>1. call[c].src \in Sources /\ Exists(call[c].src)
    BY <1>3 DEF CommitPublish, CallInv, CallOk
  <2> QED BY <1>3, <2>1, StatusGrows, IdleOk DEF CommitPublish, Status
<1>4. CASE EditRejected(c) \/ ReadBackFails(c) \/ RunInProgress(c)
  BY <1>4, SameRowsGrow, IdleOk DEF EditRejected, ReadBackFails, RunInProgress, database, readers
<1>5. CASE Invalidate(c)
  BY <1>5, SameRowsGrow, IdleOk DEF Invalidate, database, readers
<1>6. CASE FastPath(c) \/ SyncFails(c) \/ FinishLost(c)
  BY <1>6, SameRowsGrow, IdleOk DEF FastPath, SyncFails, FinishLost
<1> QED BY <1>1, <1>2, <1>3, <1>4, <1>5, <1>6, <1>7 DEF CallStep

LEMMA CallInit == Init => CallInv
  BY DEF Init, CallInv, CallOk, Idle, Syncing

LEMMA CallNext ==
    ASSUME TypeOK, CallInv, [Next]_vars
    PROVE  CallInv' /\ TypeOK'
<1>1. TypeOK'
  BY TypeStep
<1>2. CASE UNCHANGED vars
  BY <1>1, <1>2 DEF vars, database, readers, CallInv, CallOk, Exists, Syncing
<1>3. CASE Crash
  <2>1. \A c \in Calls : call'[c] = Idle
    BY <1>3 DEF Crash
  <2> QED BY <1>1, <2>1, IdleOk DEF CallInv
<1>4. ASSUME NEW c \in Calls, Request(c) \/ CallStep(c)
      PROVE  CallInv'
  <2>1. CallOk(c)' /\ Grows /\ (\A d \in Calls \ {c} : call'[d] = call[d])
    BY <1>4, CallRequest, CallSteps
  <2>2. \A d \in Calls : CallOk(d)'
    BY <1>1, <2>1, OthersOk
  <2> QED BY <2>2 DEF CallInv
<1> QED BY <1>1, <1>2, <1>3, <1>4 DEF Next

-----------------------------------------------------------------------------
(* The SHA of a row and the run of a source. *)

LEMMA ShaStep ==
    ASSUME TypeOK, CallInv, ShaNamesSnapshot, [Next]_vars
    PROVE  ShaNamesSnapshot'
<1> USE DEF ShaNamesSnapshot, Exists
<1>1. CASE UNCHANGED <<source, snapshot>>
  BY <1>1
<1>2. ASSUME NEW c \in Calls, NEW s \in Sources, NEW r \in Repos, CreateSource(c, s, r)
      PROVE  ShaNamesSnapshot'
  <2>1. source'[s].sha = NoSha /\ snapshot' = snapshot
    BY <1>2 DEF CreateSource, TypeOK
  <2>2. \A o \in Sources \ {s} : source'[o] = source[o]
    BY <1>2 DEF CreateSource, TypeOK
  <2> QED BY <2>1, <2>2
<1>3. ASSUME NEW s \in Sources, Exists(s), NEW status \in Status,
             SetAwesomeSourceStatus(s, status), UNCHANGED snapshot
      PROVE  ShaNamesSnapshot'
  <2>1. source'[s].sha = source[s].sha
    <3>1. source'[s] = [source[s] EXCEPT !.status = status, !.revision = source[s].revision + 1]
      BY <1>3 DEF SetAwesomeSourceStatus, TypeOK
    <3> QED BY <1>3, <3>1, RowFields DEF Row
  <2>2. \A o \in Sources \ {s} : source'[o] = source[o]
    BY <1>3 DEF SetAwesomeSourceStatus, TypeOK
  <2> QED BY <1>3, <2>1, <2>2
<1>4. ASSUME NEW c \in Calls, CommitUpdate(c)
      PROVE  ShaNamesSnapshot'
  <2> DEFINE s == call[c].src
  <2>1. s \in Sources /\ Exists(s) /\ source[s] \in Row
    BY <1>4, RowFields DEF CommitUpdate, CallInv, CallOk
  <2>2. source'[s].sha \in {NoSha, source[s].sha} /\ snapshot' = snapshot
    BY <1>4, <2>1 DEF CommitUpdate, TypeOK, Row
  <2>3. \A o \in Sources \ {s} : source'[o] = source[o]
    BY <1>4 DEF CommitUpdate, TypeOK
  <2> QED BY <2>1, <2>2, <2>3
<1>5. ASSUME NEW c \in Calls, ReplaceSnapshot(c)
      PROVE  ShaNamesSnapshot'
  <2> DEFINE s == call[c].src
  <2>1. s \in Sources /\ Exists(s) /\ source[s] \in Row
    BY <1>5, RowFields DEF ReplaceSnapshot, CallInv, CallOk, Syncing
  <2>2. source'[s].sha = call[c].got
    BY <1>5, <2>1 DEF ReplaceSnapshot, TypeOK, Row
  <2>3. \E found \in SUBSET Repos : snapshot'[s] =
            [repo |-> call[c].repo, readme |-> call[c].got, entries |-> found]
    BY <1>5, <2>1, ReplacedList
  <2>4. snapshot'[s] # NoSnapshot
    <3>1. call[c].repo \in Repos /\ call[c].got \in Readmes
      BY <1>5 DEF ReplaceSnapshot, CallInv, CallOk, Syncing
    <3> QED BY <2>3, <3>1, SourcesAssumption
  <2>5. \A o \in Sources \ {s} : source'[o] = source[o] /\ snapshot'[o] = snapshot[o]
    BY <1>5 DEF ReplaceSnapshot, TypeOK
  <2> QED BY <2>2, <2>3, <2>4, <2>5
<1>6. ASSUME NEW c \in Calls, NEW s \in Sources, ArchiveSource(c, s)
      PROVE  ShaNamesSnapshot'
  BY <1>3, <1>6 DEF ArchiveSource, Status
<1>7. ASSUME NEW c \in Calls, CommitPublish(c)
      PROVE  ShaNamesSnapshot'
  <2>1. call[c].src \in Sources /\ Exists(call[c].src)
    BY <1>7 DEF CommitPublish, CallInv, CallOk
  <2> QED BY <1>3, <1>7, <2>1 DEF CommitPublish, Status
<1> QED BY <1>1, <1>2, <1>4, <1>5, <1>6, <1>7, ZenonT(40)
        DEF Next, Request, CallStep, vars, database, readers, BeginUpdate, BeginPublish, BeginSync,
            EditRejected, ReadBackFails, Invalidate, StartRun, RunInProgress, StoreFacts,
            FetchReadme, FastPath, SyncFails, FinishLost, Crash

\* What a step may do to the run of one source and to the calls.
LEMMA RunsStay ==
    ASSUME TypeOK, RunsHoldTheirSource, NEW c \in Calls,
           \A d \in Calls \ {c} : call'[d] = call[d],
           active' = active,
           \/ call[c].pc \notin Syncing /\ call'[c].pc \notin Syncing
           \/ /\ call[c].pc \in Syncing /\ call'[c].pc \in Syncing
              /\ call'[c].src = call[c].src
    PROVE  RunsHoldTheirSource'
  BY DEF RunsHoldTheirSource, Syncing

LEMMA RunEnds ==
    ASSUME TypeOK, RunsHoldTheirSource, NEW c \in Calls,
           \A d \in Calls \ {c} : call'[d] = call[d],
           call[c].src \in Sources, call[c].pc \in Syncing, call'[c].pc \notin Syncing,
           NEW e \in {NoRun, Orphan}, active' = [active EXCEPT ![call[c].src] = e]
    PROVE  RunsHoldTheirSource'
<1>1. active'[call[c].src] = e /\ e \notin Calls
  BY Bounds DEF TypeOK
<1>2. \A s \in Sources \ {call[c].src} : active'[s] = active[s]
  BY DEF TypeOK
<1>3. active[call[c].src] = c
  BY DEF RunsHoldTheirSource
<1>4. ASSUME NEW d \in Calls, call'[d].pc \in Syncing
      PROVE  active'[call'[d].src] = d
  <2>1. d # c /\ call'[d] = call[d]
    BY <1>4
  <2>2. active[call[d].src] = d
    BY <1>4, <2>1 DEF RunsHoldTheirSource
  <2>3. call[d].src # call[c].src
    BY <1>3, <2>1, <2>2
  <2> QED BY <2>1, <2>2, <2>3 DEF TypeOK
<1>5. ASSUME NEW s \in Sources, active'[s] \in Calls
      PROVE  call'[active'[s]].pc \in Syncing /\ call'[active'[s]].src = s
  <2>1. s # call[c].src /\ active'[s] = active[s]
    BY <1>1, <1>2, <1>5
  <2>2. call[active[s]].pc \in Syncing /\ call[active[s]].src = s
    BY <1>5, <2>1 DEF RunsHoldTheirSource
  <2> QED BY <1>5, <2>1, <2>2
<1> QED BY <1>4, <1>5 DEF RunsHoldTheirSource, Syncing

LEMMA RunStarts ==
    ASSUME TypeOK, RunsHoldTheirSource, NEW c \in Calls,
           \A d \in Calls \ {c} : call'[d] = call[d],
           call[c].src \in Sources, call[c].pc \notin Syncing,
           call'[c].pc \in Syncing, call'[c].src = call[c].src,
           active[call[c].src] = NoRun, active' = [active EXCEPT ![call[c].src] = c]
    PROVE  RunsHoldTheirSource'
<1>1. active'[call[c].src] = c
  BY DEF TypeOK
<1>2. \A s \in Sources \ {call[c].src} : active'[s] = active[s]
  BY DEF TypeOK
<1>3. ASSUME NEW d \in Calls, call'[d].pc \in Syncing
      PROVE  active'[call'[d].src] = d
  <2>1. CASE d = c
    BY <1>1, <2>1
  <2>2. CASE d # c
    <3>1. call'[d] = call[d] /\ active[call[d].src] = d
      BY <1>3, <2>2 DEF RunsHoldTheirSource
    <3>2. call[d].src # call[c].src
      BY <3>1, Bounds
    <3> QED BY <3>1, <3>2 DEF TypeOK
  <2> QED BY <2>1, <2>2
<1>4. ASSUME NEW s \in Sources, active'[s] \in Calls
      PROVE  call'[active'[s]].pc \in Syncing /\ call'[active'[s]].src = s
  <2>1. CASE s = call[c].src
    BY <1>1, <2>1
  <2>2. CASE s # call[c].src
    <3>1. /\ active'[s] = active[s]
          /\ call[active[s]].pc \in Syncing /\ call[active[s]].src = s
      BY <1>2, <1>4, <2>2 DEF RunsHoldTheirSource
    <3> QED BY <1>4, <3>1
  <2> QED BY <2>1, <2>2
<1> QED BY <1>3, <1>4 DEF RunsHoldTheirSource, Syncing

LEMMA RunsStep ==
    ASSUME TypeOK, CallInv, RunsHoldTheirSource, [Next]_vars
    PROVE  RunsHoldTheirSource'
<1>1. CASE UNCHANGED vars
  BY <1>1 DEF vars, database, readers, RunsHoldTheirSource, Syncing
<1>2. CASE Crash
  <2>1. \A c \in Calls : call'[c].pc = "idle"
    BY <1>2 DEF Crash, Idle
  <2>2. \A s \in Sources : active'[s] \in {NoRun, Orphan}
    BY <1>2 DEF Crash
  <2> QED BY <2>1, <2>2, Bounds DEF RunsHoldTheirSource, Syncing
<1>3. ASSUME NEW c \in Calls, Request(c)
      PROVE  RunsHoldTheirSource'
  <2>1. \A d \in Calls \ {c} : call'[d] = call[d]
    BY <1>3, CallRequest
  <2>2. active' = active /\ call[c].pc \notin Syncing
    BY <1>3 DEF Request, CreateSource, BeginUpdate, BeginPublish, ArchiveSource, BeginSync,
           database, readers, SetAwesomeSourceStatus, Syncing
  <2>3. call'[c].pc \in {"committed", "update", "publish", "read"}
    <3>1. ASSUME NEW s \in Sources, (\E r \in Repos : CreateSource(c, s, r)) \/ ArchiveSource(c, s)
          PROVE  call'[c].pc = "committed"
      <4>1. \E keys : call'[c] = Committed(keys)
        BY <3>1 DEF CreateSource, ArchiveSource, TypeOK
      <4> QED BY <4>1, CallStages
    <3>2. ASSUME NEW s \in Sources,
                 \/ \E r \in Repos, n \in 1..MaxRevision : BeginUpdate(c, s, r, n)
                 \/ BeginPublish(c, s)
                 \/ BeginSync(c, s)
          PROVE  call'[c].pc \in {"update", "publish", "read"}
      BY <3>2, ZenonT(40) DEF BeginUpdate, BeginPublish, BeginSync, Idle, TypeOK
    <3> QED BY <1>3, <3>1, <3>2 DEF Request
  <2> QED BY <2>1, <2>2, <2>3, RunsStay DEF Syncing
<1>4. ASSUME NEW c \in Calls, CallStep(c)
      PROVE  RunsHoldTheirSource'
  <2>1. \A d \in Calls \ {c} : call'[d] = call[d]
    BY <1>4, CallSteps
  <2>2. CASE CommitUpdate(c) \/ EditRejected(c) \/ CommitPublish(c) \/ ReadBackFails(c)
                 \/ Invalidate(c) \/ RunInProgress(c)
    <3>1. active' = active /\ call[c].pc \notin Syncing
      BY <2>2 DEF CommitUpdate, EditRejected, CommitPublish, ReadBackFails, Invalidate,
                  RunInProgress, database, readers, Syncing
    <3>2. call'[c].pc \in {"idle", "committed", "owing"}
      <4>1. \/ call'[c] = Idle
            \/ \E keys : call'[c] = Committed(keys)
            \/ \E keys : call'[c] = Owing(keys)
        BY <2>2 DEF CommitUpdate, EditRejected, CommitPublish, ReadBackFails, Invalidate,
                    RunInProgress, TypeOK
      <4> QED BY <4>1, CallStages
    <3> QED BY <2>1, <3>1, <3>2, RunsStay DEF Syncing
  <2>3. CASE StoreFacts(c) \/ FetchReadme(c)
    <3>1. /\ active' = active /\ call[c].pc \in Syncing /\ call'[c].pc \in Syncing
          /\ call'[c].src = call[c].src
      BY <2>3, CallFields DEF StoreFacts, FetchReadme, database, readers, Syncing, TypeOK, CallState
    <3> QED BY <2>1, <3>1, RunsStay
  <2>4. CASE StartRun(c)
    <3>1. /\ call[c].src \in Sources /\ call[c].pc \notin Syncing
          /\ call'[c].pc \in Syncing /\ call'[c].src = call[c].src
      BY <2>4, CallFields DEF StartRun, CallInv, CallOk, Syncing, TypeOK, CallState
    <3> QED BY <2>1, <2>4, <3>1, RunStarts DEF StartRun
  <2>5. CASE FastPath(c) \/ ReplaceSnapshot(c) \/ SyncFails(c) \/ FinishLost(c)
    <3>1. call[c].src \in Sources /\ call[c].pc \in Syncing
      BY <2>5 DEF FastPath, ReplaceSnapshot, SyncFails, FinishLost, CallInv, CallOk, Syncing
    <3>2. call'[c].pc = "owing"
      BY <2>5, CallStages DEF FastPath, ReplaceSnapshot, SyncFails, FinishLost, TypeOK
    <3>3. \E e \in {NoRun, Orphan} : active' = [active EXCEPT ![call[c].src] = e]
      BY <2>5 DEF FastPath, ReplaceSnapshot, SyncFails, FinishLost
    <3>4. call'[c].pc \notin Syncing
      BY <3>2 DEF Syncing
    <3> QED BY <2>1, <3>1, <3>3, <3>4, RunEnds
  <2> QED BY <1>4, <2>2, <2>3, <2>4, <2>5 DEF CallStep
<1> QED BY <1>1, <1>2, <1>3, <1>4 DEF Next

-----------------------------------------------------------------------------
(* Stale cache keys and who owes their invalidation. *)

\* A step of one call keeps the invariant if it accounts for its own keys.
LEMMA StaleFrame ==
    ASSUME StaleIsOwedOrSkipped, NEW c \in Calls,
           \A d \in Calls \ {c} : call'[d] = call[d],
           \A k \in stale' :
               \/ k \in stale /\ k \notin skipped /\ k \notin Owed(c)
               \/ k \in skipped'
               \/ k \in call'[c].owe
               \/ k = Catalog /\ call'[c].pc \in Syncing,
           skipped \cap stale' \subseteq skipped'
    PROVE  StaleIsOwedOrSkipped'
<1>1. \A k \in stale : k \in skipped \/ \E d \in Calls : k \in Owed(d)
  BY DEF StaleIsOwedOrSkipped
<1>2. \A d \in Calls \ {c} : Owed(d)' = Owed(d)
  BY DEF Owed, Syncing
<1>3. \A k \in stale' : k \in skipped' \/ \E d \in Calls : k \in Owed(d)'
  <2> SUFFICES ASSUME NEW k \in stale'
               PROVE  k \in skipped' \/ \E d \in Calls : k \in Owed(d)'
    OBVIOUS
  <2>1. CASE k \in stale /\ k \notin skipped /\ k \notin Owed(c)
    <3>1. PICK d \in Calls : k \in Owed(d)
      BY <1>1, <2>1
    <3> QED BY <1>2, <2>1, <3>1
  <2>2. CASE k \in call'[c].owe \/ (k = Catalog /\ call'[c].pc \in Syncing)
    BY <2>2 DEF Owed, Syncing
  <2> QED BY <2>1, <2>2
<1> QED BY <1>3 DEF StaleIsOwedOrSkipped

\* A call writes keys only of its source and of the catalog.
LEMMA PublicKeys == \A s \in Sources : Public(s) \subseteq {Catalog, s}
  BY DEF Public

LEMMA StaleRequest ==
    ASSUME TypeOK, CallInv, StaleIsOwedOrSkipped, NEW c \in Calls, Request(c)
    PROVE  StaleIsOwedOrSkipped'
<1>1. \A d \in Calls \ {c} : call'[d] = call[d]
  BY CallRequest
<1>2. Owed(c) = {}
  <2>1. call[c].pc = "idle"
    BY DEF Request, CreateSource, BeginUpdate, BeginPublish, ArchiveSource, BeginSync
  <2> QED BY <2>1 DEF CallInv, CallOk, Owed, Syncing
<1>3. skipped' = skipped
  BY DEF readers, Request, CreateSource, BeginUpdate, BeginPublish, ArchiveSource, BeginSync
<1>4. CASE stale' = stale
  BY <1>1, <1>2, <1>3, <1>4, StaleFrame
<1>5. ASSUME NEW s \in Sources, ArchiveSource(c, s)
      PROVE  StaleIsOwedOrSkipped'
  <2>1. call'[c].owe = {Catalog, s}
    BY <1>5, CallStages DEF ArchiveSource, TypeOK
  <2>2. stale' \subseteq stale \cup {Catalog, s}
    BY <1>5, PublicKeys DEF ArchiveSource, SetAwesomeSourceStatus
  <2> QED BY <1>1, <1>2, <1>3, <2>1, <2>2, StaleFrame
<1> QED BY <1>4, <1>5 DEF readers, Request, CreateSource, BeginUpdate, BeginPublish, BeginSync

LEMMA StaleEdit ==
    ASSUME TypeOK, CallInv, StaleIsOwedOrSkipped, NEW c \in Calls,
           CommitUpdate(c) \/ EditRejected(c) \/ CommitPublish(c) \/ ReadBackFails(c)
               \/ Invalidate(c)
    PROVE  StaleIsOwedOrSkipped'
<1>1. \A d \in Calls \ {c} : call'[d] = call[d]
  BY CallSteps DEF CallStep
<1>2. CASE CommitUpdate(c) \/ CommitPublish(c)
  <2> DEFINE s == call[c].src
  <2>1. s \in Sources /\ Owed(c) = {}
    BY <1>2 DEF CommitUpdate, CommitPublish, CallInv, CallOk, Owed, Syncing
  <2>2. call'[c].owe = {Catalog, s} /\ skipped' = skipped
    BY <1>2, CallStages DEF CommitUpdate, CommitPublish, TypeOK
  <2>3. stale' \subseteq stale \cup {Catalog, s}
    BY <1>2, <2>1, PublicKeys DEF CommitUpdate, CommitPublish, SetAwesomeSourceStatus
  <2> QED BY <1>1, <2>1, <2>2, <2>3, StaleFrame
<1>3. CASE EditRejected(c)
  <2>1. Owed(c) = {} /\ UNCHANGED <<stale, skipped>>
    BY <1>3 DEF readers, EditRejected, CallInv, CallOk, Owed, Syncing
  <2> QED BY <1>1, <2>1, StaleFrame
<1>4. CASE ReadBackFails(c)
  <2>1. /\ Owed(c) = call[c].owe /\ stale' = stale
        /\ skipped' = skipped \cup (call[c].owe \cap stale)
    BY <1>4 DEF ReadBackFails, Owed, Syncing
  <2> QED BY <1>1, <2>1, StaleFrame
<1>5. CASE Invalidate(c)
  <2>1. PICK k \in call[c].owe :
            /\ stale' = stale \ {k} /\ skipped' = skipped \ {k}
            /\ call'[c] = IF call[c].owe = {k} THEN Idle ELSE Owing(call[c].owe \ {k})
    BY <1>5 DEF Invalidate, TypeOK
  <2>2. call'[c].owe = call[c].owe \ {k}
    BY <2>1, CallStages
  <2>3. Owed(c) = call[c].owe
    BY <1>5 DEF Invalidate, Owed, Syncing
  <2> QED BY <1>1, <2>1, <2>2, <2>3, StaleFrame
<1> QED BY <1>2, <1>3, <1>4, <1>5

LEMMA StaleSync ==
    ASSUME TypeOK, CallInv, StaleIsOwedOrSkipped, NEW c \in Calls,
           StartRun(c) \/ RunInProgress(c) \/ StoreFacts(c) \/ FetchReadme(c)
               \/ FastPath(c) \/ ReplaceSnapshot(c) \/ SyncFails(c) \/ FinishLost(c)
    PROVE  StaleIsOwedOrSkipped'
<1> DEFINE s == call[c].src
<1>1. \A d \in Calls \ {c} : call'[d] = call[d]
  BY CallSteps DEF CallStep
<1>2. /\ call[c].owe = {} /\ s \in Sources /\ skipped' = skipped
      /\ call[c].pc \in {"read"} \cup Syncing
  BY DEF readers, StartRun, RunInProgress, StoreFacts, FetchReadme, FastPath, ReplaceSnapshot,
         SyncFails, FinishLost, CallInv, CallOk, Syncing
<1>3. Owed(c) \subseteq {Catalog} /\ (call[c].pc = "read" => Owed(c) = {})
  BY <1>2 DEF Owed, Syncing
<1>4. CASE RunInProgress(c)
  BY <1>1, <1>2, <1>3, <1>4, StaleFrame DEF readers, RunInProgress
<1>5. CASE StartRun(c) \/ StoreFacts(c) \/ FetchReadme(c)
  <2>1. call'[c].pc \in Syncing
    BY <1>5, CallFields DEF StartRun, StoreFacts, FetchReadme, Syncing, TypeOK, CallState
  <2>2. stale' \subseteq stale \cup {Catalog}
    BY <1>5 DEF readers, StartRun, StoreFacts, FetchReadme
  <2> QED BY <1>1, <1>2, <1>3, <2>1, <2>2, StaleFrame
<1>6. CASE FastPath(c) \/ ReplaceSnapshot(c)
  <2>1. call'[c].owe = {Catalog, s}
    BY <1>6, CallStages DEF FastPath, ReplaceSnapshot, TypeOK
  <2>2. stale' \subseteq stale \cup {Catalog, s}
    <3>1. CASE FastPath(c)
      BY <3>1 DEF readers, FastPath
    <3>2. CASE ReplaceSnapshot(c)
      <4>1. PICK found \in SUBSET Listing[call[c].got] : EntriesStored(s, found)
        BY <3>2 DEF ReplaceSnapshot
      <4> QED BY <1>2, <4>1, PublicKeys DEF EntriesStored
    <3> QED BY <1>6, <3>1, <3>2
  <2> QED BY <1>1, <1>2, <1>3, <2>1, <2>2, StaleFrame
<1>7. CASE SyncFails(c) \/ FinishLost(c)
  <2>1. call'[c].owe = {Catalog} /\ stale' = stale
    BY <1>7, CallStages DEF readers, SyncFails, FinishLost, TypeOK
  <2> QED BY <1>1, <1>2, <1>3, <2>1, StaleFrame
<1> QED BY <1>4, <1>5, <1>6, <1>7

LEMMA StaleStep ==
    ASSUME TypeOK, CallInv, StaleIsOwedOrSkipped, [Next]_vars
    PROVE  StaleIsOwedOrSkipped'
<1>1. CASE UNCHANGED vars
  BY <1>1 DEF vars, readers, StaleIsOwedOrSkipped, Owed, Syncing
<1>2. CASE Crash
  BY <1>2 DEF Crash, StaleIsOwedOrSkipped
<1>3. ASSUME NEW c \in Calls, Request(c) \/ CallStep(c)
      PROVE  StaleIsOwedOrSkipped'
  BY <1>3, StaleRequest, StaleEdit, StaleSync DEF CallStep
<1> QED BY <1>1, <1>2, <1>3 DEF Next

-----------------------------------------------------------------------------
(* The safety theorems. *)

LEMMA InvInit == Init => IInv
<1> SUFFICES ASSUME Init PROVE IInv
  OBVIOUS
<1>1. TypeOK /\ CallInv
  BY TypeInit, CallInit
<1>2. ShaNamesSnapshot
  BY DEF Init, ShaNamesSnapshot, Exists
<1>3. RunsHoldTheirSource
  BY Bounds DEF Init, RunsHoldTheirSource, Idle, Syncing
<1>4. StaleIsOwedOrSkipped
  BY DEF Init, StaleIsOwedOrSkipped
<1> QED BY <1>1, <1>2, <1>3, <1>4 DEF IInv

LEMMA InvNext == IInv /\ [Next]_vars => IInv'
<1> SUFFICES ASSUME IInv, [Next]_vars PROVE IInv'
  OBVIOUS
<1>1. CallInv' /\ TypeOK'
  BY CallNext DEF IInv
<1>2. ShaNamesSnapshot'
  BY ShaStep DEF IInv
<1>3. RunsHoldTheirSource'
  BY RunsStep DEF IInv
<1>4. StaleIsOwedOrSkipped'
  BY StaleStep DEF IInv
<1> QED BY <1>1, <1>2, <1>3, <1>4 DEF IInv

LEMMA InvAlways == Spec => []IInv
  BY InvInit, InvNext, PTL DEF Spec

\* Rows, snapshots, calls and caches keep their types: no request writes a
\* revision, a status or a repository that the tables cannot hold.
THEOREM TypeCorrect == Spec => []TypeOK
<1>1. IInv => TypeOK
  BY DEF IInv
<1> QED BY <1>1, InvAlways, PTL

\* The SHA of a row names the README its snapshot was made from (SyncSource's
\* fast path relies on it).
THEOREM ShaCorrect == Spec => []ShaNamesSnapshot
<1>1. IInv => ShaNamesSnapshot
  BY DEF IInv
<1> QED BY <1>1, InvAlways, PTL

\* At most one synchronisation of a source is at work, and it holds the
\* source's active row (the partial unique index of awesome_sync_runs).
THEOREM RunsCorrect == Spec => []RunsHoldTheirSource
<1>1. IInv => RunsHoldTheirSource
  BY DEF IInv
<1> QED BY <1>1, InvAlways, PTL

\* A cached row, list or card is out of date only while a writer owes its
\* invalidation or after a writer that could not read its row back. The facts
\* of a repository shown in the lists of other sources are not covered: no
\* writer owes those (NoListBehindItsFacts).
THEOREM StaleCorrect == Spec => []StaleIsOwedOrSkipped
<1>1. IInv => StaleIsOwedOrSkipped
  BY DEF IInv
<1> QED BY <1>1, InvAlways, PTL

-----------------------------------------------------------------------------
(* AwesomeSources implements PublicSource. *)

StageOf(s) == IF ~Exists(s) THEN "absent" ELSE IF Published(s) THEN "shown" ELSE "hidden"
HomeOf(s) == IF Exists(s) THEN source[s].repo ELSE NoRepo
Stages == [s \in Sources |-> StageOf(s)]
Homes == [s \in Sources |-> HomeOf(s)]

LEMMA PromiseInit == Init => Promise!Init
  BY DEF Init, Promise!Init, Exists

\* A step that leaves stage, home and list alone, or changes one source only.
LEMMA Stutters ==
    ASSUME \A s \in Sources : StageOf(s)' = StageOf(s) /\ HomeOf(s)' = HomeOf(s),
           snapshot' = snapshot
    PROVE  UNCHANGED Promise!vars
<1>1. UNCHANGED <<Stages, Homes, snapshot>>
  BY DEF Stages, Homes
<1>2. Promise!vars = <<Stages, Homes, snapshot>>
  BY DEF Promise!vars, Stages, Homes, StageOf, HomeOf
<1>3. Promise!vars' = <<Stages, Homes, snapshot>>'
  BY DEF Promise!vars, Stages, Homes, StageOf, HomeOf
<1> QED BY <1>1, <1>2, <1>3

\* The abstract step on s, given what the concrete one does to it.
LEMMA AbstractStep ==
    ASSUME NEW s \in Sources,
           \A o \in Sources \ {s} : StageOf(o)' = StageOf(o) /\ HomeOf(o)' = HomeOf(o),
           \/ /\ StageOf(s) = "absent" /\ StageOf(s)' = "hidden" /\ snapshot' = snapshot
              /\ HomeOf(s)' \in Repos /\ \A o \in Sources : HomeOf(o) # HomeOf(s)'
           \/ /\ StageOf(s) = "hidden" /\ StageOf(s)' = "hidden" /\ snapshot' = snapshot
              /\ HomeOf(s)' \in Repos /\ \A o \in Sources : HomeOf(o) # HomeOf(s)'
           \/ /\ StageOf(s) # "absent" /\ StageOf(s)' = StageOf(s) /\ HomeOf(s)' = HomeOf(s)
              /\ \E l \in Snapshot : snapshot' = [snapshot EXCEPT ![s] = l]
           \/ /\ StageOf(s) = "hidden" /\ StageOf(s)' = "shown" /\ HomeOf(s)' = HomeOf(s)
              /\ snapshot[s] # NoSnapshot /\ snapshot' = snapshot
           \/ /\ StageOf(s) = "shown" /\ StageOf(s)' = "hidden" /\ HomeOf(s)' = HomeOf(s)
              /\ snapshot' = snapshot
    PROVE  Promise!Next
<1>1. /\ Stages' = [Stages EXCEPT ![s] = StageOf(s)']
      /\ Homes' = [Homes EXCEPT ![s] = HomeOf(s)']
      /\ Stages[s] = StageOf(s) /\ Homes[s] = HomeOf(s)
      /\ \A o \in Sources : Homes[o] = HomeOf(o)
  BY DEF Stages, Homes
<1>2. /\ StageOf(s)' = StageOf(s) => Stages' = Stages
      /\ HomeOf(s)' = HomeOf(s) => Homes' = Homes
  BY DEF Stages, Homes
<1>3. Promise!Next <=>
          \E o \in Sources :
              \/ \E r \in Repos :
                     \/ /\ Stages[o] = "absent"
                        /\ r \notin {Homes[q] : q \in Sources}
                        /\ Stages' = [Stages EXCEPT ![o] = "hidden"]
                        /\ Homes' = [Homes EXCEPT ![o] = r]
                        /\ snapshot' = snapshot
                     \/ /\ Stages[o] = "hidden"
                        /\ r \notin {Homes[q] : q \in Sources}
                        /\ Homes' = [Homes EXCEPT ![o] = r]
                        /\ Stages' = Stages /\ snapshot' = snapshot
              \/ \E l \in Snapshot :
                     /\ Stages[o] # "absent"
                     /\ snapshot' = [snapshot EXCEPT ![o] = l]
                     /\ Stages' = Stages /\ Homes' = Homes
              \/ /\ Stages[o] = "hidden" /\ snapshot[o] # NoSnapshot
                 /\ Stages' = [Stages EXCEPT ![o] = "shown"]
                 /\ Homes' = Homes /\ snapshot' = snapshot
              \/ /\ Stages[o] = "shown"
                 /\ Stages' = [Stages EXCEPT ![o] = "hidden"]
                 /\ Homes' = Homes /\ snapshot' = snapshot
  BY Zenon DEF Promise!Next, Promise!Register, Promise!Rebind, Promise!Refresh, Promise!Show,
         Promise!Hide, Promise!Taken, Stages, Homes, StageOf, HomeOf
<1>4. CASE /\ StageOf(s) = "absent" /\ StageOf(s)' = "hidden" /\ snapshot' = snapshot
           /\ HomeOf(s)' \in Repos /\ \A o \in Sources : HomeOf(o) # HomeOf(s)'
  <2>1. HomeOf(s)' \notin {Homes[q] : q \in Sources}
    BY <1>1, <1>4
  <2> QED BY <1>1, <1>3, <1>4, <2>1
<1>5. CASE /\ StageOf(s) = "hidden" /\ StageOf(s)' = "hidden" /\ snapshot' = snapshot
           /\ HomeOf(s)' \in Repos /\ \A o \in Sources : HomeOf(o) # HomeOf(s)'
  <2>1. HomeOf(s)' \notin {Homes[q] : q \in Sources}
    BY <1>1, <1>5
  <2> QED BY <1>1, <1>2, <1>3, <1>5, <2>1
<1>6. CASE /\ StageOf(s) # "absent" /\ StageOf(s)' = StageOf(s) /\ HomeOf(s)' = HomeOf(s)
           /\ \E l \in Snapshot : snapshot' = [snapshot EXCEPT ![s] = l]
  BY <1>1, <1>2, <1>3, <1>6
<1>7. CASE /\ StageOf(s) = "hidden" /\ StageOf(s)' = "shown" /\ HomeOf(s)' = HomeOf(s)
           /\ snapshot[s] # NoSnapshot /\ snapshot' = snapshot
  BY <1>1, <1>2, <1>3, <1>7
<1>8. CASE /\ StageOf(s) = "shown" /\ StageOf(s)' = "hidden" /\ HomeOf(s)' = HomeOf(s)
           /\ snapshot' = snapshot
  BY <1>1, <1>2, <1>3, <1>8
<1> QED BY <1>4, <1>5, <1>6, <1>7, <1>8

LEMMA StatusMaps ==
    ASSUME TypeOK, NEW s \in Sources, Exists(s), NEW status \in {"published", "archived"},
           status = "published" => snapshot[s] # NoSnapshot,
           SetAwesomeSourceStatus(s, status), snapshot' = snapshot
    PROVE  Promise!Next \/ UNCHANGED Promise!vars
<1>1. source[s] \in Row /\ source'[s] = [source[s] EXCEPT !.status = status,
                                           !.revision = source[s].revision + 1]
  BY RowFields DEF SetAwesomeSourceStatus, TypeOK
<1>2. source'[s] # NoSource
  <2>1. source[s].revision < MaxRevision /\ status \in Status
    BY DEF SetAwesomeSourceStatus, Status
  <2>2. [source[s] EXCEPT !.status = status, !.revision = @ + 1] \in Row
    BY <1>1, <2>1, RowFields, EditedRow
  <2> QED BY <1>1, <2>2, NoSourceIsNoRow
<1>3. source'[s].status = status /\ source'[s].repo = source[s].repo
  BY <1>1 DEF Row
<1>4. HomeOf(s)' = HomeOf(s)
  BY <1>2, <1>3 DEF HomeOf, Exists
<1>5. /\ StageOf(s) = IF source[s].status = "published" THEN "shown" ELSE "hidden"
      /\ StageOf(s)' = IF status = "published" THEN "shown" ELSE "hidden"
  BY <1>2, <1>3 DEF StageOf, Published, Exists
<1>6. \A o \in Sources \ {s} : source'[o] = source[o]
  BY DEF SetAwesomeSourceStatus, TypeOK
<1>7. \A o \in Sources \ {s} : StageOf(o)' = StageOf(o) /\ HomeOf(o)' = HomeOf(o)
  BY <1>6 DEF StageOf, HomeOf, Published, Exists
<1>8. CASE StageOf(s)' = StageOf(s)
  BY <1>4, <1>7, <1>8, Stutters
<1>9. CASE StageOf(s)' # StageOf(s)
  BY <1>4, <1>5, <1>7, <1>9, AbstractStep
<1> QED BY <1>8, <1>9

LEMMA UpdateMaps ==
    ASSUME TypeOK, CallInv, NEW c \in Calls, CommitUpdate(c)
    PROVE  Promise!Next \/ UNCHANGED Promise!vars
<1>0. PICK s \in Sources, r \in Repos : s = call[c].src /\ r = call[c].repo
  BY DEF CommitUpdate, CallInv, CallOk
<1>1. /\ Exists(s) /\ snapshot' = snapshot
      /\ r # source[s].repo => source[s].status \in {"draft", "ready"}
      /\ source[s] \in Row /\ source[s].revision < MaxRevision
  <2>1. Exists(s)
    BY <1>0 DEF CommitUpdate, CallInv, CallOk
  <2>2. source[s].revision \in Nat /\ source[s] \in Row
    BY <2>1, RowFields, Bounds
  <2> QED BY <1>0, <2>1, <2>2 DEF CommitUpdate, CallInv, CallOk
<1>2. PICK sha \in {NoSha, source[s].sha} :
          source' = [source EXCEPT ![s] =
              [source[s] EXCEPT !.repo = r, !.revision = @ + 1, !.sha = sha]]
  BY <1>0 DEF CommitUpdate
<1>3. source'[s] = [source[s] EXCEPT !.repo = r, !.revision = @ + 1, !.sha = sha]
  BY <1>1, <1>2 DEF TypeOK
<1>4. source'[s].status = source[s].status /\ source'[s].repo = r
  BY <1>1, <1>3 DEF Row
<1>5. source'[s] # NoSource
  <2>1. sha \in Readmes \cup {NoSha} /\ source[s].status \in Status
    BY <1>1, <1>2, RowFields
  <2>2. [source[s] EXCEPT !.repo = r, !.revision = @ + 1, !.sha = sha] \in Row
    BY <1>1, <2>1, EditedRow
  <2> QED BY <1>3, <2>2, NoSourceIsNoRow
<1>6. \A o \in Sources \ {s} : source'[o] = source[o]
  BY <1>2 DEF TypeOK
<1>7. \A o \in Sources \ {s} : StageOf(o)' = StageOf(o) /\ HomeOf(o)' = HomeOf(o)
  BY <1>6 DEF StageOf, HomeOf, Published, Exists
<1>8. StageOf(s)' = StageOf(s) /\ HomeOf(s)' = r /\ HomeOf(s) = source[s].repo
  BY <1>1, <1>4, <1>5 DEF StageOf, HomeOf, Published, Exists
<1>9. CASE r = source[s].repo
  <2>1. \A o \in Sources : StageOf(o)' = StageOf(o) /\ HomeOf(o)' = HomeOf(o)
    BY <1>7, <1>8, <1>9
  <2> QED BY <1>1, <2>1, Stutters
<1>10. CASE r # source[s].repo
  <2>1. StageOf(s) = "hidden"
    BY <1>1, <1>10 DEF StageOf, Published
  <2>2. \A o \in Sources : HomeOf(o) # r
    BY <1>0, <1>1, <1>8, <1>10, Bounds DEF CommitUpdate, Taken, HomeOf
  <2> QED BY <1>1, <1>7, <1>8, <2>1, <2>2, AbstractStep
<1> QED BY <1>9, <1>10

LEMMA ReplaceMaps ==
    ASSUME TypeOK, CallInv, NEW c \in Calls, ReplaceSnapshot(c)
    PROVE  Promise!Next
<1>0. PICK s \in Sources : s = call[c].src
  BY DEF ReplaceSnapshot, CallInv, CallOk, Syncing
<1>1. Exists(s) /\ source[s] \in Row /\ call[c].got \in Readmes
      /\ call[c].repo \in Repos
  BY <1>0, RowFields DEF ReplaceSnapshot, CallInv, CallOk, Syncing
<1>2. source'[s] = [source[s] EXCEPT !.status = IF @ = "draft" THEN "ready" ELSE @,
                                     !.sha = call[c].got]
  BY <1>0, <1>1 DEF ReplaceSnapshot, TypeOK
<1>3. /\ source'[s].status = IF source[s].status = "draft" THEN "ready" ELSE source[s].status
      /\ source'[s].repo = source[s].repo
  BY <1>1, <1>2 DEF Row
<1>4. source'[s] # NoSource
  <2>1. source'[s] \in Row
    BY <1>1, <1>2, RowFields DEF Row, Status
  <2> QED BY <2>1, NoSourceIsNoRow
<1>5. \A o \in Sources \ {s} : source'[o] = source[o]
  BY <1>0 DEF ReplaceSnapshot, TypeOK
<1>6. \A o \in Sources \ {s} : StageOf(o)' = StageOf(o) /\ HomeOf(o)' = HomeOf(o)
  BY <1>5 DEF StageOf, HomeOf, Published, Exists
<1>7. StageOf(s)' = StageOf(s) /\ HomeOf(s)' = HomeOf(s) /\ StageOf(s) # "absent"
  BY <1>1, <1>3, <1>4 DEF StageOf, HomeOf, Published, Exists
<1>8. \E l \in Snapshot : snapshot' = [snapshot EXCEPT ![s] = l]
  BY <1>0, <1>1, ReplacedList
<1> QED BY <1>1, <1>6, <1>7, <1>8, AbstractStep

LEMMA CreateMaps ==
    ASSUME TypeOK, NEW c \in Calls, NEW s \in Sources, NEW r \in Repos, CreateSource(c, s, r)
    PROVE  Promise!Next
<1>1. source'[s] = [status |-> "draft", repo |-> r, revision |-> 1, sha |-> NoSha]
  BY DEF CreateSource, TypeOK
<1>2. source'[s] # NoSource
  <2>1. source'[s] \in Row
    BY <1>1, Bounds DEF Row, Status
  <2> QED BY <2>1, NoSourceIsNoRow
<1>3. \A o \in Sources \ {s} : source'[o] = source[o]
  BY DEF CreateSource, TypeOK
<1>4. \A o \in Sources \ {s} : StageOf(o)' = StageOf(o) /\ HomeOf(o)' = HomeOf(o)
  BY <1>3 DEF StageOf, HomeOf, Published, Exists
<1>5. StageOf(s) = "absent" /\ HomeOf(s) = NoRepo
  BY DEF CreateSource, StageOf, HomeOf
<1>6. StageOf(s)' = "hidden" /\ HomeOf(s)' = r
  BY <1>1, <1>2 DEF StageOf, HomeOf, Published, Exists
<1>7. \A o \in Sources : HomeOf(o) # r
  BY <1>5, Bounds DEF CreateSource, Taken, HomeOf
<1> QED BY <1>4, <1>5, <1>6, <1>7, AbstractStep DEF CreateSource

LEMMA PromiseStep == IInv /\ [Next]_vars => Promise!Next \/ UNCHANGED Promise!vars
<1> SUFFICES ASSUME IInv, [Next]_vars
             PROVE  Promise!Next \/ UNCHANGED Promise!vars
  OBVIOUS
<1> USE DEF IInv
<1>1. CASE UNCHANGED <<source, snapshot>>
  BY <1>1, Stutters DEF StageOf, HomeOf, Published, Exists
<1>2. ASSUME NEW c \in Calls, NEW s \in Sources, ArchiveSource(c, s)
      PROVE  Promise!Next \/ UNCHANGED Promise!vars
  BY <1>2, StatusMaps DEF ArchiveSource
<1>3. ASSUME NEW c \in Calls, CommitPublish(c)
      PROVE  Promise!Next \/ UNCHANGED Promise!vars
  <2>1. call[c].src \in Sources /\ Exists(call[c].src) /\ snapshot[call[c].src] # NoSnapshot
    BY <1>3 DEF CommitPublish, CallInv, CallOk
  <2> QED BY <1>3, <2>1, StatusMaps DEF CommitPublish
<1> QED BY <1>1, <1>2, <1>3, UpdateMaps, ReplaceMaps, CreateMaps, ZenonT(40)
        DEF Next, Request, CallStep, vars, database, readers, BeginUpdate, BeginPublish, BeginSync,
            EditRejected, ReadBackFails, Invalidate, StartRun, RunInProgress, StoreFacts,
            FetchReadme, FastPath, SyncFails, FinishLost, Crash

\* Every behaviour of the service is one of PublicSource: no interleaving of
\* edits, publications and synchronisations rebinds a source readers can see,
\* shows one without a list or mixes two lists.
THEOREM ServiceImplementsPromise == Spec => ImplementsPublicSource
<1>1. Init => Promise!Init
  BY PromiseInit
<1>2. IInv /\ [Next]_vars => [Promise!Next]_Promise!vars
  BY PromiseStep
<1> QED BY <1>1, <1>2, InvAlways, PTL DEF Spec, ImplementsPublicSource, Promise!Spec

=============================================================================
