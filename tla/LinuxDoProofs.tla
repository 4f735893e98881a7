--------------------------- MODULE LinuxDoProofs ---------------------------
(***************************************************************************)
(* LinuxDo for any number of topics, names, repositories, posts, rules and *)
(* readers. The queue of a round is read once and worked off over many     *)
(* transactions: QueueOk ties each of its items to the row it will decide, *)
(* and StageOk says what is still to be decided at each stage.             *)
(***************************************************************************)
EXTENDS LinuxDo, TLAPS

SyncState == [pc : {"idle", "finish"} \cup Working, todo : SUBSET Topics,
              queue : SUBSET Item, ok : BOOLEAN, cut : BOOLEAN]

Types == TypeOK /\ sync \in SyncState

\* A row was judged by a rule known by now, and is published only if that rule
\* accepted it.
RowOk(c, n, r) ==
    c # NoCandidate =>
        /\ c.rule <= r
        /\ c.promoted = (n \in Promoted[c.rule, c.hash])
        /\ c.state = "published" => c.promoted

CandOk == \A k \in Slots : RowOk(CandAt(k), k[2], rule)

\* An item is the only one for its row, and what the round read of the row is
\* still true as far as a decision relies on it without asking again.
ItemOk(i) ==
    /\ CandAt(i.at) # NoCandidate
    /\ CandAt(i.at).repo = i.row.repo
    /\ i.row.promoted = (i.at[2] \in Promoted[i.row.rule, i.row.hash])

QueueOk ==
    /\ sync.queue # {} => sync.pc \in {"decide", "skip"}
    /\ \A i \in sync.queue : ItemOk(i)
    /\ \A i, j \in sync.queue : i.at = j.at => i = j

\* What a round that has cut nothing has still to do.
StageOk ==
    /\ sync.pc = "reclassify" /\ ~sync.cut =>
           \A k \in Current : CandAt(k).rule = rule \/ k[1] \in sync.todo
    /\ sync.pc \in {"decide", "skip"} /\ sync.ok /\ ~sync.cut =>
           \A k \in Current :
               /\ CandAt(k).rule = rule
               /\ CandAt(k).state = "pending" => \E i \in sync.queue : i.at = k
    /\ sync.pc = "finish" /\ sync.ok /\ ~sync.cut =>
           \A k \in Current : CandAt(k).rule = rule /\ CandAt(k).state # "pending"

Titles == {Title[c] : c \in Contents \cup {NoContent}}
Responses == [link : SUBSET (Repos \X Topics),
              title : UNION {[set -> Titles] : set \in SUBSET Topics}] \cup {NoSnapshot}

\* Between two rounds no reader of the current cache object has read anything
\* but the tables.
ReadersOk ==
    /\ reader \in [Readers -> [pc : {"idle", "build"}, current : BOOLEAN, got : Responses]]
    /\ sync.pc = "idle" => \A r \in Readers : reader[r].current => reader[r].got = Public
    /\ QuietCacheIsCurrent

Invariant ==
    /\ Types
    /\ CandOk
    /\ QueueOk
    /\ StageOk

LEMMA Bounds ==
    /\ NoContent \notin Contents
    /\ NoRepo \notin Repos
    /\ NoCandidate \notin Candidate
    /\ \A c \in Contents : Mentioned[c] \in SUBSET Names
    /\ \A r \in Rules, c \in Contents : Promoted[r, c] \in SUBSET Names
  BY LinuxDoAssumption

LEMMA Limits == MaxRule \in Nat /\ MaxRule >= 1 /\ MaxRevision \in Nat
  BY LinuxDoAssumption

LEMMA SlotParts ==
    \A k \in Slots : k[1] \in Topics /\ k[2] \in Names /\ k = <<k[1], k[2]>>
  BY DEF Slots

LEMMA SlotOf == \A t \in Topics, n \in Names : <<t, n>> \in Slots
  BY DEF Slots

LEMMA CandidateFields ==
    ASSUME NEW c \in Candidate
    PROVE  /\ c.hash \in Contents /\ c.promoted \in BOOLEAN /\ c.rule \in Rules
           /\ c.state \in {"pending", "published", "skipped"}
           /\ c.repo \in Repos \cup {NoRepo}
           /\ c # NoCandidate
  BY Bounds DEF Candidate

LEMMA CandAtType ==
    ASSUME TypeOK, NEW k \in Slots
    PROVE  CandAt(k) \in Candidate \cup {NoCandidate}
  BY SlotParts DEF TypeOK, CandAt

\* A table of candidates that differs from cand in one slot.
LEMMA OneSlot ==
    ASSUME TypeOK, NEW k \in Slots, NEW c \in Candidate
    PROVE  LET new == [cand EXCEPT ![k[1]] = [cand[k[1]] EXCEPT ![k[2]] = c]]
           IN  /\ new \in [Topics -> [Names -> Candidate \cup {NoCandidate}]]
               /\ \A j \in Slots : new[j[1]][j[2]] = IF j = k THEN c ELSE CandAt(j)
<1> DEFINE new == [cand EXCEPT ![k[1]] = [cand[k[1]] EXCEPT ![k[2]] = c]]
<1>1. k[1] \in Topics /\ k[2] \in Names
  BY SlotParts
<1>2. cand \in [Topics -> [Names -> Candidate \cup {NoCandidate}]]
  BY DEF TypeOK
<1>3. [cand[k[1]] EXCEPT ![k[2]] = c] \in [Names -> Candidate \cup {NoCandidate}]
  BY <1>1, <1>2
<1>4. new \in [Topics -> [Names -> Candidate \cup {NoCandidate}]]
  BY <1>1, <1>2, <1>3
<1>5. ASSUME NEW j \in Slots
      PROVE  new[j[1]][j[2]] = IF j = k THEN c ELSE CandAt(j)
  <2>1. j[1] \in Topics /\ j[2] \in Names /\ j = <<j[1], j[2]>> /\ k = <<k[1], k[2]>>
    BY SlotParts
  <2>2. CASE j[1] # k[1]
    BY <1>1, <1>2, <2>1, <2>2 DEF CandAt
  <2>3. CASE j[1] = k[1]
    <3>1. new[j[1]] = [cand[k[1]] EXCEPT ![k[2]] = c]
      BY <1>1, <1>2, <2>3
    <3>2. cand[k[1]] \in [Names -> Candidate \cup {NoCandidate}]
      BY <1>1, <1>2
    <3>3. j = k <=> j[2] = k[2]
      BY <2>1, <2>3
    <3> QED BY <1>1, <2>1, <2>3, <3>1, <3>2, <3>3 DEF CandAt
  <2> QED BY <2>2, <2>3
<1> QED BY <1>4, <1>5

-----------------------------------------------------------------------------
(* What the transactions do to a slot.                                       *)

\* An observation keeps the repository a name stood for, and a verdict only
\* if post, rule and classification are the stored ones.
LEMMA ObservedRow ==
    ASSUME TypeOK, NEW content \in Contents, NEW n \in Names,
           NEW c \in Candidate \cup {NoCandidate}
    PROVE  LET o == Observed(c, content, n)
           IN  /\ o \in Candidate
               /\ o.hash = content /\ o.rule = rule
               /\ o.promoted = (n \in Promoted[rule, content])
               /\ o = c \/ o.state = "pending"
               /\ c # NoCandidate => o.repo = c.repo
               /\ c = NoCandidate => o.repo = NoRepo
<1> DEFINE promoted == n \in Promoted[rule, content]
           fresh == [hash |-> content, promoted |-> promoted, rule |-> rule,
                     state |-> "pending", repo |-> NoRepo]
           o == Observed(c, content, n)
<1>1. rule \in Rules /\ promoted \in BOOLEAN
  BY DEF TypeOK
<1>2. o = IF c = NoCandidate THEN fresh
          ELSE IF c.hash # content \/ c.rule # rule \/ c.promoted # promoted
               THEN [fresh EXCEPT !.repo = c.repo] ELSE c
  BY DEF Observed
<1> SUFFICES /\ o \in Candidate
             /\ o.hash = content /\ o.rule = rule
             /\ o.promoted = promoted
             /\ o = c \/ o.state = "pending"
             /\ c # NoCandidate => o.repo = c.repo
             /\ c = NoCandidate => o.repo = NoRepo
  OBVIOUS
<1> HIDE DEF promoted, o
<1>3. ASSUME NEW r \in Repos \cup {NoRepo}
      PROVE  /\ [fresh EXCEPT !.repo = r] \in Candidate
             /\ fresh \in Candidate
  BY <1>1, <1>3 DEF Candidate
<1>4. CASE c = NoCandidate
  BY <1>2, <1>3, <1>4
<1>5. CASE c # NoCandidate /\ (c.hash # content \/ c.rule # rule \/ c.promoted # promoted)
  <2>1. o = [fresh EXCEPT !.repo = c.repo]
    BY <1>2, <1>5
  <2>2. c.repo \in Repos \cup {NoRepo}
    BY <1>5, CandidateFields
  <2> QED BY <1>3, <1>5, <2>1, <2>2
<1>6. CASE c # NoCandidate /\ c.hash = content /\ c.rule = rule /\ c.promoted = promoted
  BY <1>2, <1>6
<1> QED BY <1>4, <1>5, <1>6

LEMMA ObserveRows ==
    ASSUME TypeOK, NEW seen \in SUBSET Topics, NEW post \in [seen -> Contents],
           ObserveLinuxDo(seen, post)
    PROVE  /\ topic' \in [Topics -> Contents \cup {NoContent}]
           /\ cand' \in [Topics -> [Names -> Candidate \cup {NoCandidate}]]
           /\ \A k \in Slots :
                  CandAt(k)' = IF k[1] \in seen /\ k[2] \in Mentioned[post[k[1]]]
                               THEN Observed(CandAt(k), post[k[1]], k[2])
                               ELSE CandAt(k)
<1>1. topic' \in [Topics -> Contents \cup {NoContent}]
  BY DEF ObserveLinuxDo, TypeOK
<1>2. cand' = [t \in Topics |-> [n \in Names |->
           IF t \in seen /\ n \in Mentioned[post[t]]
           THEN Observed(cand[t][n], post[t], n) ELSE cand[t][n]]]
  BY DEF ObserveLinuxDo
<1>3. \A t \in Topics, n \in Names :
          (IF t \in seen /\ n \in Mentioned[post[t]]
           THEN Observed(cand[t][n], post[t], n) ELSE cand[t][n])
              \in Candidate \cup {NoCandidate}
  <2> SUFFICES ASSUME NEW t \in Topics, NEW n \in Names
               PROVE  /\ cand[t][n] \in Candidate \cup {NoCandidate}
                      /\ t \in seen => Observed(cand[t][n], post[t], n) \in Candidate
    OBVIOUS
  <2>1. cand[t][n] \in Candidate \cup {NoCandidate}
    BY DEF TypeOK
  <2>2. ASSUME t \in seen
        PROVE  Observed(cand[t][n], post[t], n) \in Candidate
    <3>1. post[t] \in Contents
      BY <2>2
    <3> QED BY <2>1, <3>1, ObservedRow
  <2> QED BY <2>1, <2>2
<1>4. cand' \in [Topics -> [Names -> Candidate \cup {NoCandidate}]]
  BY <1>2, <1>3
<1> QED BY <1>1, <1>2, <1>4, SlotParts DEF CandAt

LEMMA ReclassifyRows ==
    ASSUME TypeOK, NEW t \in Topics, Reclassify(t)
    PROVE  /\ cand' \in [Topics -> [Names -> Candidate \cup {NoCandidate}]]
           /\ \A k \in Slots :
                  CandAt(k)' = IF k[1] = t /\ k \in Current /\ CandAt(k).rule < rule
                               THEN [CandAt(k) EXCEPT
                                       !.promoted = k[2] \in Promoted[rule, topic[t]],
                                       !.rule = rule, !.state = "pending"]
                               ELSE CandAt(k)
<1> DEFINE Judged(n) ==
             IF <<t, n>> \in Current /\ cand[t][n].rule < rule
             THEN [cand[t][n] EXCEPT !.promoted = n \in Promoted[rule, topic[t]],
                                     !.rule = rule, !.state = "pending"]
             ELSE cand[t][n]
<1>1. cand' = [cand EXCEPT ![t] = [n \in Names |-> Judged(n)]]
  BY DEF Reclassify
<1>2. ASSUME NEW n \in Names
      PROVE  Judged(n) \in Candidate \cup {NoCandidate}
  <2>1. cand[t][n] \in Candidate \cup {NoCandidate} /\ rule \in Rules
    BY DEF TypeOK
  <2>2. CASE <<t, n>> \in Current /\ cand[t][n].rule < rule
    <3>1. cand[t][n] \in Candidate
      BY <2>1, <2>2 DEF Current, CandAt
    <3>2. (n \in Promoted[rule, topic[t]]) \in BOOLEAN
      OBVIOUS
    <3> QED BY <2>1, <2>2, <3>1, <3>2 DEF Candidate
  <2> QED BY <2>1, <2>2
<1>3. cand \in [Topics -> [Names -> Candidate \cup {NoCandidate}]]
  BY DEF TypeOK
<1> HIDE DEF Judged
<1>4. cand' \in [Topics -> [Names -> Candidate \cup {NoCandidate}]]
  BY <1>1, <1>2, <1>3
<1>5. \A j \in Topics, n \in Names : cand'[j][n] = IF j = t THEN Judged(n) ELSE cand[j][n]
  BY <1>1, <1>3
<1>6. ASSUME NEW k \in Slots
      PROVE  CandAt(k)' = IF k[1] = t /\ k \in Current /\ CandAt(k).rule < rule
                          THEN [CandAt(k) EXCEPT
                                  !.promoted = k[2] \in Promoted[rule, topic[t]],
                                  !.rule = rule, !.state = "pending"]
                          ELSE CandAt(k)
  <2>1. k[1] \in Topics /\ k[2] \in Names /\ k = <<k[1], k[2]>>
    BY SlotParts
  <2>2. CandAt(k)' = IF k[1] = t THEN Judged(k[2]) ELSE CandAt(k)
    BY <1>5, <2>1 DEF CandAt
  <2>3. k[1] = t => Judged(k[2]) =
            IF k \in Current /\ CandAt(k).rule < rule
            THEN [CandAt(k) EXCEPT !.promoted = k[2] \in Promoted[rule, topic[t]],
                                   !.rule = rule, !.state = "pending"]
            ELSE CandAt(k)
    <3> SUFFICES ASSUME k[1] = t
                 PROVE  Judged(k[2]) =
                            IF k \in Current /\ CandAt(k).rule < rule
                            THEN [CandAt(k) EXCEPT
                                    !.promoted = k[2] \in Promoted[rule, topic[t]],
                                    !.rule = rule, !.state = "pending"]
                            ELSE CandAt(k)
      OBVIOUS
    <3>1. k = <<t, k[2]>> /\ CandAt(k) = cand[t][k[2]]
      BY <2>1 DEF CandAt
    <3> QED BY <3>1, Zenon DEF Judged
  <2> QED BY <2>2, <2>3
<1> QED BY <1>4, <1>6

LEMMA ItemFields ==
    ASSUME Types, QueueOk, NEW item \in sync.queue
    PROVE  /\ item \in Item /\ item.at \in Slots /\ item.row \in Candidate
           /\ item.now \in BOOLEAN
           /\ item.at[1] \in Topics /\ item.at[2] \in Names
           /\ CandAt(item.at) \in Candidate
           /\ CandAt(item.at).repo = item.row.repo
<1>1. item \in Item
  BY DEF Types, TypeOK
<1>2. item.at \in Slots /\ item.row \in Candidate /\ item.now \in BOOLEAN
  BY <1>1 DEF Item
<1>3. CandAt(item.at) \in Candidate \cup {NoCandidate} /\ CandAt(item.at) # NoCandidate
  BY <1>2, CandAtType DEF Types, QueueOk, ItemOk
<1> QED BY <1>1, <1>2, <1>3, SlotParts DEF QueueOk, ItemOk

LEMMA SkippedRows ==
    ASSUME Types, QueueOk, NEW item \in sync.queue, ApplySkipped(item)
    PROVE  /\ cand' \in [Topics -> [Names -> Candidate \cup {NoCandidate}]]
           /\ \A k \in Slots :
                  CandAt(k)' = IF k = item.at
                               THEN [CandAt(k) EXCEPT !.state = "skipped"]
                               ELSE CandAt(k)
<1> DEFINE at == item.at
           c == [CandAt(at) EXCEPT !.state = "skipped"]
<1>1. at \in Slots /\ CandAt(at) \in Candidate
  BY ItemFields
<1>2. c \in Candidate
  BY <1>1 DEF Candidate
<1> DEFINE new == [cand EXCEPT ![at[1]] = [cand[at[1]] EXCEPT ![at[2]] = c]]
<1>3. cand' = new
  BY DEF ApplySkipped, CandAt
<1> HIDE DEF c, at
<1>4. /\ new \in [Topics -> [Names -> Candidate \cup {NoCandidate}]]
      /\ \A j \in Slots : new[j[1]][j[2]] = IF j = at THEN c ELSE CandAt(j)
  BY <1>1, <1>2, OneSlot DEF Types
<1> HIDE DEF new
<1> QED BY <1>3, <1>4 DEF c, at, CandAt

LEMMA PublishedRows ==
    ASSUME Types, QueueOk, NEW item \in sync.queue, NEW x \in Repos,
           NEW f \in Facts, Publish(item, x, f)
    PROVE  /\ cand' \in [Topics -> [Names -> Candidate \cup {NoCandidate}]]
           /\ \A k \in Slots :
                  CandAt(k)' = IF k = item.at
                               THEN [CandAt(k) EXCEPT !.state = "published", !.repo = x]
                               ELSE CandAt(k)
<1> DEFINE at == item.at
           c == [CandAt(at) EXCEPT !.state = "published", !.repo = x]
<1>1. at \in Slots /\ CandAt(at) \in Candidate
  BY ItemFields
<1>2. c \in Candidate
  BY <1>1 DEF Candidate
<1> DEFINE new == [cand EXCEPT ![at[1]] = [cand[at[1]] EXCEPT ![at[2]] = c]]
<1>3. cand' = new
  BY DEF Publish, CandAt
<1> HIDE DEF c, at
<1>4. /\ new \in [Topics -> [Names -> Candidate \cup {NoCandidate}]]
      /\ \A j \in Slots : new[j[1]][j[2]] = IF j = at THEN c ELSE CandAt(j)
  BY <1>1, <1>2, OneSlot DEF Types
<1> HIDE DEF new
<1> QED BY <1>3, <1>4 DEF c, at, CandAt

LEMMA WithdrawnRows ==
    ASSUME Types, NEW item, NEW x \in Repos,
           RevokePrivateLinuxDoRepository(item, x)
    PROVE  /\ cand' \in [Topics -> [Names -> Candidate \cup {NoCandidate}]]
           /\ \A k \in Slots :
                  CandAt(k)' = IF CandAt(k) # NoCandidate /\ CandAt(k).repo = x
                               THEN [CandAt(k) EXCEPT !.state = "skipped"]
                               ELSE CandAt(k)
<1>1. cand' = [t \in Topics |-> [n \in Names |->
               IF cand[t][n] # NoCandidate /\ cand[t][n].repo = x
               THEN [cand[t][n] EXCEPT !.state = "skipped"] ELSE cand[t][n]]]
  BY DEF RevokePrivateLinuxDoRepository
<1>2. ASSUME NEW t \in Topics, NEW n \in Names
      PROVE  (IF cand[t][n] # NoCandidate /\ cand[t][n].repo = x
              THEN [cand[t][n] EXCEPT !.state = "skipped"] ELSE cand[t][n])
                 \in Candidate \cup {NoCandidate}
  BY DEF Types, TypeOK, Candidate
<1>3. cand' \in [Topics -> [Names -> Candidate \cup {NoCandidate}]]
  BY <1>1, <1>2
<1> QED BY <1>1, <1>3, SlotParts DEF CandAt

-----------------------------------------------------------------------------
(* Types.                                                                    *)

LEMMA SyncFields ==
    ASSUME Types
    PROVE  /\ sync.pc \in {"idle", "finish"} \cup Working
           /\ sync.todo \in SUBSET Topics /\ sync.queue \in SUBSET Item
           /\ sync.ok \in BOOLEAN /\ sync.cut \in BOOLEAN
           /\ Idle \in SyncState /\ [Idle EXCEPT !.pc = "fetch"] \in SyncState
           /\ [Idle EXCEPT !.pc = "finish"] \in SyncState
  BY DEF Types, SyncState, Idle, Working

LEMMA StateHasTypes ==
    ASSUME sync \in SyncState,
           topic \in [Topics -> Contents \cup {NoContent}],
           cand \in [Topics -> [Names -> Candidate \cup {NoCandidate}]],
           link \subseteq Repos \X Topics, revision \in 0..MaxRevision,
           facts \in [Repos -> Facts], feedRule \in 0..MaxRule, rule \in Rules, private \subseteq Repos
    PROVE  Types
  BY DEF Types, TypeOK, SyncState

LEMMA BumpType ==
    ASSUME Types, Bump \/ UNCHANGED revision
    PROVE  revision' \in 0..MaxRevision
<1>1. revision \in 0..MaxRevision
  BY DEF Types, TypeOK
<1> QED BY <1>1, Limits DEF Bump

LEMMA TypesInit == Init => Types
<1> SUFFICES ASSUME Init PROVE Types
  OBVIOUS
<1>1. 0 \in 0..MaxRevision /\ 0 \in 0..MaxRule /\ 1 \in Rules
  BY Limits DEF Rules
<1> QED BY <1>1, StateHasTypes DEF Init, Idle, SyncState, Working

LEMMA TypesRound ==
    ASSUME Types,
           \/ BeginSync \/ FetchUnchanged
           \/ \E seen \in SUBSET Topics : \E post \in [seen -> Contents] :
                  ObserveLinuxDo(seen, post)
           \/ ReadStale \/ (\E t \in Topics : Reclassify(t)) \/ Select
           \/ SyncFails \/ QueueDone \/ Finish
    PROVE  Types'
<1> USE SyncFields
<1>1. CASE BeginSync
  BY <1>1 DEF BeginSync, Types, TypeOK, SyncState, Working, tables
<1>2. CASE FetchUnchanged
  <2>1. sync' \in SyncState
    BY <1>2 DEF FetchUnchanged, Types, SyncState, Working
  <2> QED BY <1>2, <2>1 DEF FetchUnchanged, Types, TypeOK, SyncState, tables
<1>3. ASSUME NEW seen \in SUBSET Topics, NEW post \in [seen -> Contents],
             ObserveLinuxDo(seen, post)
      PROVE  Types'
  <2>1. sync' \in SyncState
    BY <1>3 DEF ObserveLinuxDo, Types, SyncState, Working
  <2>2. /\ topic' \in [Topics -> Contents \cup {NoContent}]
        /\ cand' \in [Topics -> [Names -> Candidate \cup {NoCandidate}]]
    BY <1>3, ObserveRows DEF Types
  <2>3. Bump \/ UNCHANGED revision
    BY <1>3 DEF ObserveLinuxDo
  <2>4. revision' \in 0..MaxRevision
    BY <2>3, BumpType
  <2>5. feedRule' \in 0..MaxRule
    BY <1>3, Limits DEF ObserveLinuxDo, Types, TypeOK, Rules
  <2> QED BY <1>3, <2>1, <2>2, <2>4, <2>5 DEF ObserveLinuxDo, Types, TypeOK, SyncState
<1>4. CASE ReadStale
  <2>1. PICK chosen \in SUBSET StaleTopics :
            sync' = [sync EXCEPT !.pc = "reclassify", !.todo = chosen,
                                 !.cut = chosen # StaleTopics]
    BY <1>4 DEF ReadStale
  <2>2. chosen \in SUBSET Topics
    BY SlotParts DEF StaleTopics, Current
  <2>3. (chosen # StaleTopics) \in BOOLEAN
    OBVIOUS
  <2>4. sync' \in SyncState
    BY <2>1, <2>2, <2>3 DEF Types, SyncState, Working
  <2> QED BY <1>4, <2>4 DEF ReadStale, Types, TypeOK, SyncState, tables
<1>5. ASSUME NEW t \in Topics, Reclassify(t)
      PROVE  Types'
  <2>1. sync' \in SyncState
    BY <1>5 DEF Reclassify, Types, SyncState
  <2>2. cand' \in [Topics -> [Names -> Candidate \cup {NoCandidate}]]
    BY <1>5, ReclassifyRows DEF Types
  <2> QED BY <1>5, <2>1, <2>2 DEF Reclassify, Types, TypeOK, SyncState
<1>6. CASE Select
  <2>0. PICK due \in SUBSET Recheckable :
            \E chosen \in SUBSET (Pending \cup due) :
                sync' = [sync EXCEPT !.pc = "decide", !.ok = TRUE,
                  !.queue = {[at |-> k, row |-> CandAt(k), now |-> FALSE] : k \in chosen},
                  !.cut = @ \/ chosen # Pending \cup due]
    BY <1>6 DEF Select
  <2>1. PICK chosen \in SUBSET (Pending \cup due) :
            sync' = [sync EXCEPT !.pc = "decide", !.ok = TRUE,
                  !.queue = {[at |-> k, row |-> CandAt(k), now |-> FALSE] : k \in chosen},
                  !.cut = @ \/ chosen # Pending \cup due]
    BY <2>0
  <2> DEFINE queue == {[at |-> k, row |-> CandAt(k), now |-> FALSE] : k \in chosen}
  <2>2. queue \in SUBSET Item
    <3>1. \A k \in chosen : k \in Slots /\ CandAt(k) # NoCandidate
      BY DEF Pending, Recheckable, Current
    <3>2. \A k \in chosen : CandAt(k) \in Candidate
      BY <3>1, CandAtType DEF Types
    <3>3. ASSUME NEW k \in chosen
          PROVE  [at |-> k, row |-> CandAt(k), now |-> FALSE] \in Item
      BY <3>1, <3>2 DEF Item
    <3> QED BY <3>3
  <2>3. (sync.cut \/ chosen # Pending \cup due) \in BOOLEAN
    OBVIOUS
  <2>4. sync' = [sync EXCEPT !.pc = "decide", !.ok = TRUE, !.queue = queue,
                             !.cut = sync.cut \/ chosen # Pending \cup due]
    BY <2>1
  <2> HIDE DEF queue
  <2>5. sync' \in SyncState
    BY <2>2, <2>3, <2>4 DEF Types, SyncState, Working
  <2> QED BY <1>6, <2>5 DEF Select, Types, TypeOK, SyncState, tables
<1>7. CASE SyncFails
  BY <1>7 DEF SyncFails, Types, TypeOK, SyncState, tables
<1>8. CASE QueueDone
  <2>1. sync' \in SyncState
    BY <1>8 DEF QueueDone, Types, SyncState
  <2> QED BY <1>8, <2>1 DEF QueueDone, Types, TypeOK, SyncState, tables
<1>9. CASE Finish
  BY <1>9 DEF Finish, Types, TypeOK, SyncState, tables
<1> QED BY <1>1, <1>2, <1>3, <1>4, <1>5, <1>6, <1>7, <1>8, <1>9

LEMMA TypesSkipped ==
    ASSUME Types, QueueOk, NEW item \in sync.queue, ApplySkipped(item)
    PROVE  Types'
<1>1. sync' \in SyncState
  BY SyncFields DEF ApplySkipped, Done, Types, SyncState, Working
<1>2. cand' \in [Topics -> [Names -> Candidate \cup {NoCandidate}]]
  BY SkippedRows
<1>3. Bump \/ UNCHANGED revision
  BY DEF ApplySkipped
<1>4. revision' \in 0..MaxRevision
  BY <1>3, BumpType
<1>5. link' \subseteq Repos \X Topics
  BY DEF ApplySkipped, Types, TypeOK
<1> QED BY <1>1, <1>2, <1>4, <1>5 DEF ApplySkipped, Types, TypeOK, SyncState

\* The item stays in the queue until its second transaction.
Marked(item) == {IF i = item THEN [i EXCEPT !.now = TRUE] ELSE i : i \in sync.queue}

LEMMA MarkedItems ==
    ASSUME Types, NEW item \in sync.queue
    PROVE  /\ Marked(item) \in SUBSET Item
           /\ \A j \in Marked(item) : \E i \in sync.queue :
                  /\ j.at = i.at /\ j.row = i.row
                  /\ j = IF i = item THEN [i EXCEPT !.now = TRUE] ELSE i
           /\ \A i \in sync.queue : \E j \in Marked(item) : j.at = i.at
<1>1. \A i \in sync.queue : i \in Item
  BY DEF Types, TypeOK
<1>2. \A i \in Item : /\ [i EXCEPT !.now = TRUE] \in Item
                      /\ [i EXCEPT !.now = TRUE].at = i.at
                      /\ [i EXCEPT !.now = TRUE].row = i.row
  BY DEF Item
<1> QED BY <1>1, <1>2 DEF Marked

LEMMA TypesVerdict ==
    ASSUME Types, QueueOk, NEW item \in sync.queue,
           \/ SkipUnpromoted(item) \/ SkipPrivate(item) \/ Unavailable(item)
           \/ \E x \in Repos, f \in Facts : Publish(item, x, f)
           \/ \E x \in Repos : RevokePrivateLinuxDoRepository(item, x)
    PROVE  Types'
<1>1. CASE SkipUnpromoted(item) \/ SkipPrivate(item)
  BY <1>1, TypesSkipped DEF SkipUnpromoted, SkipPrivate
<1>2. CASE Unavailable(item)
  <2>1. sync' \in SyncState
    BY <1>2, SyncFields DEF Unavailable, Types, SyncState
  <2> QED BY <1>2, <2>1 DEF Unavailable, Types, TypeOK, SyncState, tables
<1>3. ASSUME NEW x \in Repos, NEW f \in Facts, Publish(item, x, f)
      PROVE  Types'
  <2>1. sync' \in SyncState
    BY <1>3, SyncFields DEF Publish, Done, Types, SyncState, Working
  <2>2. cand' \in [Topics -> [Names -> Candidate \cup {NoCandidate}]]
    BY <1>3, PublishedRows
  <2>3. revision' \in 0..MaxRevision
    BY <1>3, BumpType DEF Publish
  <2>4. item.at[1] \in Topics
    BY ItemFields
  <2>5. link' \subseteq Repos \X Topics
    <3>1. link \subseteq Repos \X Topics /\ <<x, item.at[1]>> \in Repos \X Topics
      BY <2>4 DEF Types, TypeOK
    <3>2. \A l \in link' : l \in link \/ l = <<x, item.at[1]>>
      BY <1>3 DEF Publish
    <3> QED BY <3>1, <3>2
  <2> QED BY <1>3, <2>1, <2>2, <2>3, <2>5 DEF Publish, Types, TypeOK, SyncState
<1>4. ASSUME NEW x \in Repos, RevokePrivateLinuxDoRepository(item, x)
      PROVE  Types'
  <2>1. sync' \in SyncState
    <3>1. CASE item.row.repo = x
      <4>1. sync' = [sync EXCEPT !.pc = "decide", !.queue = sync.queue \ {item}]
        BY <1>4, <3>1 DEF RevokePrivateLinuxDoRepository, Done
      <4> QED BY <4>1, SyncFields DEF Types, SyncState, Working
    <3>2. CASE item.row.repo # x
      <4>1. sync' = [sync EXCEPT !.pc = "skip", !.queue = Marked(item)]
        BY <1>4, <3>2 DEF RevokePrivateLinuxDoRepository, Marked
      <4>2. Marked(item) \in SUBSET Item
        BY MarkedItems
      <4> QED BY <4>1, <4>2, SyncFields DEF Types, SyncState, Working
    <3> QED BY <3>1, <3>2
  <2>2. cand' \in [Topics -> [Names -> Candidate \cup {NoCandidate}]]
    BY <1>4, WithdrawnRows
  <2>3. Bump \/ UNCHANGED revision
    BY <1>4 DEF RevokePrivateLinuxDoRepository
  <2>4. revision' \in 0..MaxRevision
    BY <2>3, BumpType
  <2>5. link' \subseteq Repos \X Topics /\ private' \subseteq Repos
    BY <1>4 DEF RevokePrivateLinuxDoRepository, Types, TypeOK
  <2> QED BY <1>4, <2>1, <2>2, <2>4, <2>5
          DEF RevokePrivateLinuxDoRepository, Types, TypeOK, SyncState
<1> QED BY <1>1, <1>2, <1>3, <1>4

LEMMA TypesOther ==
    ASSUME Types,
           \/ \E r \in Readers : BeginBuild(r) \/ EndBuild(r)
           \/ Expire \/ StoreFacts \/ Restart \/ UNCHANGED vars
    PROVE  Types'
<1>1. CASE \E r \in Readers : BeginBuild(r) \/ EndBuild(r)
  BY <1>1 DEF BeginBuild, EndBuild, Types, TypeOK, SyncState, tables
<1>2. CASE Expire \/ StoreFacts
  BY <1>2 DEF Expire, StoreFacts, Types, TypeOK, SyncState, tables
<1>3. CASE Restart
  BY <1>3, SyncFields DEF Restart, Types, TypeOK, SyncState, tables
<1>4. CASE UNCHANGED vars
  BY <1>4 DEF vars, Types, TypeOK, SyncState, tables
<1> QED BY <1>1, <1>2, <1>3, <1>4

-----------------------------------------------------------------------------
(* Verdicts belong to the rule and the post they were made from.             *)

LEMMA SkippedRowOk ==
    ASSUME NEW c \in Candidate, NEW n, NEW r, RowOk(c, n, r)
    PROVE  RowOk([c EXCEPT !.state = "skipped"], n, r)
<1> DEFINE new == [c EXCEPT !.state = "skipped"]
<1>1. /\ new.rule = c.rule /\ new.hash = c.hash /\ new.promoted = c.promoted
      /\ new.state = "skipped" /\ "skipped" # "published" /\ c # NoCandidate
  BY CandidateFields DEF Candidate
<1>2. c.rule <= r /\ c.promoted = (n \in Promoted[c.rule, c.hash])
  BY <1>1 DEF RowOk
<1> HIDE DEF new
<1>3. RowOk(new, n, r)
  BY <1>1, <1>2 DEF RowOk
<1> QED BY <1>3 DEF new

LEMMA CandOkObserve ==
    ASSUME Types, CandOk, NEW seen \in SUBSET Topics, NEW post \in [seen -> Contents],
           ObserveLinuxDo(seen, post)
    PROVE  CandOk'
<1>1. rule' = rule /\ rule \in Rules
  BY DEF ObserveLinuxDo, Types, TypeOK
<1>2. ASSUME NEW k \in Slots
      PROVE  RowOk(CandAt(k)', k[2], rule)
  <2>1. CandAt(k) \in Candidate \cup {NoCandidate} /\ k[2] \in Names
    BY CandAtType, SlotParts DEF Types
  <2>2. RowOk(CandAt(k), k[2], rule)
    BY DEF CandOk
  <2>3. CASE k[1] \in seen /\ k[2] \in Mentioned[post[k[1]]]
    <3> DEFINE o == Observed(CandAt(k), post[k[1]], k[2])
    <3>1. CandAt(k)' = o
      BY <2>3, ObserveRows DEF Types
    <3>2. post[k[1]] \in Contents
      BY <2>3
    <3>3. /\ o.hash = post[k[1]] /\ o.rule = rule
          /\ o.promoted = (k[2] \in Promoted[rule, post[k[1]]])
          /\ o = CandAt(k) \/ o.state = "pending"
          /\ o \in Candidate
      <4>1. TypeOK
        BY DEF Types
      <4> DEFINE c == CandAt(k)
                 content == post[k[1]]
                 n == k[2]
      <4>2. c \in Candidate \cup {NoCandidate} /\ content \in Contents /\ n \in Names
        BY <2>1, <3>2
      <4> HIDE DEF c, content, n
      <4>3. LET w == Observed(c, content, n)
            IN  /\ w \in Candidate
                /\ w.hash = content /\ w.rule = rule
                /\ w.promoted = (n \in Promoted[rule, content])
                /\ w = c \/ w.state = "pending"
                /\ c # NoCandidate => w.repo = c.repo
                /\ c = NoCandidate => w.repo = NoRepo
        BY <4>1, <4>2, ObservedRow, Zenon
      <4> QED BY <4>3, Zenon DEF c, content, n
    <3> HIDE DEF o
    <3>4. rule <= rule
      BY <1>1 DEF Rules
    <3>5. CASE o = CandAt(k)
      BY <2>2, <3>1, <3>5
    <3>6. CASE o.state = "pending"
      BY <3>1, <3>3, <3>4, <3>6 DEF RowOk
    <3> QED BY <3>3, <3>5, <3>6
  <2>4. CASE ~(k[1] \in seen /\ k[2] \in Mentioned[post[k[1]]])
    <3>1. CandAt(k)' = CandAt(k)
      BY <2>4, ObserveRows DEF Types
    <3> QED BY <2>2, <3>1
  <2> QED BY <2>3, <2>4
<1> QED BY <1>1, <1>2 DEF CandOk

LEMMA CandOkReclassify ==
    ASSUME Types, CandOk, NEW t \in Topics, Reclassify(t)
    PROVE  CandOk'
<1>1. rule' = rule /\ rule \in Rules
  BY DEF Reclassify, Types, TypeOK
<1>2. ASSUME NEW k \in Slots
      PROVE  RowOk(CandAt(k)', k[2], rule)
  <2>1. RowOk(CandAt(k), k[2], rule)
    BY DEF CandOk
  <2>2. CASE k[1] = t /\ k \in Current /\ CandAt(k).rule < rule
    <3> DEFINE c == CandAt(k)
               accepted == k[2] \in Promoted[rule, topic[t]]
    <3>1. CandAt(k)' = [c EXCEPT !.promoted = accepted, !.rule = rule, !.state = "pending"]
      BY <2>2, ReclassifyRows DEF Types
    <3>2. c \in Candidate /\ c.hash = topic[t]
      BY <2>2, CandAtType DEF Types, Current
    <3>3. rule <= rule
      BY <1>1 DEF Rules
    <3> HIDE DEF c, accepted
    <3> DEFINE new == [c EXCEPT !.promoted = accepted, !.rule = rule, !.state = "pending"]
    <3>4. /\ new.rule = rule /\ new.hash = topic[t]
          /\ new.promoted = accepted /\ new.state = "pending"
      BY <3>2 DEF Candidate
    <3> HIDE DEF new
    <3>5. new.promoted = (k[2] \in Promoted[new.rule, new.hash])
      BY <3>4 DEF accepted
    <3>6. RowOk(new, k[2], rule)
      BY <3>3, <3>4, <3>5 DEF RowOk
    <3> QED BY <3>1, <3>6 DEF new
  <2>3. CASE ~(k[1] = t /\ k \in Current /\ CandAt(k).rule < rule)
    <3>1. CandAt(k)' = CandAt(k)
      BY <2>3, ReclassifyRows DEF Types
    <3> QED BY <2>1, <3>1
  <2> QED BY <2>2, <2>3
<1> QED BY <1>1, <1>2 DEF CandOk

LEMMA CandOkSkipped ==
    ASSUME Types, CandOk, QueueOk, NEW item \in sync.queue, ApplySkipped(item)
    PROVE  CandOk'
<1>1. rule' = rule
  BY DEF ApplySkipped
<1>2. ASSUME NEW k \in Slots
      PROVE  RowOk(CandAt(k)', k[2], rule)
  <2>1. RowOk(CandAt(k), k[2], rule)
    BY DEF CandOk
  <2>2. CASE k = item.at
    <3>1. CandAt(k)' = [CandAt(k) EXCEPT !.state = "skipped"]
      BY <2>2, SkippedRows
    <3>2. CandAt(k) \in Candidate
      BY <2>2, ItemFields
    <3> QED BY <2>1, <3>1, <3>2, SkippedRowOk
  <2>3. CASE k # item.at
    <3>1. CandAt(k)' = CandAt(k)
      BY <2>3, SkippedRows
    <3> QED BY <2>1, <3>1
  <2> QED BY <2>2, <2>3
<1> QED BY <1>1, <1>2 DEF CandOk

LEMMA CandOkPublish ==
    ASSUME Types, CandOk, QueueOk, NEW item \in sync.queue, NEW x \in Repos,
           NEW f \in Facts, Publish(item, x, f)
    PROVE  CandOk'
<1>1. rule' = rule
  BY DEF Publish
<1>2. ASSUME NEW k \in Slots
      PROVE  RowOk(CandAt(k)', k[2], rule)
  <2>1. RowOk(CandAt(k), k[2], rule)
    BY DEF CandOk
  <2>2. CASE k = item.at
    <3> DEFINE c == CandAt(k)
               new == [c EXCEPT !.state = "published", !.repo = x]
    <3>1. CandAt(k)' = new
      BY <2>2, PublishedRows
    <3>2. c \in Candidate /\ c # NoCandidate
      BY <2>2, ItemFields, CandidateFields
    <3>3. /\ c.hash = item.row.hash /\ c.rule = item.row.rule
          /\ item.row.promoted
          /\ item.row.promoted = (k[2] \in Promoted[item.row.rule, item.row.hash])
      BY <2>2 DEF Publish, Unchanged, QueueOk, ItemOk
    <3>4. c.rule <= rule
      BY <2>1, <3>2 DEF RowOk
    <3>5. c.promoted = (k[2] \in Promoted[c.rule, c.hash])
      BY <2>1, <3>2 DEF RowOk
    <3>6. k[2] \in Promoted[c.rule, c.hash]
      BY <3>3
    <3> HIDE DEF c
    <3>7. /\ new.rule = c.rule /\ new.hash = c.hash /\ new.promoted = c.promoted
      BY <3>2 DEF Candidate
    <3> HIDE DEF new
    <3>8. RowOk(new, k[2], rule)
      BY <3>4, <3>5, <3>6, <3>7 DEF RowOk
    <3> QED BY <3>1, <3>8
  <2>3. CASE k # item.at
    <3>1. CandAt(k)' = CandAt(k)
      BY <2>3, PublishedRows
    <3> QED BY <2>1, <3>1
  <2> QED BY <2>2, <2>3
<1> QED BY <1>1, <1>2 DEF CandOk

LEMMA CandOkWithdraw ==
    ASSUME Types, CandOk, NEW item, NEW x \in Repos,
           RevokePrivateLinuxDoRepository(item, x)
    PROVE  CandOk'
<1>1. rule' = rule
  BY DEF RevokePrivateLinuxDoRepository
<1>2. ASSUME NEW k \in Slots
      PROVE  RowOk(CandAt(k)', k[2], rule)
  <2>1. RowOk(CandAt(k), k[2], rule)
    BY DEF CandOk
  <2>2. CandAt(k)' = IF CandAt(k) # NoCandidate /\ CandAt(k).repo = x
                     THEN [CandAt(k) EXCEPT !.state = "skipped"] ELSE CandAt(k)
    BY WithdrawnRows
  <2>3. CandAt(k) # NoCandidate => CandAt(k) \in Candidate
    BY CandAtType DEF Types
  <2> QED BY <2>1, <2>2, <2>3, SkippedRowOk
<1> QED BY <1>1, <1>2 DEF CandOk

LEMMA CandOkKept ==
    ASSUME Types, CandOk, UNCHANGED cand, rule' = rule \/ rule' = rule + 1
    PROVE  CandOk'
<1>1. rule \in Nat
  BY DEF Types, TypeOK, Rules
<1>2. ASSUME NEW k \in Slots
      PROVE  RowOk(CandAt(k), k[2], rule')
  <2>1. RowOk(CandAt(k), k[2], rule) /\ CandAt(k) \in Candidate \cup {NoCandidate}
    BY CandAtType DEF CandOk, Types
  <2>2. CandAt(k) # NoCandidate => CandAt(k).rule \in Nat
    BY <2>1 DEF Candidate, Rules
  <2>3. CandAt(k) # NoCandidate => CandAt(k).rule <= rule
    BY <2>1 DEF RowOk
  <2>4. CandAt(k) # NoCandidate => CandAt(k).rule <= rule'
    BY <1>1, <2>2, <2>3
  <2> QED BY <2>1, <2>4 DEF RowOk
<1>3. \A k \in Slots : CandAt(k)' = CandAt(k)
  BY DEF CandAt
<1> QED BY <1>2, <1>3 DEF CandOk

LEMMA CandOkStep ==
    ASSUME Types, CandOk, QueueOk, [Next]_vars
    PROVE  CandOk'
<1>1. CASE SyncStep
  <2>1. ASSUME NEW seen \in SUBSET Topics, NEW post \in [seen -> Contents],
               ObserveLinuxDo(seen, post)
        PROVE  CandOk'
    BY <2>1, CandOkObserve
  <2>2. ASSUME NEW t \in Topics, Reclassify(t)
        PROVE  CandOk'
    BY <2>2, CandOkReclassify
  <2>3. ASSUME NEW item \in sync.queue,
               \/ SkipUnpromoted(item) \/ SkipPrivate(item) \/ Unavailable(item)
               \/ \E x \in Repos, f \in Facts : Publish(item, x, f)
               \/ \E x \in Repos : RevokePrivateLinuxDoRepository(item, x)
        PROVE  CandOk'
    <3>1. CASE SkipUnpromoted(item) \/ SkipPrivate(item)
      BY <3>1, CandOkSkipped DEF SkipUnpromoted, SkipPrivate
    <3>2. CASE Unavailable(item)
      BY <3>2, CandOkKept DEF Unavailable, tables
    <3> QED BY <2>3, <3>1, <3>2, CandOkPublish, CandOkWithdraw
  <2>4. CASE FetchUnchanged \/ ReadStale \/ Select \/ SyncFails \/ QueueDone \/ Finish
    BY <2>4, CandOkKept
       DEF FetchUnchanged, ReadStale, Select, SyncFails, QueueDone, Finish, tables
  <2> QED BY <1>1, <2>1, <2>2, <2>3, <2>4 DEF SyncStep
<1>2. CASE BeginSync \/ Expire \/ StoreFacts \/ (\E r \in Readers : BeginBuild(r) \/ EndBuild(r))
  BY <1>2, CandOkKept DEF BeginSync, Expire, StoreFacts, BeginBuild, EndBuild, tables
<1>3. CASE Restart
  BY <1>3, CandOkKept DEF Restart, tables
<1>4. CASE UNCHANGED vars
  BY <1>4, CandOkKept DEF vars, tables
<1> QED BY <1>1, <1>2, <1>3, <1>4 DEF Next

-----------------------------------------------------------------------------
(* The queue.                                                                *)

LEMMA EmptyQueueOk ==
    ASSUME sync.queue' = {}
    PROVE  QueueOk'
  BY DEF QueueOk

LEMMA QueueOkSelect ==
    ASSUME Types, CandOk, Select
    PROVE  QueueOk'
<1>0. PICK due \in SUBSET Recheckable :
          \E chosen \in SUBSET (Pending \cup due) :
              sync' = [sync EXCEPT !.pc = "decide", !.ok = TRUE,
                !.queue = {[at |-> k, row |-> CandAt(k), now |-> FALSE] : k \in chosen},
                !.cut = @ \/ chosen # Pending \cup due]
  BY DEF Select
<1>1. PICK chosen \in SUBSET (Pending \cup due) :
          sync' = [sync EXCEPT !.pc = "decide", !.ok = TRUE,
                !.queue = {[at |-> k, row |-> CandAt(k), now |-> FALSE] : k \in chosen},
                !.cut = @ \/ chosen # Pending \cup due]
  BY <1>0
<1>2. /\ sync'.pc = "decide"
      /\ sync'.queue = {[at |-> k, row |-> CandAt(k), now |-> FALSE] : k \in chosen}
  BY <1>1 DEF Types, SyncState
<1>3. \A k \in chosen : k \in Slots /\ CandAt(k) # NoCandidate
  BY DEF Pending, Recheckable, Current
<1>4. \A k \in Slots : CandAt(k)' = CandAt(k)
  BY DEF Select, tables, CandAt
<1>5. ASSUME NEW i \in sync'.queue
      PROVE  /\ CandAt(i.at)' # NoCandidate
             /\ CandAt(i.at)'.repo = i.row.repo
             /\ i.row.promoted = (i.at[2] \in Promoted[i.row.rule, i.row.hash])
  <2>1. PICK k \in chosen : i = [at |-> k, row |-> CandAt(k), now |-> FALSE]
    BY <1>2
  <2>2. i.at = k /\ i.row = CandAt(k)
    BY <2>1
  <2>3. k \in Slots /\ CandAt(k) # NoCandidate /\ CandAt(k)' = CandAt(k)
    BY <1>3, <1>4
  <2>4. CandAt(k).promoted = (k[2] \in Promoted[CandAt(k).rule, CandAt(k).hash])
    BY <2>3 DEF CandOk, RowOk
  <2>5. CandAt(i.at)' # NoCandidate /\ CandAt(i.at)'.repo = i.row.repo
    BY <2>2, <2>3 DEF CandAt
  <2>6. i.row.promoted = (i.at[2] \in Promoted[i.row.rule, i.row.hash])
    BY <2>2, <2>4, Zenon
  <2> QED BY <2>5, <2>6
<1>6. ASSUME NEW i \in sync'.queue, NEW j \in sync'.queue, i.at = j.at
      PROVE  i = j
  <2>1. PICK k \in chosen : i = [at |-> k, row |-> CandAt(k), now |-> FALSE]
    BY <1>2
  <2>2. PICK h \in chosen : j = [at |-> h, row |-> CandAt(h), now |-> FALSE]
    BY <1>2
  <2>3. k = h
    BY <1>6, <2>1, <2>2
  <2> QED BY <2>1, <2>2, <2>3
<1> QED BY <1>2, <1>5, <1>6 DEF QueueOk, ItemOk

\* A verdict removes its item; the rows of the others keep their repository.
LEMMA QueueOkFewer ==
    ASSUME Types, QueueOk,
           sync'.queue \subseteq sync.queue, sync'.pc \in {"decide", "skip"},
           \A i \in sync'.queue : /\ CandAt(i.at)' # NoCandidate
                                  /\ CandAt(i.at)'.repo = CandAt(i.at).repo
    PROVE  QueueOk'
<1>1. ASSUME NEW i \in sync'.queue
      PROVE  /\ CandAt(i.at)' # NoCandidate
             /\ CandAt(i.at)'.repo = i.row.repo
             /\ i.row.promoted = (i.at[2] \in Promoted[i.row.rule, i.row.hash])
  <2>1. ItemOk(i)
    BY DEF QueueOk
  <2> QED BY <2>1 DEF ItemOk
<1>2. \A i, j \in sync'.queue : i.at = j.at => i = j
  BY DEF QueueOk
<1> QED BY <1>1, <1>2 DEF QueueOk, ItemOk

LEMMA SkippedKeeps ==
    ASSUME NEW c \in Candidate
    PROVE  /\ [c EXCEPT !.state = "skipped"] \in Candidate
           /\ [c EXCEPT !.state = "skipped"] # NoCandidate
           /\ [c EXCEPT !.state = "skipped"].repo = c.repo
           /\ [c EXCEPT !.state = "skipped"].state = "skipped"
           /\ [c EXCEPT !.state = "skipped"].hash = c.hash
           /\ [c EXCEPT !.state = "skipped"].rule = c.rule
  BY Bounds DEF Candidate

LEMMA DoneQueue ==
    ASSUME Types, NEW item, Done(item)
    PROVE  /\ sync'.pc = "decide" /\ sync'.queue = sync.queue \ {item}
           /\ sync'.ok = sync.ok /\ sync'.cut = sync.cut
  BY DEF Done, Types, SyncState

LEMMA QueueOkSkipped ==
    ASSUME Types, QueueOk, NEW item \in sync.queue, ApplySkipped(item)
    PROVE  QueueOk'
<1>1. /\ sync'.pc = "decide" /\ sync'.queue = sync.queue \ {item}
  BY DoneQueue DEF ApplySkipped
<1>2. ASSUME NEW i \in sync'.queue
      PROVE  CandAt(i.at)' # NoCandidate /\ CandAt(i.at)'.repo = CandAt(i.at).repo
  <2>1. i \in sync.queue /\ i.at \in Slots /\ CandAt(i.at) \in Candidate
    BY <1>1, ItemFields
  <2>2. \/ CandAt(i.at)' = CandAt(i.at)
        \/ CandAt(i.at)' = [CandAt(i.at) EXCEPT !.state = "skipped"]
    BY <2>1, SkippedRows
  <2> QED BY <2>1, <2>2, SkippedKeeps, CandidateFields
<1> QED BY <1>1, <1>2, QueueOkFewer

LEMMA QueueOkPublish ==
    ASSUME Types, QueueOk, NEW item \in sync.queue, NEW x \in Repos,
           NEW f \in Facts, Publish(item, x, f)
    PROVE  QueueOk'
<1>1. /\ sync'.pc = "decide" /\ sync'.queue = sync.queue \ {item}
  BY DoneQueue DEF Publish
<1>2. ASSUME NEW i \in sync'.queue
      PROVE  CandAt(i.at)' # NoCandidate /\ CandAt(i.at)'.repo = CandAt(i.at).repo
  <2>1. i \in sync.queue /\ i # item /\ i.at \in Slots /\ CandAt(i.at) \in Candidate
    BY <1>1, ItemFields
  <2>2. i.at # item.at
    BY <2>1 DEF QueueOk
  <2>3. CandAt(i.at)' = CandAt(i.at)
    BY <2>1, <2>2, PublishedRows
  <2> QED BY <2>1, <2>3, CandidateFields
<1> QED BY <1>1, <1>2, QueueOkFewer

LEMMA RevokeQueue ==
    ASSUME Types, NEW item \in sync.queue, NEW x \in Repos,
           RevokePrivateLinuxDoRepository(item, x)
    PROVE  /\ sync'.ok = sync.ok /\ sync'.cut = sync.cut
           /\ item.row.repo = x => /\ sync'.pc = "decide"
                                   /\ sync'.queue = sync.queue \ {item}
           /\ item.row.repo # x => /\ sync'.pc = "skip"
                                   /\ sync'.queue = Marked(item)
<1>1. CASE item.row.repo = x
  <2>1. Done(item)
    BY <1>1 DEF RevokePrivateLinuxDoRepository
  <2> QED BY <1>1, <2>1, DoneQueue
<1>2. CASE item.row.repo # x
  <2>1. sync' = [sync EXCEPT !.pc = "skip", !.queue = Marked(item)]
    BY <1>2 DEF RevokePrivateLinuxDoRepository, Marked
  <2> QED BY <1>2, <2>1 DEF Types, SyncState
<1> QED BY <1>1, <1>2

LEMMA QueueOkWithdraw ==
    ASSUME Types, QueueOk, NEW item \in sync.queue, NEW x \in Repos,
           RevokePrivateLinuxDoRepository(item, x)
    PROVE  QueueOk'
<1>1. ASSUME NEW i \in sync.queue
      PROVE  CandAt(i.at)' # NoCandidate /\ CandAt(i.at)'.repo = CandAt(i.at).repo
  <2>1. i.at \in Slots /\ CandAt(i.at) \in Candidate
    BY ItemFields
  <2>2. \/ CandAt(i.at)' = CandAt(i.at)
        \/ CandAt(i.at)' = [CandAt(i.at) EXCEPT !.state = "skipped"]
    BY <2>1, WithdrawnRows
  <2> QED BY <2>1, <2>2, SkippedKeeps, CandidateFields
<1>2. CASE item.row.repo = x
  <2>1. sync'.pc = "decide" /\ sync'.queue = sync.queue \ {item}
    BY <1>2, RevokeQueue
  <2> QED BY <1>1, <2>1, QueueOkFewer
<1>3. CASE item.row.repo # x
  <2>1. sync'.pc = "skip" /\ sync'.queue = Marked(item)
    BY <1>3, RevokeQueue
  <2>2. ASSUME NEW j \in sync'.queue
        PROVE  /\ CandAt(j.at)' # NoCandidate
               /\ CandAt(j.at)'.repo = j.row.repo
               /\ j.row.promoted = (j.at[2] \in Promoted[j.row.rule, j.row.hash])
    <3>1. PICK i \in sync.queue : j.at = i.at /\ j.row = i.row
      BY <2>1, MarkedItems
    <3>2. ItemOk(i)
      BY DEF QueueOk
    <3>3. CandAt(j.at)' = CandAt(i.at)'
      BY <3>1 DEF CandAt
    <3>4. CandAt(j.at)' # NoCandidate /\ CandAt(j.at)'.repo = j.row.repo
      BY <1>1, <3>1, <3>2, <3>3 DEF ItemOk
    <3>5. j.row.promoted = (j.at[2] \in Promoted[j.row.rule, j.row.hash])
      BY <3>1, <3>2, Zenon DEF ItemOk
    <3> QED BY <3>4, <3>5
  <2>3. ASSUME NEW j \in sync'.queue, NEW k \in sync'.queue, j.at = k.at
        PROVE  j = k
    <3>0. j \in Marked(item) /\ k \in Marked(item)
      BY <2>1
    <3>1. PICK i \in sync.queue : /\ j.at = i.at
                                  /\ j = IF i = item THEN [i EXCEPT !.now = TRUE] ELSE i
      BY <3>0, MarkedItems, Zenon
    <3>2. PICK h \in sync.queue : /\ k.at = h.at
                                  /\ k = IF h = item THEN [h EXCEPT !.now = TRUE] ELSE h
      BY <3>0, MarkedItems, ZenonT(30)
    <3>3. i = h
      BY <2>3, <3>1, <3>2 DEF QueueOk
    <3> QED BY <3>1, <3>2, <3>3
  <2> QED BY <2>1, <2>2, <2>3 DEF QueueOk, ItemOk
<1> QED BY <1>2, <1>3

LEMMA QueueOkKept ==
    ASSUME QueueOk, UNCHANGED <<cand, sync>>
    PROVE  QueueOk'
  BY DEF QueueOk, ItemOk, CandAt

LEMMA QueueOkStep ==
    ASSUME Types, CandOk, QueueOk, [Next]_vars
    PROVE  QueueOk'
<1>1. CASE SyncStep
  <2>1. CASE \/ FetchUnchanged \/ ReadStale \/ (\E t \in Topics : Reclassify(t))
             \/ \E seen \in SUBSET Topics : \E post \in [seen -> Contents] :
                    ObserveLinuxDo(seen, post)
    <3>1. sync.queue = {}
      BY <2>1 DEF QueueOk, FetchUnchanged, ReadStale, Reclassify, ObserveLinuxDo
    <3>2. sync'.queue = sync.queue
      BY <2>1 DEF FetchUnchanged, ReadStale, Reclassify, ObserveLinuxDo, Types, SyncState
    <3> QED BY <3>1, <3>2, EmptyQueueOk
  <2>2. CASE Select
    BY <2>2, QueueOkSelect
  <2>3. ASSUME NEW item \in sync.queue,
               \/ SkipUnpromoted(item) \/ SkipPrivate(item) \/ Unavailable(item)
               \/ \E x \in Repos, f \in Facts : Publish(item, x, f)
               \/ \E x \in Repos : RevokePrivateLinuxDoRepository(item, x)
        PROVE  QueueOk'
    <3>1. CASE SkipUnpromoted(item) \/ SkipPrivate(item)
      BY <3>1, QueueOkSkipped DEF SkipUnpromoted, SkipPrivate
    <3>2. CASE Unavailable(item)
      <4>1. sync'.pc = "decide" /\ sync'.queue = sync.queue \ {item}
        BY <3>2 DEF Unavailable, First, Types, SyncState
      <4>2. \A i \in sync.queue : CandAt(i.at)' = CandAt(i.at) /\ CandAt(i.at) # NoCandidate
        BY <3>2 DEF Unavailable, tables, CandAt, QueueOk, ItemOk
      <4> QED BY <4>1, <4>2, QueueOkFewer
    <3> QED BY <2>3, <3>1, <3>2, QueueOkPublish, QueueOkWithdraw
  <2>4. CASE SyncFails \/ QueueDone \/ Finish
    <3>1. sync'.queue = {}
      BY <2>4 DEF SyncFails, QueueDone, Finish, Idle, Types, SyncState
    <3> QED BY <3>1, EmptyQueueOk
  <2> QED BY <1>1, <2>1, <2>2, <2>3, <2>4 DEF SyncStep
<1>2. CASE Expire \/ StoreFacts \/ (\E r \in Readers : BeginBuild(r) \/ EndBuild(r))
  BY <1>2, QueueOkKept DEF Expire, StoreFacts, BeginBuild, EndBuild, tables
<1>3. CASE BeginSync \/ Restart
  <2>1. sync'.queue = {}
    BY <1>3 DEF BeginSync, Restart, Idle
  <2> QED BY <2>1, EmptyQueueOk
<1>4. CASE UNCHANGED vars
  BY <1>4, QueueOkKept DEF vars, tables
<1> QED BY <1>1, <1>2, <1>3, <1>4 DEF Next

-----------------------------------------------------------------------------
(* What a round has still to do.                                             *)

LEMMA CurrentKept ==
    ASSUME UNCHANGED topic,
           \A k \in Slots : CandAt(k)' # NoCandidate =>
               CandAt(k) # NoCandidate /\ CandAt(k)'.hash = CandAt(k).hash
    PROVE  \A k \in Current' : k \in Current /\ k \in Slots /\ CandAt(k)' # NoCandidate
  BY DEF Current

LEMMA OtherStage ==
    ASSUME sync'.pc \in {"idle", "fetch", "stale"} \/ (sync'.pc = "finish" /\ ~sync'.ok)
    PROVE  StageOk'
  BY DEF StageOk

LEMMA StageOkReadStale ==
    ASSUME Types, CandOk, ReadStale
    PROVE  StageOk'
<1>1. PICK chosen \in SUBSET StaleTopics :
          sync' = [sync EXCEPT !.pc = "reclassify", !.todo = chosen,
                               !.cut = chosen # StaleTopics]
  BY DEF ReadStale
<1>2. /\ sync'.pc = "reclassify" /\ sync'.todo = chosen
      /\ sync'.cut = (chosen # StaleTopics)
  BY <1>1 DEF Types, SyncState
<1>3. UNCHANGED <<topic, rule>> /\ \A k \in Slots : CandAt(k)' = CandAt(k)
  BY DEF ReadStale, tables, CandAt
<1>4. ASSUME NEW k \in Current', ~sync'.cut
      PROVE  CandAt(k)'.rule = rule' \/ k[1] \in sync'.todo
  <2>1. k \in Current /\ k \in Slots /\ CandAt(k)' = CandAt(k)
    BY <1>3 DEF Current
  <2>2. CandAt(k) \in Candidate /\ CandAt(k).rule <= rule
    BY <2>1, CandAtType DEF Types, CandOk, RowOk, Current
  <2>3. CandAt(k).rule \in Nat /\ rule \in Nat
    BY <2>2, CandidateFields DEF Types, TypeOK, Rules
  <2>4. CASE CandAt(k).rule = rule
    BY <1>3, <2>1, <2>4
  <2>5. CASE CandAt(k).rule < rule
    <3>1. k[1] \in StaleTopics
      BY <2>1, <2>5 DEF StaleTopics
    <3>2. chosen = StaleTopics
      BY <1>2, <1>4
    <3> QED BY <1>2, <3>1, <3>2
  <2> QED BY <2>2, <2>3, <2>4, <2>5
<1> QED BY <1>2, <1>4 DEF StageOk

LEMMA StageOkReclassify ==
    ASSUME Types, CandOk, StageOk, NEW t \in Topics, Reclassify(t)
    PROVE  StageOk'
<1>1. /\ sync.pc = "reclassify" /\ sync'.pc = "reclassify"
      /\ sync'.todo = sync.todo \ {t} /\ sync'.cut = sync.cut
      /\ UNCHANGED <<topic, rule>>
  BY DEF Reclassify, Types, SyncState
<1>2. ASSUME NEW k \in Slots
      PROVE  /\ CandAt(k)' # NoCandidate =>
                    CandAt(k) # NoCandidate /\ CandAt(k)'.hash = CandAt(k).hash
             /\ k[1] = t /\ k \in Current /\ CandAt(k).rule < rule => CandAt(k)'.rule = rule
             /\ ~(k[1] = t /\ k \in Current /\ CandAt(k).rule < rule)
                    => CandAt(k)' = CandAt(k)
  <2>1. CASE k[1] = t /\ k \in Current /\ CandAt(k).rule < rule
    <3>1. CandAt(k) \in Candidate
      BY <2>1, CandAtType DEF Types, Current
    <3>2. CandAt(k)' = [CandAt(k) EXCEPT
                          !.promoted = k[2] \in Promoted[rule, topic[t]],
                          !.rule = rule, !.state = "pending"]
      BY <2>1, ReclassifyRows DEF Types
    <3>3. CandAt(k)'.hash = CandAt(k).hash /\ CandAt(k)'.rule = rule
      BY <3>1, <3>2 DEF Candidate
    <3> QED BY <2>1, <3>1, <3>3, CandidateFields
  <2>2. CASE ~(k[1] = t /\ k \in Current /\ CandAt(k).rule < rule)
    <3>1. CandAt(k)' = CandAt(k)
      BY <2>2, ReclassifyRows DEF Types
    <3> QED BY <2>2, <3>1
  <2> QED BY <2>1, <2>2
<1>3. ASSUME NEW k \in Current', ~sync'.cut
      PROVE  CandAt(k)'.rule = rule' \/ k[1] \in sync'.todo
  <2>1. k \in Current /\ k \in Slots
    BY <1>1, <1>2, CurrentKept
  <2>2. CandAt(k) \in Candidate /\ CandAt(k).rule <= rule
    BY <2>1, CandAtType DEF Types, CandOk, RowOk, Current
  <2>3. CandAt(k).rule \in Nat /\ rule \in Nat
    BY <2>2, CandidateFields DEF Types, TypeOK, Rules
  <2>4. CandAt(k).rule = rule \/ k[1] \in sync.todo
    BY <1>1, <1>3, <2>1 DEF StageOk
  <2>5. CASE k[1] = t /\ CandAt(k).rule < rule
    BY <1>1, <1>2, <2>1, <2>5
  <2>6. CASE k[1] # t
    BY <1>1, <1>2, <2>1, <2>4, <2>6
  <2>7. CASE CandAt(k).rule = rule
    <3>1. ~(CandAt(k).rule < rule)
      BY <2>3, <2>7
    <3> QED BY <1>1, <1>2, <2>1, <2>7, <3>1
  <2> QED BY <2>2, <2>3, <2>5, <2>6, <2>7
<1> QED BY <1>1, <1>3 DEF StageOk

LEMMA StageOkSelect ==
    ASSUME Types, StageOk, Select
    PROVE  StageOk'
<1>0. PICK due \in SUBSET Recheckable :
          \E chosen \in SUBSET (Pending \cup due) :
              sync' = [sync EXCEPT !.pc = "decide", !.ok = TRUE,
                !.queue = {[at |-> k, row |-> CandAt(k), now |-> FALSE] : k \in chosen},
                !.cut = @ \/ chosen # Pending \cup due]
  BY DEF Select
<1>1. PICK chosen \in SUBSET (Pending \cup due) :
          sync' = [sync EXCEPT !.pc = "decide", !.ok = TRUE,
                !.queue = {[at |-> k, row |-> CandAt(k), now |-> FALSE] : k \in chosen},
                !.cut = @ \/ chosen # Pending \cup due]
  BY <1>0
<1>2. /\ sync'.pc = "decide"
      /\ sync'.queue = {[at |-> k, row |-> CandAt(k), now |-> FALSE] : k \in chosen}
      /\ sync'.cut = (sync.cut \/ chosen # Pending \cup due)
  BY <1>1 DEF Types, SyncState
<1>3. /\ UNCHANGED <<topic, rule>> /\ \A k \in Slots : CandAt(k)' = CandAt(k)
      /\ sync.pc = "reclassify" /\ sync.todo = {}
  BY DEF Select, tables, CandAt
<1>4. ASSUME NEW k \in Current', ~sync'.cut
      PROVE  /\ CandAt(k)'.rule = rule'
             /\ CandAt(k)'.state = "pending" => \E i \in sync'.queue : i.at = k
  <2>1. k \in Current /\ k \in Slots /\ CandAt(k)' = CandAt(k)
    BY <1>3 DEF Current
  <2>2. ~sync.cut /\ chosen = Pending \cup due
    BY <1>2, <1>4
  <2>3. CandAt(k).rule = rule
    BY <1>3, <2>1, <2>2 DEF StageOk
  <2>4. ASSUME CandAt(k).state = "pending"
        PROVE  \E i \in sync'.queue : i.at = k
    <3>1. k \in chosen
      BY <2>1, <2>2, <2>3, <2>4 DEF Pending
    <3>2. [at |-> k, row |-> CandAt(k), now |-> FALSE] \in sync'.queue
      BY <1>2, <3>1
    <3> QED BY <3>2
  <2> QED BY <1>3, <2>1, <2>3, <2>4
<1> QED BY <1>2, <1>4 DEF StageOk

\* A verdict leaves no row pending that no item is left for.
LEMMA StageOkVerdict ==
    ASSUME Types, StageOk, UNCHANGED <<topic, rule>>,
           sync.pc \in {"decide", "skip"}, sync'.pc \in {"decide", "skip"},
           sync'.ok => sync.ok, sync'.cut = sync.cut,
           \A k \in Slots : CandAt(k)' # NoCandidate =>
               /\ CandAt(k) # NoCandidate
               /\ CandAt(k)'.hash = CandAt(k).hash /\ CandAt(k)'.rule = CandAt(k).rule
               /\ CandAt(k)'.state = "pending" => CandAt(k).state = "pending",
           sync'.ok => \A i \in sync.queue :
               CandAt(i.at)'.state = "pending" => \E j \in sync'.queue : j.at = i.at
    PROVE  StageOk'
<1>1. ASSUME NEW k \in Current', sync'.ok, ~sync'.cut
      PROVE  /\ CandAt(k)'.rule = rule'
             /\ CandAt(k)'.state = "pending" => \E i \in sync'.queue : i.at = k
  <2>1. k \in Current /\ k \in Slots /\ CandAt(k)' # NoCandidate
    BY CurrentKept
  <2>2. CandAt(k).rule = rule /\
        (CandAt(k).state = "pending" => \E i \in sync.queue : i.at = k)
    BY <1>1, <2>1 DEF StageOk
  <2>3. ASSUME CandAt(k)'.state = "pending"
        PROVE  \E i \in sync'.queue : i.at = k
    <3>1. PICK i \in sync.queue : i.at = k
      BY <2>1, <2>2, <2>3
    <3>2. CandAt(i.at)' = CandAt(k)'
      BY <3>1 DEF CandAt
    <3> QED BY <1>1, <2>3, <3>1, <3>2
  <2> QED BY <2>1, <2>2, <2>3
<1> QED BY <1>1 DEF StageOk

LEMMA StageOkSkipped ==
    ASSUME Types, QueueOk, StageOk, NEW item \in sync.queue, ApplySkipped(item)
    PROVE  StageOk'
<1>1. /\ sync'.pc = "decide" /\ sync'.queue = sync.queue \ {item}
      /\ sync'.ok = sync.ok /\ sync'.cut = sync.cut
  BY DoneQueue DEF ApplySkipped
<1>2. sync.pc \in {"decide", "skip"} /\ UNCHANGED <<topic, rule>>
  BY DEF QueueOk, ApplySkipped
<1>3. ASSUME NEW k \in Slots, CandAt(k)' # NoCandidate
      PROVE  /\ CandAt(k) # NoCandidate
             /\ CandAt(k)'.hash = CandAt(k).hash /\ CandAt(k)'.rule = CandAt(k).rule
             /\ CandAt(k)'.state = "pending" =>
                    CandAt(k).state = "pending" /\ k # item.at
  <2>1. CASE k = item.at
    <3>1. CandAt(k) \in Candidate /\ CandAt(k)' = [CandAt(k) EXCEPT !.state = "skipped"]
      BY <2>1, ItemFields, SkippedRows
    <3>2. "skipped" # "pending"
      OBVIOUS
    <3> QED BY <3>1, <3>2, SkippedKeeps, CandidateFields
  <2>2. CASE k # item.at
    <3>1. CandAt(k)' = CandAt(k)
      BY <2>2, SkippedRows
    <3> QED BY <1>3, <2>2, <3>1
  <2> QED BY <2>1, <2>2
<1>4. ASSUME NEW i \in sync.queue, CandAt(i.at)'.state = "pending"
      PROVE  \E j \in sync'.queue : j.at = i.at
  <2>1. i.at \in Slots /\ CandAt(i.at)' # NoCandidate
    <3>1. i.at \in Slots /\ CandAt(i.at) \in Candidate
      BY ItemFields
    <3>2. \/ CandAt(i.at)' = CandAt(i.at)
          \/ CandAt(i.at)' = [CandAt(i.at) EXCEPT !.state = "skipped"]
      BY <3>1, SkippedRows
    <3> QED BY <3>1, <3>2, SkippedKeeps, CandidateFields
  <2>2. i.at # item.at
    BY <1>3, <1>4, <2>1
  <2> QED BY <1>1, <2>2
<1> QED BY <1>1, <1>2, <1>3, <1>4, StageOkVerdict

LEMMA StageOkPublish ==
    ASSUME Types, QueueOk, StageOk, NEW item \in sync.queue, NEW x \in Repos,
           NEW f \in Facts, Publish(item, x, f)
    PROVE  StageOk'
<1>1. /\ sync'.pc = "decide" /\ sync'.queue = sync.queue \ {item}
      /\ sync'.ok = sync.ok /\ sync'.cut = sync.cut
  BY DoneQueue DEF Publish
<1>2. sync.pc \in {"decide", "skip"} /\ UNCHANGED <<topic, rule>>
  BY DEF QueueOk, Publish
<1>3. /\ item.at \in Slots /\ CandAt(item.at) \in Candidate
      /\ CandAt(item.at)' = [CandAt(item.at) EXCEPT !.state = "published", !.repo = x]
  BY ItemFields, PublishedRows
<1>4. /\ CandAt(item.at)'.hash = CandAt(item.at).hash
      /\ CandAt(item.at)'.rule = CandAt(item.at).rule
      /\ CandAt(item.at)'.state = "published"
  BY <1>3 DEF Candidate
<1>5. ASSUME NEW k \in Slots, CandAt(k)' # NoCandidate
      PROVE  /\ CandAt(k) # NoCandidate
             /\ CandAt(k)'.hash = CandAt(k).hash /\ CandAt(k)'.rule = CandAt(k).rule
             /\ CandAt(k)'.state = "pending" =>
                    CandAt(k).state = "pending" /\ k # item.at
  <2>1. CASE k = item.at
    <3>1. CandAt(k)' = CandAt(item.at)'
      BY <2>1 DEF CandAt
    <3> QED BY <1>3, <1>4, <2>1, <3>1, CandidateFields
  <2>2. CASE k # item.at
    <3>1. CandAt(k)' = CandAt(k)
      BY <2>2, PublishedRows
    <3> QED BY <1>5, <2>2, <3>1
  <2> QED BY <2>1, <2>2
<1>6. ASSUME NEW i \in sync.queue, CandAt(i.at)'.state = "pending"
      PROVE  \E j \in sync'.queue : j.at = i.at
  <2>1. CASE i.at = item.at
    <3>1. CandAt(i.at)' = CandAt(item.at)'
      BY <2>1 DEF CandAt
    <3> QED BY <1>4, <1>6, <3>1
  <2>2. CASE i.at # item.at
    BY <1>1, <2>2
  <2> QED BY <2>1, <2>2
<1> QED BY <1>1, <1>2, <1>5, <1>6, StageOkVerdict

LEMMA StageOkWithdraw ==
    ASSUME Types, QueueOk, StageOk, NEW item \in sync.queue, NEW x \in Repos,
           RevokePrivateLinuxDoRepository(item, x)
    PROVE  StageOk'
<1>1. /\ sync'.pc \in {"decide", "skip"} /\ sync'.ok = sync.ok /\ sync'.cut = sync.cut
  BY RevokeQueue
<1>2. sync.pc \in {"decide", "skip"} /\ UNCHANGED <<topic, rule>>
  BY DEF QueueOk, RevokePrivateLinuxDoRepository
<1>3. ASSUME NEW k \in Slots, CandAt(k)' # NoCandidate
      PROVE  /\ CandAt(k) # NoCandidate
             /\ CandAt(k)'.hash = CandAt(k).hash /\ CandAt(k)'.rule = CandAt(k).rule
             /\ CandAt(k)'.state = "pending" =>
                    CandAt(k).state = "pending" /\ CandAt(k).repo # x
  <2>1. CASE CandAt(k) # NoCandidate /\ CandAt(k).repo = x
    <3>1. CandAt(k) \in Candidate /\ CandAt(k)' = [CandAt(k) EXCEPT !.state = "skipped"]
      BY <2>1, CandAtType, WithdrawnRows DEF Types
    <3>2. "skipped" # "pending"
      OBVIOUS
    <3> QED BY <2>1, <3>1, <3>2, SkippedKeeps
  <2>2. CASE ~(CandAt(k) # NoCandidate /\ CandAt(k).repo = x)
    <3>1. CandAt(k)' = CandAt(k)
      BY <2>2, WithdrawnRows
    <3> QED BY <1>3, <2>2, <3>1
  <2> QED BY <2>1, <2>2
<1>4. ASSUME NEW i \in sync.queue, CandAt(i.at)'.state = "pending"
      PROVE  \E j \in sync'.queue : j.at = i.at
  <2>1. CASE item.row.repo # x
    <3>1. sync'.queue = Marked(item)
      BY <2>1, RevokeQueue
    <3> QED BY <3>1, MarkedItems
  <2>2. CASE item.row.repo = x
    <3>1. sync'.queue = sync.queue \ {item}
      BY <2>2, RevokeQueue
    <3>2. i # item
      <4> SUFFICES ASSUME i = item PROVE FALSE
        OBVIOUS
      <4>1. /\ item.at \in Slots /\ CandAt(item.at) \in Candidate
            /\ CandAt(item.at).repo = x
        BY <2>2, ItemFields
      <4>2. CandAt(item.at)' = [CandAt(item.at) EXCEPT !.state = "skipped"]
        BY <4>1, WithdrawnRows, CandidateFields
      <4>3. CandAt(item.at)'.state = "skipped"
        BY <4>1, <4>2, SkippedKeeps
      <4> QED BY <1>4, <4>3
    <3> QED BY <3>1, <3>2
  <2> QED BY <2>1, <2>2
<1> QED BY <1>1, <1>2, <1>3, <1>4, StageOkVerdict

LEMMA StageOkKept ==
    ASSUME Types, StageOk, UNCHANGED <<topic, cand, rule, sync>>
    PROVE  StageOk'
<1>1. Current' = Current /\ \A k \in Slots : CandAt(k)' = CandAt(k)
  BY DEF Current, CandAt
<1>2. \A k \in Current : k \in Slots
  BY DEF Current
<1> QED BY <1>1, <1>2 DEF StageOk

LEMMA StageOkVerdicts ==
    ASSUME Types, QueueOk, StageOk, NEW item \in sync.queue,
           \/ SkipUnpromoted(item) \/ SkipPrivate(item) \/ Unavailable(item)
           \/ \E x \in Repos, f \in Facts : Publish(item, x, f)
           \/ \E x \in Repos : RevokePrivateLinuxDoRepository(item, x)
    PROVE  StageOk'
<1>1. CASE SkipUnpromoted(item) \/ SkipPrivate(item)
  BY <1>1, StageOkSkipped DEF SkipUnpromoted, SkipPrivate
<1>2. CASE Unavailable(item)
  <2>1. /\ sync.pc = "decide" /\ sync'.pc = "decide" /\ ~sync'.ok
    BY <1>2 DEF Unavailable, First, Types, SyncState
  <2> QED BY <2>1 DEF StageOk
<1> QED BY <1>1, <1>2, StageOkPublish, StageOkWithdraw

LEMMA StageOkStep ==
    ASSUME Types, CandOk, QueueOk, StageOk, [Next]_vars
    PROVE  StageOk'
<1>1. CASE SyncStep
  <2>1. CASE \/ FetchUnchanged
             \/ \E seen \in SUBSET Topics : \E post \in [seen -> Contents] :
                    ObserveLinuxDo(seen, post)
    <3>1. sync'.pc = "stale"
      BY <2>1 DEF FetchUnchanged, ObserveLinuxDo, Types, SyncState
    <3> QED BY <3>1, OtherStage
  <2>2. CASE ReadStale \/ (\E t \in Topics : Reclassify(t)) \/ Select
    BY <2>2, StageOkReadStale, StageOkReclassify, StageOkSelect
  <2>3. CASE \E item \in sync.queue :
                 \/ SkipUnpromoted(item) \/ SkipPrivate(item) \/ Unavailable(item)
                 \/ \E x \in Repos, f \in Facts : Publish(item, x, f)
                 \/ \E x \in Repos : RevokePrivateLinuxDoRepository(item, x)
    BY <2>3, StageOkVerdicts
  <2>4. CASE SyncFails \/ Finish
    <3>1. sync'.pc = "idle" \/ (sync'.pc = "finish" /\ ~sync'.ok)
      BY <2>4 DEF SyncFails, Finish, Idle
    <3> QED BY <3>1, OtherStage
  <2>5. CASE QueueDone
    <3>1. /\ sync.pc = "decide" /\ sync.queue = {} /\ sync'.pc = "finish"
          /\ sync'.ok = sync.ok /\ sync'.cut = sync.cut /\ UNCHANGED <<topic, cand, rule>>
      BY <2>5 DEF QueueDone, Types, SyncState, tables
    <3>2. Current' = Current /\ \A k \in Slots : CandAt(k)' = CandAt(k)
      BY <3>1 DEF Current, CandAt
    <3>3. \A k \in Current : k \in Slots
      BY DEF Current
    <3> QED BY <3>1, <3>2, <3>3 DEF StageOk
  <2> QED BY <1>1, <2>1, <2>2, <2>3, <2>4, <2>5 DEF SyncStep
<1>2. CASE Expire \/ StoreFacts \/ (\E r \in Readers : BeginBuild(r) \/ EndBuild(r))
  BY <1>2, StageOkKept DEF Expire, StoreFacts, BeginBuild, EndBuild, tables
<1>3. CASE BeginSync \/ Restart
  <2>1. sync'.pc \in {"idle", "fetch"}
    BY <1>3 DEF BeginSync, Restart, Idle
  <2> QED BY <2>1, OtherStage
<1>4. CASE UNCHANGED vars
  BY <1>4, StageOkKept DEF vars, tables
<1> QED BY <1>1, <1>2, <1>3, <1>4 DEF Next

LEMMA TypesStep ==
    ASSUME Types, QueueOk, [Next]_vars
    PROVE  Types'
<1>1. CASE SyncStep
  <2>1. CASE \E item \in sync.queue :
                 \/ SkipUnpromoted(item) \/ SkipPrivate(item) \/ Unavailable(item)
                 \/ \E x \in Repos, f \in Facts : Publish(item, x, f)
                 \/ \E x \in Repos : RevokePrivateLinuxDoRepository(item, x)
    BY <2>1, TypesVerdict
  <2> QED BY <1>1, <2>1, TypesRound DEF SyncStep
<1> QED BY <1>1, TypesRound, TypesOther DEF Next

-----------------------------------------------------------------------------
(* The invariant, and type correctness.                                      *)

LEMMA InvariantInit == Init => Invariant
<1> SUFFICES ASSUME Init PROVE Invariant
  OBVIOUS
<1>1. Types
  BY TypesInit
<1>2. \A k \in Slots : CandAt(k) = NoCandidate
  BY SlotParts DEF Init, CandAt
<1>3. CandOk
  BY <1>2 DEF CandOk, RowOk
<1>4. sync.pc = "idle" /\ sync.queue = {}
  BY DEF Init, Idle
<1> QED BY <1>1, <1>3, <1>4 DEF Invariant, QueueOk, StageOk

\* Types, verdicts, queue and what a round has still to do, together inductive.
THEOREM InvariantHolds == Spec => []Invariant
<1>1. Invariant /\ [Next]_vars => Invariant'
  BY TypesStep, CandOkStep, QueueOkStep, StageOkStep DEF Invariant
<1> QED BY InvariantInit, <1>1, PTL DEF Spec

\* Type correctness, with the shape of a round (store/linuxdo.go,
\* linuxdo/service.go).
THEOREM TypeCorrect == Spec => []TypeOK
<1>1. Invariant => TypeOK
  BY DEF Invariant, Types
<1> QED BY <1>1, InvariantHolds, PTL

\* A round that succeeds and has cut no list leaves nothing undecided and
\* nothing published that its rule does not accept (linuxdo/service.go:86-141).
THEOREM RoundsDecide == Spec => []DecidedAtSuccess
<1>1. Invariant => DecidedAtSuccess
  <2> SUFFICES ASSUME Invariant, sync.pc = "finish", sync.ok, ~sync.cut,
                      NEW k \in Current
               PROVE  /\ CandAt(k).state # "pending"
                      /\ CandAt(k).rule = rule
                      /\ CandAt(k).state = "published"
                             => k[2] \in Promoted[rule, topic[k[1]]]
    BY DEF DecidedAtSuccess
  <2>1. CandAt(k).rule = rule /\ CandAt(k).state # "pending"
    BY DEF Invariant, StageOk
  <2>2. k \in Slots /\ CandAt(k) # NoCandidate /\ CandAt(k).hash = topic[k[1]]
    BY DEF Current
  <2>3. /\ CandAt(k).promoted = (k[2] \in Promoted[rule, topic[k[1]]])
        /\ CandAt(k).state = "published" => CandAt(k).promoted
    BY <2>1, <2>2 DEF Invariant, CandOk, RowOk
  <2> QED BY <2>1, <2>3
<1> QED BY <1>1, InvariantHolds, PTL

-----------------------------------------------------------------------------
(* What is public has a candidate.                                           *)

Stands(k, l) ==
    /\ k[1] = l[2]
    /\ CandAt(k) # NoCandidate
    /\ CandAt(k).repo = l[1]
    /\ CandAt(k).state # "skipped"

Linked == \A l \in link : \E k \in Slots : Stands(k, l)

LEMMA ObservedStays ==
    ASSUME Types, NEW seen \in SUBSET Topics, NEW post \in [seen -> Contents],
           ObserveLinuxDo(seen, post), NEW k \in Slots
    PROVE  /\ CandAt(k) # NoCandidate =>
                  CandAt(k)' # NoCandidate /\ CandAt(k)'.repo = CandAt(k).repo
           /\ CandAt(k)' = CandAt(k) \/ CandAt(k)'.state = "pending"
<1>1. TypeOK /\ CandAt(k) \in Candidate \cup {NoCandidate} /\ k[2] \in Names
  BY CandAtType, SlotParts DEF Types
<1>2. CASE k[1] \in seen /\ k[2] \in Mentioned[post[k[1]]]
  <2> DEFINE c == CandAt(k)
             content == post[k[1]]
  <2>1. CandAt(k)' = Observed(c, content, k[2])
    BY <1>1, <1>2, ObserveRows
  <2>2. c \in Candidate \cup {NoCandidate} /\ content \in Contents
    BY <1>1, <1>2
  <2> HIDE DEF c, content
  <2>3. LET w == Observed(c, content, k[2])
        IN  /\ w \in Candidate /\ (w = c \/ w.state = "pending")
            /\ c # NoCandidate => w.repo = c.repo
    BY <1>1, <2>2, ObservedRow, ZenonT(30)
  <2> QED BY <2>1, <2>3, CandidateFields DEF c
<1>3. CASE ~(k[1] \in seen /\ k[2] \in Mentioned[post[k[1]]])
  <2>1. CandAt(k)' = CandAt(k)
    BY <1>1, <1>3, ObserveRows
  <2> QED BY <2>1
<1> QED BY <1>2, <1>3

LEMMA ReclassifiedStays ==
    ASSUME Types, NEW t \in Topics, Reclassify(t), NEW k \in Slots
    PROVE  /\ CandAt(k) # NoCandidate =>
                  CandAt(k)' # NoCandidate /\ CandAt(k)'.repo = CandAt(k).repo
           /\ CandAt(k)' = CandAt(k) \/ CandAt(k)'.state = "pending"
<1>1. CandAt(k) # NoCandidate => CandAt(k) \in Candidate
  BY CandAtType DEF Types
<1>2. CASE k[1] = t /\ k \in Current /\ CandAt(k).rule < rule
  <2> DEFINE accepted == k[2] \in Promoted[rule, topic[t]]
             new == [CandAt(k) EXCEPT !.promoted = accepted, !.rule = rule,
                                      !.state = "pending"]
  <2>1. CandAt(k)' = new
    BY <1>2, ReclassifyRows DEF Types
  <2>2. accepted \in BOOLEAN /\ rule \in Rules
    BY DEF Types, TypeOK
  <2> HIDE DEF accepted
  <2>3. new \in Candidate /\ new.repo = CandAt(k).repo /\ new.state = "pending"
    BY <1>1, <1>2, <2>2 DEF Candidate, Current
  <2> HIDE DEF new
  <2> QED BY <2>1, <2>3, CandidateFields
<1>3. CASE ~(k[1] = t /\ k \in Current /\ CandAt(k).rule < rule)
  <2>1. CandAt(k)' = CandAt(k)
    BY <1>3, ReclassifyRows DEF Types
  <2> QED BY <2>1
<1> QED BY <1>2, <1>3

LEMMA PublishedRow ==
    ASSUME Types, QueueOk, NEW item \in sync.queue, NEW x \in Repos,
           NEW f \in Facts, Publish(item, x, f)
    PROVE  /\ item.at \in Slots
           /\ CandAt(item.at)' # NoCandidate
           /\ CandAt(item.at)'.repo = x /\ CandAt(item.at)'.state = "published"
           /\ \A k \in Slots : k # item.at => CandAt(k)' = CandAt(k)
<1>1. /\ item.at \in Slots /\ CandAt(item.at) \in Candidate
      /\ CandAt(item.at)' = [CandAt(item.at) EXCEPT !.state = "published", !.repo = x]
  BY ItemFields, PublishedRows
<1>2. /\ CandAt(item.at)' \in Candidate
      /\ CandAt(item.at)'.repo = x /\ CandAt(item.at)'.state = "published"
  BY <1>1 DEF Candidate
<1> QED BY <1>1, <1>2, CandidateFields, PublishedRows

LEMMA LinkedVerdict ==
    ASSUME Types, QueueOk, Linked, NEW item \in sync.queue,
           \/ SkipUnpromoted(item) \/ SkipPrivate(item) \/ Unavailable(item)
           \/ \E x \in Repos, f \in Facts : Publish(item, x, f)
           \/ \E x \in Repos : RevokePrivateLinuxDoRepository(item, x)
    PROVE  Linked'
<1>1. ASSUME ApplySkipped(item)
      PROVE  Linked'
  <2> SUFFICES ASSUME NEW l \in link' PROVE \E k \in Slots : Stands(k, l)'
    BY DEF Linked
  <2>1. l \in link /\ l # <<CandAt(item.at).repo, item.at[1]>> /\ l = <<l[1], l[2]>>
    BY <1>1 DEF ApplySkipped, Types, TypeOK
  <2>2. PICK k \in Slots : Stands(k, l)
    BY <2>1 DEF Linked
  <2>3. k # item.at
    BY <2>1, <2>2 DEF Stands
  <2>4. CandAt(k)' = CandAt(k)
    BY <1>1, <2>3, SkippedRows
  <2> QED BY <2>2, <2>4 DEF Stands
<1>2. CASE SkipUnpromoted(item) \/ SkipPrivate(item)
  BY <1>1, <1>2 DEF SkipUnpromoted, SkipPrivate
<1>3. CASE Unavailable(item)
  BY <1>3 DEF Unavailable, tables, Linked, Stands, CandAt
<1>4. ASSUME NEW x \in Repos, NEW f \in Facts, Publish(item, x, f)
      PROVE  Linked'
  <2> SUFFICES ASSUME NEW l \in link' PROVE \E k \in Slots : Stands(k, l)'
    BY DEF Linked
  <2>1. CASE l = <<x, item.at[1]>>
    <3>1. l[1] = x /\ l[2] = item.at[1] /\ "published" # "skipped"
      BY <2>1
    <3>2. Stands(item.at, l)'
      BY <1>4, <3>1, PublishedRow DEF Stands
    <3> QED BY <1>4, <3>2, PublishedRow
  <2>2. CASE l # <<x, item.at[1]>>
    <3>1. /\ l \in link /\ l = <<l[1], l[2]>>
          /\ l # <<CandAt(item.at).repo, item.at[1]>>
      <4> DEFINE former == <<CandAt(item.at).repo, item.at[1]>>
                 new == <<x, item.at[1]>>
      <4>1. link' = (IF CandAt(item.at).repo = x THEN link ELSE link \ {former}) \cup {new}
        BY <1>4 DEF Publish
      <4>2. CandAt(item.at).repo = x => former = new
        OBVIOUS
      <4>3. l \in link /\ l # former
        <5> HIDE DEF former, new
        <5> QED BY <2>2, <4>1, <4>2 DEF new
      <4> QED BY <4>3 DEF Types, TypeOK
    <3>2. PICK k \in Slots : Stands(k, l)
      BY <3>1 DEF Linked
    <3>3. k # item.at
      BY <3>1, <3>2 DEF Stands
    <3>4. CandAt(k)' = CandAt(k)
      BY <1>4, <3>3, PublishedRow
    <3> QED BY <3>2, <3>4 DEF Stands
  <2> QED BY <2>1, <2>2
<1>5. ASSUME NEW x \in Repos, RevokePrivateLinuxDoRepository(item, x)
      PROVE  Linked'
  <2> SUFFICES ASSUME NEW l \in link' PROVE \E k \in Slots : Stands(k, l)'
    BY DEF Linked
  <2>1. l \in link /\ l[1] # x
    BY <1>5 DEF RevokePrivateLinuxDoRepository
  <2>2. PICK k \in Slots : Stands(k, l)
    BY <2>1 DEF Linked
  <2>3. CandAt(k)' = CandAt(k)
    BY <1>5, <2>1, <2>2, WithdrawnRows DEF Stands
  <2> QED BY <2>2, <2>3 DEF Stands
<1> QED BY <1>2, <1>3, <1>4, <1>5

LEMMA LinkedKept ==
    ASSUME Linked, UNCHANGED <<link, cand>>
    PROVE  Linked'
  BY DEF Linked, Stands, CandAt

LEMMA LinkedStays ==
    ASSUME Linked, UNCHANGED link,
           \A k \in Slots :
               /\ CandAt(k) # NoCandidate =>
                      CandAt(k)' # NoCandidate /\ CandAt(k)'.repo = CandAt(k).repo
               /\ CandAt(k)' = CandAt(k) \/ CandAt(k)'.state = "pending"
    PROVE  Linked'
<1> SUFFICES ASSUME NEW l \in link' PROVE \E k \in Slots : Stands(k, l)'
  BY DEF Linked
<1>1. PICK k \in Slots : Stands(k, l)
  BY DEF Linked
<1>2. /\ CandAt(k)' # NoCandidate /\ CandAt(k)'.repo = CandAt(k).repo
      /\ CandAt(k)'.state # "skipped"
  BY <1>1 DEF Stands
<1> QED BY <1>1, <1>2 DEF Stands

LEMMA LinkedStep ==
    ASSUME Types, QueueOk, Linked, [Next]_vars
    PROVE  Linked'
<1>1. CASE SyncStep
  <2>1. ASSUME NEW seen \in SUBSET Topics, NEW post \in [seen -> Contents],
               ObserveLinuxDo(seen, post)
        PROVE  Linked'
    <3>1. UNCHANGED link
      BY <2>1 DEF ObserveLinuxDo
    <3> QED BY <2>1, <3>1, ObservedStays, LinkedStays
  <2>2. ASSUME NEW t \in Topics, Reclassify(t)
        PROVE  Linked'
    <3>1. UNCHANGED link
      BY <2>2 DEF Reclassify
    <3> QED BY <2>2, <3>1, ReclassifiedStays, LinkedStays
  <2>3. CASE \E item \in sync.queue :
                 \/ SkipUnpromoted(item) \/ SkipPrivate(item) \/ Unavailable(item)
                 \/ \E x \in Repos, f \in Facts : Publish(item, x, f)
                 \/ \E x \in Repos : RevokePrivateLinuxDoRepository(item, x)
    BY <2>3, LinkedVerdict
  <2>4. CASE FetchUnchanged \/ ReadStale \/ Select \/ SyncFails \/ QueueDone \/ Finish
    BY <2>4, LinkedKept
       DEF FetchUnchanged, ReadStale, Select, SyncFails, QueueDone, Finish, tables
  <2> QED BY <1>1, <2>1, <2>2, <2>3, <2>4 DEF SyncStep
<1>2. CASE BeginSync \/ Expire \/ StoreFacts \/ (\E r \in Readers : BeginBuild(r) \/ EndBuild(r))
  BY <1>2, LinkedKept DEF BeginSync, Expire, StoreFacts, BeginBuild, EndBuild, tables
<1>3. CASE Restart
  BY <1>3, LinkedKept DEF Restart, tables
<1>4. CASE UNCHANGED vars
  BY <1>4, LinkedKept DEF vars, tables
<1> QED BY <1>1, <1>2, <1>3, <1>4 DEF Next

\* A repository is public through a topic only while a candidate of that topic
\* stands for it and is not skipped (store/linuxdo.go:200).
THEOREM LinksCorrect == Spec => []LinksHaveCandidates
<1>1. Init => Linked
  BY DEF Init, Linked
<1>2. Invariant /\ Linked /\ [Next]_vars => Linked'
  BY LinkedStep DEF Invariant
<1>3. Invariant /\ Linked => LinksHaveCandidates
  <2> SUFFICES ASSUME Linked, NEW l \in link
               PROVE  \E n \in Names : /\ cand[l[2]][n] # NoCandidate
                                       /\ cand[l[2]][n].repo = l[1]
                                       /\ cand[l[2]][n].state # "skipped"
    BY DEF LinksHaveCandidates
  <2>1. PICK k \in Slots : Stands(k, l)
    BY DEF Linked
  <2>2. k[2] \in Names /\ CandAt(k) = cand[l[2]][k[2]]
    BY <2>1, SlotParts DEF Stands, CandAt
  <2> QED BY <2>1, <2>2 DEF Stands
<1> QED BY InvariantHolds, <1>1, <1>2, <1>3, PTL DEF Spec

-----------------------------------------------------------------------------
(* What became private.                                                      *)

LEMMA WithdrawnKept ==
    ASSUME PrivateIsWithdrawn, UNCHANGED <<link, private>>,
           \A k \in Slots : CandAt(k)' = CandAt(k) \/ CandAt(k)'.state = "pending"
    PROVE  PrivateIsWithdrawn'
<1> SUFFICES ASSUME NEW x \in private
             PROVE  /\ \A l \in link : l[1] # x
                    /\ \A k \in Slots : CandAt(k)' # NoCandidate /\ CandAt(k)'.repo = x
                                          => CandAt(k)'.state # "published"
  BY DEF PrivateIsWithdrawn
<1>1. \A l \in link : l[1] # x
  BY DEF PrivateIsWithdrawn
<1>2. ASSUME NEW k \in Slots, CandAt(k)' # NoCandidate, CandAt(k)'.repo = x
      PROVE  CandAt(k)'.state # "published"
  <2>1. CASE CandAt(k)' = CandAt(k)
    BY <1>2, <2>1 DEF PrivateIsWithdrawn
  <2>2. CASE CandAt(k)'.state = "pending"
    BY <2>2
  <2> QED BY <2>1, <2>2
<1> QED BY <1>1, <1>2

LEMMA WithdrawnVerdict ==
    ASSUME Types, QueueOk, PrivateIsWithdrawn, NEW item \in sync.queue,
           \/ SkipUnpromoted(item) \/ SkipPrivate(item) \/ Unavailable(item)
           \/ \E x \in Repos, f \in Facts : Publish(item, x, f)
           \/ \E x \in Repos : RevokePrivateLinuxDoRepository(item, x)
    PROVE  PrivateIsWithdrawn'
<1>1. ASSUME ApplySkipped(item)
      PROVE  PrivateIsWithdrawn'
  <2>1. link' \subseteq link /\ private' = private
    BY <1>1 DEF ApplySkipped
  <2> SUFFICES ASSUME NEW x \in private, NEW k \in Slots, CandAt(k)' # NoCandidate,
                      CandAt(k)'.repo = x
               PROVE  CandAt(k)'.state # "published"
    BY <2>1 DEF PrivateIsWithdrawn
  <2>2. CASE k = item.at
    <3>1. CandAt(k) \in Candidate /\ CandAt(k)' = [CandAt(k) EXCEPT !.state = "skipped"]
      BY <1>1, <2>2, ItemFields, SkippedRows
    <3>2. CandAt(k)'.state = "skipped"
      BY <3>1, SkippedKeeps
    <3> QED BY <3>2
  <2>3. CASE k # item.at
    <3>1. CandAt(k)' = CandAt(k)
      BY <1>1, <2>3, SkippedRows
    <3> QED BY <3>1 DEF PrivateIsWithdrawn
  <2> QED BY <2>2, <2>3
<1>2. CASE SkipUnpromoted(item) \/ SkipPrivate(item)
  BY <1>1, <1>2 DEF SkipUnpromoted, SkipPrivate
<1>3. CASE Unavailable(item)
  <2>1. UNCHANGED <<link, private>> /\ \A k \in Slots : CandAt(k)' = CandAt(k)
    BY <1>3 DEF Unavailable, tables, CandAt
  <2> QED BY <2>1, WithdrawnKept
<1>4. ASSUME NEW x \in Repos, NEW f \in Facts, Publish(item, x, f)
      PROVE  PrivateIsWithdrawn'
  <2> SUFFICES ASSUME NEW y \in private'
               PROVE  /\ \A l \in link' : l[1] # y
                      /\ \A k \in Slots : CandAt(k)' # NoCandidate /\ CandAt(k)'.repo = y
                                            => CandAt(k)'.state # "published"
    BY DEF PrivateIsWithdrawn
  <2>1. y \in private /\ y # x
    BY <1>4 DEF Publish
  <2>2. ASSUME NEW l \in link' PROVE l[1] # y
    <3>1. l \in link \/ l = <<x, item.at[1]>>
      BY <1>4 DEF Publish
    <3> QED BY <2>1, <3>1 DEF PrivateIsWithdrawn
  <2>3. ASSUME NEW k \in Slots, CandAt(k)' # NoCandidate, CandAt(k)'.repo = y
        PROVE  CandAt(k)'.state # "published"
    <3>1. CASE k = item.at
      <4>1. CandAt(k)'.repo = x
        <5>1. CandAt(k)' = CandAt(item.at)'
          BY <3>1 DEF CandAt
        <5> QED BY <1>4, <5>1, PublishedRow
      <4> QED BY <2>1, <2>3, <4>1
    <3>2. CASE k # item.at
      <4>1. CandAt(k)' = CandAt(k)
        BY <1>4, <3>2, PublishedRow
      <4> QED BY <2>1, <2>3, <4>1 DEF PrivateIsWithdrawn
    <3> QED BY <3>1, <3>2
  <2> QED BY <2>2, <2>3
<1>5. ASSUME NEW x \in Repos, RevokePrivateLinuxDoRepository(item, x)
      PROVE  PrivateIsWithdrawn'
  <2> SUFFICES ASSUME NEW y \in private'
               PROVE  /\ \A l \in link' : l[1] # y
                      /\ \A k \in Slots : CandAt(k)' # NoCandidate /\ CandAt(k)'.repo = y
                                            => CandAt(k)'.state # "published"
    BY DEF PrivateIsWithdrawn
  <2>1. /\ y \in private \/ y = x
        /\ \A l \in link' : l \in link /\ l[1] # x
    BY <1>5 DEF RevokePrivateLinuxDoRepository
  <2>2. \A l \in link' : l[1] # y
    BY <2>1 DEF PrivateIsWithdrawn
  <2>3. ASSUME NEW k \in Slots, CandAt(k)' # NoCandidate, CandAt(k)'.repo = y
        PROVE  CandAt(k)'.state # "published"
    <3>1. CASE CandAt(k) # NoCandidate /\ CandAt(k).repo = x
      <4>1. CandAt(k) \in Candidate /\ CandAt(k)' = [CandAt(k) EXCEPT !.state = "skipped"]
        BY <1>5, <3>1, CandAtType, WithdrawnRows DEF Types
      <4>2. CandAt(k)'.state = "skipped"
        BY <4>1, SkippedKeeps
      <4> QED BY <4>2
    <3>2. CASE ~(CandAt(k) # NoCandidate /\ CandAt(k).repo = x)
      <4>1. CandAt(k)' = CandAt(k)
        BY <1>5, <3>2, WithdrawnRows
      <4>2. y \in private
        BY <2>1, <2>3, <3>2, <4>1
      <4> QED BY <2>3, <4>1, <4>2 DEF PrivateIsWithdrawn
    <3> QED BY <3>1, <3>2
  <2> QED BY <2>2, <2>3
<1> QED BY <1>2, <1>3, <1>4, <1>5

LEMMA WithdrawnStep ==
    ASSUME Types, QueueOk, PrivateIsWithdrawn, [Next]_vars
    PROVE  PrivateIsWithdrawn'
<1>1. CASE SyncStep
  <2>1. ASSUME NEW seen \in SUBSET Topics, NEW post \in [seen -> Contents],
               ObserveLinuxDo(seen, post)
        PROVE  PrivateIsWithdrawn'
    <3>1. UNCHANGED <<link, private>>
      BY <2>1 DEF ObserveLinuxDo
    <3> QED BY <2>1, <3>1, ObservedStays, WithdrawnKept
  <2>2. ASSUME NEW t \in Topics, Reclassify(t)
        PROVE  PrivateIsWithdrawn'
    <3>1. UNCHANGED <<link, private>>
      BY <2>2 DEF Reclassify
    <3> QED BY <2>2, <3>1, ReclassifiedStays, WithdrawnKept
  <2>3. CASE \E item \in sync.queue :
                 \/ SkipUnpromoted(item) \/ SkipPrivate(item) \/ Unavailable(item)
                 \/ \E x \in Repos, f \in Facts : Publish(item, x, f)
                 \/ \E x \in Repos : RevokePrivateLinuxDoRepository(item, x)
    BY <2>3, WithdrawnVerdict
  <2>4. CASE FetchUnchanged \/ ReadStale \/ Select \/ SyncFails \/ QueueDone \/ Finish
    <3>1. UNCHANGED <<link, private>> /\ \A k \in Slots : CandAt(k)' = CandAt(k)
      BY <2>4 DEF FetchUnchanged, ReadStale, Select, SyncFails, QueueDone, Finish, tables,
         CandAt
    <3> QED BY <3>1, WithdrawnKept
  <2> QED BY <1>1, <2>1, <2>2, <2>3, <2>4 DEF SyncStep
<1>2. CASE \/ BeginSync \/ Expire \/ StoreFacts \/ (\E r \in Readers : BeginBuild(r) \/ EndBuild(r))
           \/ Restart \/ UNCHANGED vars
  <2>1. UNCHANGED <<link, private>> /\ \A k \in Slots : CandAt(k)' = CandAt(k)
    BY <1>2 DEF BeginSync, Expire, StoreFacts, BeginBuild, EndBuild, Restart, vars, tables, CandAt
  <2> QED BY <2>1, WithdrawnKept
<1> QED BY <1>1, <1>2 DEF Next

\* A repository GitHub last called private is public through no topic and no
\* name (store/linuxdo.go:227).
THEOREM WithdrawnCorrect == Spec => []PrivateIsWithdrawn
<1>1. Init => PrivateIsWithdrawn
  BY DEF Init, PrivateIsWithdrawn
<1>2. Invariant /\ PrivateIsWithdrawn /\ [Next]_vars => PrivateIsWithdrawn'
  BY WithdrawnStep DEF Invariant
<1> QED BY InvariantHolds, <1>1, <1>2, PTL DEF Spec

-----------------------------------------------------------------------------
(* Readers.                                                                  *)

LEMMA NoReaderShape ==
    /\ NoReader \in [pc : {"idle", "build"}, current : BOOLEAN, got : Responses]
    /\ NoReader.current = FALSE
  BY DEF NoReader, Responses

LEMMA PublicType == ASSUME Types PROVE Public \in Responses
<1> DEFINE set == {l[2] : l \in link}
           titles == [t \in set |-> Title[topic[t]]]
<1>1. link \in SUBSET (Repos \X Topics) /\ set \in SUBSET Topics
  BY DEF Types, TypeOK
<1>2. \A t \in set : Title[topic[t]] \in Titles
  BY <1>1 DEF Titles, Types, TypeOK
<1>3. titles \in [set -> Titles]
  BY <1>2
<1>4. titles \in UNION {[s -> Titles] : s \in SUBSET Topics}
  <2> HIDE DEF set, titles
  <2> QED BY <1>1, <1>3
<1>5. Public = [link |-> link, title |-> titles]
  BY DEF Public
<1> HIDE DEF titles
<1> QED BY <1>1, <1>4, <1>5 DEF Responses

LEMMA ReadersStep ==
    ASSUME Types, ReadersOk, [Next]_vars
    PROVE  ReadersOk'
<1>1. CASE BeginSync \/ (SyncStep /\ ~Finish)
  <2>1. sync'.pc # "idle"
    <3>1. CASE BeginSync
      BY <3>1 DEF BeginSync, Idle
    <3>2. CASE \E item \in sync.queue :
                   \/ SkipUnpromoted(item) \/ SkipPrivate(item) \/ Unavailable(item)
                   \/ \E x \in Repos, f \in Facts : Publish(item, x, f)
                   \/ \E x \in Repos : RevokePrivateLinuxDoRepository(item, x)
      <4>1. PICK item \in sync.queue :
                \/ SkipUnpromoted(item) \/ SkipPrivate(item) \/ Unavailable(item)
                \/ \E x \in Repos, f \in Facts : Publish(item, x, f)
                \/ \E x \in Repos : RevokePrivateLinuxDoRepository(item, x)
        BY <3>2
      <4>2. CASE \/ SkipUnpromoted(item) \/ SkipPrivate(item)
                 \/ \E x \in Repos, f \in Facts : Publish(item, x, f)
        <5>1. Done(item)
          BY <4>2 DEF SkipUnpromoted, SkipPrivate, Publish, ApplySkipped
        <5> QED BY <5>1, DoneQueue
      <4>3. CASE Unavailable(item)
        BY <4>3 DEF Unavailable, First, Types, SyncState
      <4> QED BY <4>1, <4>2, <4>3, RevokeQueue
    <3>3. CASE \/ FetchUnchanged
               \/ \E seen \in SUBSET Topics : \E post \in [seen -> Contents] :
                      ObserveLinuxDo(seen, post)
               \/ ReadStale \/ (\E t \in Topics : Reclassify(t))
      BY <3>3 DEF FetchUnchanged, ObserveLinuxDo, ReadStale, Reclassify, Types, SyncState
    <3>4. CASE Select
      BY <3>4 DEF Select, Types, SyncState
    <3>5. CASE SyncFails \/ QueueDone
      BY <3>5 DEF SyncFails, QueueDone, Idle, Types, SyncState
    <3> QED BY <1>1, <3>1, <3>2, <3>3, <3>4, <3>5 DEF SyncStep
  <2>2. UNCHANGED reader
    BY <1>1 DEF BeginSync, SyncStep, FetchUnchanged, ObserveLinuxDo, ReadStale, Reclassify,
       Select, SkipUnpromoted, SkipPrivate, ApplySkipped, Publish, Unavailable,
       RevokePrivateLinuxDoRepository, SyncFails, QueueDone
  <2> QED BY <2>1, <2>2 DEF ReadersOk, QuietCacheIsCurrent
<1>2. CASE Finish
  <2>1. /\ cached' = NoSnapshot
        /\ reader' = [r \in Readers |-> [reader[r] EXCEPT !.current = FALSE]]
    BY <1>2 DEF Finish
  <2>2. reader' \in [Readers -> [pc : {"idle", "build"}, current : BOOLEAN, got : Responses]]
    BY <2>1 DEF ReadersOk
  <2>3. \A r \in Readers : reader'[r].current = FALSE
    BY <2>1 DEF ReadersOk
  <2> QED BY <2>1, <2>2, <2>3 DEF ReadersOk, QuietCacheIsCurrent
<1>3. CASE Restart
  BY <1>3, NoReaderShape DEF Restart, ReadersOk, QuietCacheIsCurrent
<1>4. CASE Expire \/ StoreFacts \/ UNCHANGED vars
  BY <1>4 DEF Expire, StoreFacts, vars, tables, ReadersOk, QuietCacheIsCurrent, Public
<1>5. ASSUME NEW r \in Readers, BeginBuild(r)
      PROVE  ReadersOk'
  <2>1. /\ UNCHANGED <<link, topic, sync, cached>>
        /\ reader' = [reader EXCEPT ![r] = [pc |-> "build", current |-> TRUE,
                                            got |-> Public]]
    BY <1>5 DEF BeginBuild, tables
  <2>2. Public' = Public
    BY <2>1 DEF Public
  <2> DEFINE new == [pc |-> "build", current |-> TRUE, got |-> Public]
  <2>3. new \in [pc : {"idle", "build"}, current : BOOLEAN, got : Responses]
    BY PublicType
  <2>4. new.got = Public
    OBVIOUS
  <2>5. reader' = [reader EXCEPT ![r] = new]
    BY <2>1
  <2> HIDE DEF new
  <2>6. reader' \in [Readers -> [pc : {"idle", "build"}, current : BOOLEAN, got : Responses]]
    BY <2>3, <2>5 DEF ReadersOk
  <2>7. \A o \in Readers : reader'[o] = IF o = r THEN new ELSE reader[o]
    BY <2>5 DEF ReadersOk
  <2> QED BY <2>1, <2>2, <2>4, <2>6, <2>7 DEF ReadersOk, QuietCacheIsCurrent
<1>6. ASSUME NEW r \in Readers, EndBuild(r)
      PROVE  ReadersOk'
  <2>1. /\ UNCHANGED <<link, topic, sync>>
        /\ reader' = [reader EXCEPT ![r] = NoReader]
        /\ cached' = IF reader[r].current THEN reader[r].got ELSE cached
    BY <1>6 DEF EndBuild, tables
  <2>2. Public' = Public
    BY <2>1 DEF Public
  <2>3. \A o \in Readers : reader'[o] = IF o = r THEN NoReader ELSE reader[o]
    BY <2>1 DEF ReadersOk
  <2>4. reader' \in [Readers -> [pc : {"idle", "build"}, current : BOOLEAN, got : Responses]]
    BY <2>1, NoReaderShape DEF ReadersOk
  <2> QED BY <2>1, <2>2, <2>3, <2>4, NoReaderShape DEF ReadersOk, QuietCacheIsCurrent
<1> QED BY <1>1, <1>2, <1>3, <1>4, <1>5, <1>6 DEF Next, SyncStep

\* Between two synchronisations readers get what the tables say
\* (handler/linuxdo.go:18).
THEOREM QuietCorrect == Spec => []QuietCacheIsCurrent
<1>1. Init => ReadersOk
  BY NoReaderShape DEF Init, ReadersOk, QuietCacheIsCurrent
<1>2. Invariant /\ ReadersOk /\ [Next]_vars => ReadersOk'
  BY ReadersStep DEF Invariant
<1>3. ReadersOk => QuietCacheIsCurrent
  BY DEF ReadersOk
<1> QED BY InvariantHolds, <1>1, <1>2, <1>3, PTL DEF Spec

-----------------------------------------------------------------------------
(* Revisions.                                                                *)

LEMMA PublicKept ==
    ASSUME Types, UNCHANGED link,
           \A t \in {l[2] : l \in link} : Title[topic'[t]] = Title[topic[t]]
    PROVE  Public' = Public
  BY DEF Public

LEMMA BumpRaises == ASSUME Types, Bump PROVE revision' > revision
<1>1. revision \in Nat
  BY Limits DEF Types, TypeOK
<1> QED BY <1>1 DEF Bump

LEMMA RevisionStep ==
    ASSUME Types, [Next]_vars, Public' # Public
    PROVE  revision' > revision
<1>1. CASE SyncStep
  <2>1. ASSUME NEW seen \in SUBSET Topics, NEW post \in [seen -> Contents],
               ObserveLinuxDo(seen, post)
        PROVE  revision' > revision
    <3>1. CASE \E l \in link : l[2] \in seen /\ Title[topic[l[2]]] # Title[post[l[2]]]
      BY <2>1, <3>1, BumpRaises DEF ObserveLinuxDo
    <3>2. CASE \A l \in link : l[2] \in seen => Title[topic[l[2]]] = Title[post[l[2]]]
      <4>1. UNCHANGED link /\ topic' = [t \in Topics |-> IF t \in seen THEN post[t]
                                                        ELSE topic[t]]
        BY <2>1 DEF ObserveLinuxDo
      <4>2. \A l \in link : l[2] \in Topics
        BY DEF Types, TypeOK
      <4>3. \A t \in {l[2] : l \in link} : Title[topic'[t]] = Title[topic[t]]
        BY <3>2, <4>1, <4>2
      <4> QED BY <4>1, <4>3, PublicKept
    <3> QED BY <3>1, <3>2
  <2>2. ASSUME NEW item, ApplySkipped(item)
        PROVE  revision' > revision
    <3> DEFINE l == <<CandAt(item.at).repo, item.at[1]>>
    <3>1. link' = link \ {l} /\ UNCHANGED topic
          /\ IF l \in link THEN Bump ELSE UNCHANGED revision
      BY <2>2 DEF ApplySkipped
    <3>2. CASE l \in link
      BY <3>1, <3>2, BumpRaises
    <3>3. CASE l \notin link
      <4>1. link' = link
        BY <3>1, <3>3
      <4> QED BY <3>1, <4>1 DEF Public
    <3> QED BY <3>2, <3>3
  <2>3. ASSUME NEW item, NEW x \in Repos, NEW f \in Facts, Publish(item, x, f)
        PROVE  revision' > revision
    BY <2>3, BumpRaises DEF Publish
  <2>4. ASSUME NEW item, NEW x \in Repos, RevokePrivateLinuxDoRepository(item, x)
        PROVE  revision' > revision
    <3> DEFINE gone == {l \in link : l[1] = x}
    <3>1. link' = link \ gone /\ UNCHANGED topic
          /\ IF gone = {} THEN UNCHANGED revision ELSE Bump
      BY <2>4 DEF RevokePrivateLinuxDoRepository
    <3>2. CASE gone # {}
      BY <3>1, <3>2, BumpRaises
    <3>3. CASE gone = {}
      <4>1. link' = link
        BY <3>1, <3>3
      <4> QED BY <3>1, <4>1 DEF Public
    <3> QED BY <3>2, <3>3
  <2>5. ASSUME UNCHANGED <<link, topic>>
        PROVE  FALSE
    BY <2>5 DEF Public
  <2>6. CASE \/ FetchUnchanged \/ ReadStale \/ (\E t \in Topics : Reclassify(t)) \/ Select
             \/ (\E item \in sync.queue : Unavailable(item))
             \/ SyncFails \/ QueueDone \/ Finish
    BY <2>5, <2>6 DEF FetchUnchanged, ReadStale, Reclassify, Select, Unavailable, SyncFails,
       QueueDone, Finish, tables
  <2>7. CASE \E item \in sync.queue : SkipUnpromoted(item) \/ SkipPrivate(item)
    BY <2>2, <2>7 DEF SkipUnpromoted, SkipPrivate
  <2> QED BY <1>1, <2>1, <2>3, <2>4, <2>6, <2>7 DEF SyncStep
<1>2. CASE \/ BeginSync \/ Expire \/ StoreFacts \/ (\E r \in Readers : BeginBuild(r) \/ EndBuild(r))
           \/ Restart \/ UNCHANGED vars
  BY <1>2 DEF BeginSync, Expire, StoreFacts, BeginBuild, EndBuild, Restart, vars, tables, Public
<1> QED BY <1>1, <1>2 DEF Next

\* Every step that changes the published relations or the titles shown with
\* them, whichever of publishing, withdrawing and renaming it is and wherever a
\* round was cut off, has a new revision (store/linuxdo.go:41, :199-209, :246).
\* The facts of the repositories are shown too and are not part of this: they
\* change without a revision.
THEOREM RevisionsMove == Spec => RevisionMoves
<1>1. Invariant /\ [Next]_vars => [Public' # Public => revision' > revision]_vars
  BY RevisionStep DEF Invariant
<1> QED BY InvariantHolds, <1>1, PTL DEF Spec, RevisionMoves

=============================================================================
