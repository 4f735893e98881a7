------------------------- MODULE StarHistoryProofs -------------------------
(***************************************************************************)
(* Theorems about StarHistory, for every set of repositories, requests and *)
(* workers, every configuration NewService accepts and every bound.        *)
(***************************************************************************)
EXTENDS StarHistory, FiniteSetTheorems, TLAPS

-----------------------------------------------------------------------------
(* Type correctness *)

\* What a worker holds outside idle and exited: a task, and the instants its
\* budget day and its final write are dated with.
LEMMA WorkerFields ==
    ASSUME TypeOK, NEW w \in Workers
    PROVE  /\ worker[w].pc \notin {"idle", "exited"} =>
                 worker[w].task \in Task /\ worker[w].startedAt \in Times
           /\ worker[w].pc \in {"fail", "save"} => worker[w].at \in Times
  BY DEF TypeOK, WorkerState

\* What a request holds: the repository it verifies, or a task to claim.
LEMMA HandlerFields ==
    ASSUME TypeOK, NEW h \in Handlers
    PROVE  /\ handler[h].pc = "verify" => handler[h].repo \in Repos
           /\ handler[h].pc \in {"claim", "send", "undo"} => handler[h].task \in Task
  BY DEF TypeOK, HandlerState

\* The initial and the reset values have their types.
LEMMA ResetValues ==
    /\ IdleHandler \in HandlerState
    /\ IdleWorker \in WorkerState
    /\ NoRow \in Row
    /\ 0 \in Times
  BY ConfigAssumption DEF IdleHandler, HandlerState, IdleWorker, WorkerState, NoRow, Row, Times

LEMMA FailedRowType == \A at \in Times : FailedRow(at) \in Row
  BY ConfigAssumption DEF FailedRow, Row, Times

LEMMA TypeInit == Init => TypeOK
  <1> SUFFICES ASSUME Init PROVE TypeOK
    OBVIOUS
  <1> USE DEF Init
  <1>1. now \in Times /\ faults \in 0..MaxFaults
    BY ResetValues, ConfigAssumption
  <1>2. cache \in [Repos -> Row] /\ queue \in Seq(Task)
    BY ResetValues
  <1>3. reserved \in [Days -> Nat] /\ queried \in [Days -> Nat]
    OBVIOUS
  <1>4. handler \in [Handlers -> HandlerState] /\ worker \in [Workers -> WorkerState]
    BY ResetValues
  <1>5. closed \in BOOLEAN /\ overrun \subseteq Repos
    OBVIOUS
  <1>6. QED
    BY <1>1, <1>2, <1>3, <1>4, <1>5 DEF TypeOK

LEMMA OverrunType ==
    ASSUME TypeOK, NEW t \in Task, Writes(t) \/ Reclaims(t.repo)
    PROVE  overrun' \subseteq Repos
  BY DEF TypeOK, Task, Writes, Reclaims

LEMMA TypeHandlerStep ==
    ASSUME TypeOK, NEW h \in Handlers, HandlerStep(h)
    PROVE  TypeOK'
  <1> USE HandlerFields, ConfigAssumption DEF TypeOK, Times
  <1>1. CASE BeginEnqueue(h)
    BY <1>1 DEF BeginEnqueue, persistent, HandlerState, Task
  <1>2. CASE AbandonRequest(h)
    BY <1>2 DEF AbandonRequest, persistent, HandlerState, IdleHandler
  <1>3. CASE Claim(h)
    <2> DEFINE t == handler[h].task
    <2>1. t \in Task
      BY <1>3 DEF Claim
    <2>2. t.repo \in Repos /\ t.claimedAt + BuildTimeout \in Nat
      BY <2>1 DEF Task
    <2>3. cache' \in [Repos -> Row]
      BY <1>3, <2>2, ZenonT(40) DEF Claim, Row
    <2>4. handler'[h] = [pc |-> "send", task |-> t] /\ handler'[h] \in HandlerState
      BY <1>3, <2>1 DEF Claim, HandlerState
    <2>5. handler' \in [Handlers -> HandlerState]
      BY <1>3, <2>4 DEF Claim
    <2>6. overrun' \subseteq Repos
      BY <1>3, <2>1, OverrunType DEF Claim
    <2>7. QED
      BY <1>3, <2>3, <2>5, <2>6 DEF Claim
  <1>4. CASE ClaimRefused(h)
    BY <1>4 DEF ClaimRefused, persistent, HandlerState, IdleHandler
  <1>5. CASE Send(h)
    <2>1. handler[h].task \in Task
      BY <1>5 DEF Send
    <2>2. CASE queue' = Append(queue, handler[h].task) /\ handler' = [handler EXCEPT ![h] = IdleHandler]
      BY <1>5, <2>1, <2>2, ResetValues, SMTT(20) DEF Send, persistent
    <2>3. CASE handler' = [handler EXCEPT ![h].pc = "undo"] /\ UNCHANGED queue
      <3>1. [handler[h] EXCEPT !.pc = "undo"] \in HandlerState
        BY <1>5, <2>1 DEF Send, HandlerState
      <3>2. handler' \in [Handlers -> HandlerState]
        BY <2>3, <3>1
      <3>3. QED
        BY <1>5, <2>3, <3>2 DEF Send, persistent
    <2>4. QED
      BY <1>5, <2>2, <2>3 DEF Send
  <1>6. CASE UndoClaim(h)
    <2>1. overrun' \subseteq Repos
      BY <1>6, OverrunType DEF UndoClaim
    <2>2. QED
      BY <1>6, <2>1, ResetValues, FailedRowType DEF UndoClaim, Task
  <1>7. CASE UndoLost(h)
    BY <1>7 DEF UndoLost, persistent, HandlerState, IdleHandler
  <1>8. QED
    BY <1>1, <1>2, <1>3, <1>4, <1>5, <1>6, <1>7 DEF HandlerStep

LEMMA TypeWorkerStep ==
    ASSUME TypeOK, NEW w \in Workers, WorkerStep(w)
    PROVE  TypeOK'
  <1> USE WorkerFields, ConfigAssumption DEF TypeOK, Times
  <1>1. CASE Dequeue(w)
    <2>1. Head(queue) \in Task /\ Tail(queue) \in Seq(Task)
      BY <1>1 DEF Dequeue
    <2>2. [pc |-> "reserve", task |-> Head(queue), startedAt |-> now] \in WorkerState
      BY <2>1 DEF WorkerState
    <2>3. QED
      BY <1>1, <2>1, <2>2 DEF Dequeue, persistent
  <1>2. CASE WorkerExit(w)
    BY <1>2 DEF WorkerExit, persistent, WorkerState
  <1>3. CASE Reserve(w)
    <2>1. [worker[w] EXCEPT !.pc = "ask"] \in WorkerState
      BY <1>3 DEF Reserve, WorkerState
    <2>2. worker' \in [Workers -> WorkerState]
      BY <1>3, <2>1 DEF Reserve
    <2>3. DayOf(worker[w].startedAt) \in Days
      BY <1>3 DEF Reserve, Days
    <2>4. reserved' \in [Days -> Nat]
      <3>1. PICK d \in Days : reserved' = [reserved EXCEPT ![d] = @ + MaximumBytesBilled]
        BY <1>3, <2>3 DEF Reserve
      <3>2. reserved \in [Days -> Nat] /\ MaximumBytesBilled \in Nat
        OBVIOUS
      <3>3. QED
        BY ONLY <3>1, <3>2
    <2>5. QED
      BY <1>3, <2>2, <2>4 DEF Reserve
  <1>4. CASE ReserveRefused(w)
    BY <1>4 DEF ReserveRefused, TurnToFail, persistent, WorkerState
  <1>5. CASE StartQuery(w)
    <2>1. [worker[w] EXCEPT !.pc = "query"] \in WorkerState
      BY <1>5 DEF StartQuery, WorkerState
    <2>2. worker' \in [Workers -> WorkerState]
      BY <1>5, <2>1 DEF StartQuery
    <2>3. DayOf(worker[w].startedAt) \in Days
      BY <1>5 DEF StartQuery, Days
    <2>4. queried' \in [Days -> Nat]
      BY <1>5, <2>3, SMTT(20) DEF StartQuery
    <2>5. QED
      BY <1>5, <2>2, <2>4 DEF StartQuery, persistent
  <1>6. CASE QuerySucceeds(w)
    BY <1>6 DEF QuerySucceeds, persistent, WorkerState
  <1>7. CASE QueryFails(w)
    BY <1>7 DEF QueryFails, TurnToFail, persistent, WorkerState
  <1>8. CASE SaveReady(w)
    <2>1. [status |-> "ready", expiresAt |-> worker[w].at + CacheTTL,
           through |-> worker[w].startedAt] \in Row
      <3>1. worker[w].at \in Times /\ worker[w].startedAt \in Times
        BY <1>8 DEF SaveReady
      <3>2. worker[w].at + CacheTTL \in Nat
        BY <3>1
      <3>3. QED
        BY <3>1, <3>2 DEF Row
    <2>2. overrun' \subseteq Repos
      BY <1>8, OverrunType DEF SaveReady
    <2>3. QED
      BY <1>8, <2>1, <2>2, ResetValues DEF SaveReady
  <1>9. CASE SaveFailed(w)
    <2>1. overrun' \subseteq Repos
      BY <1>9, OverrunType DEF SaveFailed
    <2>2. QED
      BY <1>9, <2>1, ResetValues, FailedRowType DEF SaveFailed
  <1>10. CASE SaveLost(w)
    BY <1>10 DEF SaveLost, persistent, WorkerState, IdleWorker
  <1>11. QED
    BY <1>1, <1>2, <1>3, <1>4, <1>5, <1>6, <1>7, <1>8, <1>9, <1>10 DEF WorkerStep

LEMMA TypeNext == TypeOK /\ [Next]_vars => TypeOK'
  <1> SUFFICES ASSUME TypeOK, [Next]_vars PROVE TypeOK'
    OBVIOUS
  <1>1. CASE \E h \in Handlers, r \in Repos : LookupMiss(h, r)
    BY <1>1 DEF LookupMiss, TypeOK, persistent, HandlerState
  <1>2. CASE \E h \in Handlers : HandlerStep(h)
    BY <1>2, TypeHandlerStep
  <1>3. CASE \E w \in Workers : WorkerStep(w)
    BY <1>3, TypeWorkerStep
  <1>4. CASE Close
    BY <1>4 DEF Close, TypeOK, persistent
  <1>5. CASE Restart
    <2>1. faults' \in 0..MaxFaults /\ queue' \in Seq(Task)
      BY <1>5, ConfigAssumption DEF Restart, TypeOK
    <2>2. handler' \in [Handlers -> HandlerState] /\ worker' \in [Workers -> WorkerState]
      BY <1>5, ResetValues DEF Restart
    <2>3. QED
      BY <1>5, <2>1, <2>2 DEF Restart, TypeOK, persistent, Row, Task, Times
  <1>6. CASE Tick
    BY <1>6, ConfigAssumption DEF Tick, TypeOK, Times, persistent, volatile
  <1>7. CASE UNCHANGED vars
    BY <1>7 DEF vars, TypeOK
  <1>8. QED
    BY <1>1, <1>2, <1>3, <1>4, <1>5, <1>6, <1>7 DEF Next

\* Type correctness of the service's persistent and volatile state.
THEOREM TypeCorrect == Spec => []TypeOK
  BY TypeInit, TypeNext, PTL DEF Spec

-----------------------------------------------------------------------------
(* The daily budget *)

LEMMA AskingFinite ==
    \A d : IsFiniteSet(Asking(d)) /\ Cardinality(Asking(d)) \in Nat
  BY ConfigAssumption, FS_Subset, FS_CardinalityType DEF Asking

LEMMA AskingFiniteNext ==
    \A d : IsFiniteSet(Asking(d)') /\ Cardinality(Asking(d)') \in Nat
  BY ConfigAssumption, FS_Subset, FS_CardinalityType DEF Asking

\* Multiplication by the price of a query is monotone and distributes over the
\* next query; stated alone because it is the only nonlinear fact needed.
LEMMA Pricing ==
    \A a, b \in Nat :
        /\ a <= b => a * MaximumBytesBilled <= b * MaximumBytesBilled
        /\ (a + 1) * MaximumBytesBilled = a * MaximumBytesBilled + MaximumBytesBilled
        /\ a * MaximumBytesBilled \in Nat
  BY ConfigAssumption, SMT

\* A step that starts no query, reserves nothing and adds nobody to those who
\* hold an unspent reservation keeps the invariant.
LEMMA BudgetKept ==
    ASSUME TypeOK, BudgetInv, UNCHANGED <<reserved, queried>>,
           \A d \in Days : Asking(d)' \subseteq Asking(d)
    PROVE  BudgetInv'
  <1> SUFFICES ASSUME NEW d \in Days
               PROVE  /\ (queried[d] + Cardinality(Asking(d)')) * MaximumBytesBilled <= reserved[d]
                      /\ reserved[d] <= DailyMaximumBytes
    BY DEF BudgetInv, Days, DayOf, Times
  <1>1. Cardinality(Asking(d)') <= Cardinality(Asking(d))
    BY AskingFinite, FS_Subset
  <1>2. queried[d] \in Nat /\ reserved[d] \in Nat
    BY DEF TypeOK
  <1>3. queried[d] + Cardinality(Asking(d)') <= queried[d] + Cardinality(Asking(d))
    BY <1>1, <1>2, AskingFinite, AskingFiniteNext
  <1>4. (queried[d] + Cardinality(Asking(d)')) * MaximumBytesBilled
           <= (queried[d] + Cardinality(Asking(d))) * MaximumBytesBilled
    BY <1>2, <1>3, AskingFinite, AskingFiniteNext, Pricing
  <1> DEFINE before == (queried[d] + Cardinality(Asking(d))) * MaximumBytesBilled
             after  == (queried[d] + Cardinality(Asking(d)')) * MaximumBytesBilled
  <1>5. before \in Nat /\ after \in Nat
    BY <1>2, AskingFinite, AskingFiniteNext, Pricing
  <1>6. before <= reserved[d] /\ reserved[d] <= DailyMaximumBytes
    BY DEF BudgetInv
  <1>7. after <= before
    BY <1>4
  <1> HIDE DEF before, after
  <1>8. after <= reserved[d]
    BY <1>2, <1>5, <1>6, <1>7
  <1>9. QED
    BY <1>6, <1>8 DEF after

LEMMA BudgetReserve ==
    ASSUME TypeOK, BudgetInv, NEW w \in Workers, Reserve(w)
    PROVE  BudgetInv'
  <1> SUFFICES ASSUME NEW d \in Days
               PROVE  /\ (queried[d] + Cardinality(Asking(d)')) * MaximumBytesBilled <= reserved'[d]
                      /\ reserved'[d] <= DailyMaximumBytes
    BY DEF BudgetInv, Days, DayOf, Times, Reserve
  <1> DEFINE day == DayOf(worker[w].startedAt)
  <1>1. queried[d] \in Nat /\ reserved[d] \in Nat
    BY DEF TypeOK
  <1>2. CASE d = day
    <2>1. Asking(d)' = Asking(d) \cup {w} /\ w \notin Asking(d)
      BY <1>2 DEF Reserve, Asking, TypeOK
    <2>2. Cardinality(Asking(d)') = Cardinality(Asking(d)) + 1
      BY <2>1, AskingFinite, FS_AddElement
    <2>3. (queried[d] + Cardinality(Asking(d)')) * MaximumBytesBilled
            = (queried[d] + Cardinality(Asking(d))) * MaximumBytesBilled + MaximumBytesBilled
      BY <1>1, <2>2, AskingFinite, Pricing
    <2>4. (queried[d] + Cardinality(Asking(d))) * MaximumBytesBilled <= reserved[d]
      BY DEF BudgetInv
    <2>5. (queried[d] + Cardinality(Asking(d))) * MaximumBytesBilled \in Nat
      BY <1>1, AskingFinite, Pricing
    <2>6. reserved'[d] = reserved[d] + MaximumBytesBilled /\ reserved'[d] <= DailyMaximumBytes
      BY <1>2 DEF Reserve, TypeOK
    <2>7. QED
      BY <1>1, <2>3, <2>4, <2>5, <2>6, ConfigAssumption
  <1>3. CASE d # day
    <2>1. Asking(d)' = Asking(d)
      BY <1>3 DEF Reserve, Asking, TypeOK
    <2>2. reserved'[d] = reserved[d]
      BY <1>3 DEF Reserve, TypeOK
    <2>3. QED
      BY <2>1, <2>2 DEF BudgetInv
  <1>4. QED
    BY <1>2, <1>3

LEMMA BudgetStartQuery ==
    ASSUME TypeOK, BudgetInv, NEW w \in Workers, StartQuery(w)
    PROVE  BudgetInv'
  <1> SUFFICES ASSUME NEW d \in Days
               PROVE  /\ (queried'[d] + Cardinality(Asking(d)')) * MaximumBytesBilled <= reserved[d]
                      /\ reserved[d] <= DailyMaximumBytes
    BY DEF BudgetInv, Days, DayOf, Times, StartQuery, persistent
  <1> DEFINE day == DayOf(worker[w].startedAt)
  <1>1. queried[d] \in Nat
    BY DEF TypeOK
  <1>2. CASE d = day
    <2>1. Asking(d)' = Asking(d) \ {w} /\ w \in Asking(d)
      BY <1>2 DEF StartQuery, Asking, TypeOK
    <2>2. Cardinality(Asking(d)') = Cardinality(Asking(d)) - 1
      BY <2>1, AskingFinite, FS_RemoveElement
    <2>3. queried'[d] = queried[d] + 1
      BY <1>2 DEF StartQuery, TypeOK
    <2>4. queried'[d] + Cardinality(Asking(d)') = queried[d] + Cardinality(Asking(d))
      BY <1>1, <2>2, <2>3, AskingFinite
    <2>5. QED
      BY <2>4 DEF BudgetInv
  <1>3. CASE d # day
    <2>1. Asking(d)' = Asking(d)
      BY <1>3 DEF StartQuery, Asking, TypeOK
    <2>2. queried'[d] = queried[d]
      BY <1>3 DEF StartQuery, TypeOK
    <2>3. QED
      BY <2>1, <2>2 DEF BudgetInv
  <1>4. QED
    BY <1>2, <1>3

LEMMA BudgetWorkerStep ==
    ASSUME TypeOK, BudgetInv, NEW w \in Workers, WorkerStep(w)
    PROVE  BudgetInv'
  <1>1. CASE Reserve(w)
    BY <1>1, BudgetReserve
  <1>2. CASE StartQuery(w)
    BY <1>2, BudgetStartQuery
  <1>3. CASE Dequeue(w) \/ WorkerExit(w) \/ ReserveRefused(w) \/ QuerySucceeds(w)
             \/ QueryFails(w) \/ SaveReady(w) \/ SaveFailed(w) \/ SaveLost(w)
    <2>1. UNCHANGED <<reserved, queried>>
      BY <1>3 DEF Dequeue, WorkerExit, ReserveRefused, QuerySucceeds, QueryFails, SaveReady,
         SaveFailed, SaveLost, persistent
    <2>2. PICK s : s.pc # "ask" /\ worker' = [worker EXCEPT ![w] = s]
      BY <1>3 DEF Dequeue, WorkerExit, ReserveRefused, QuerySucceeds, QueryFails, SaveReady,
         SaveFailed, SaveLost, TurnToFail, IdleWorker
    <2>3. \A d \in Days : Asking(d)' \subseteq Asking(d)
      BY <2>2 DEF Asking, TypeOK
    <2>4. QED
      BY <2>1, <2>3, BudgetKept
  <1>4. QED
    BY <1>1, <1>2, <1>3 DEF WorkerStep

LEMMA BudgetNext == TypeOK /\ BudgetInv /\ [Next]_vars => BudgetInv'
  <1> SUFFICES ASSUME TypeOK, BudgetInv, [Next]_vars PROVE BudgetInv'
    OBVIOUS
  <1>1. CASE \E w \in Workers : WorkerStep(w)
    BY <1>1, BudgetWorkerStep
  <1>2. CASE Restart
    <2>1. UNCHANGED <<reserved, queried>>
      BY <1>2 DEF Restart, persistent
    <2>2. \A d \in Days : Asking(d)' \subseteq Asking(d)
      BY <1>2 DEF Restart, Asking, IdleWorker
    <2>3. QED
      BY <2>1, <2>2, BudgetKept
  <1>3. CASE \/ \E h \in Handlers : (\E r \in Repos : LookupMiss(h, r)) \/ HandlerStep(h)
             \/ Close \/ Tick \/ UNCHANGED vars
    <2>1. UNCHANGED <<reserved, queried, worker>>
      BY <1>3 DEF LookupMiss, HandlerStep, BeginEnqueue, AbandonRequest, Claim, ClaimRefused,
         Send, UndoClaim, UndoLost, Close, Tick, persistent, volatile, vars
    <2>2. \A d \in Days : Asking(d)' \subseteq Asking(d)
      BY <2>1 DEF Asking
    <2>3. QED
      BY <2>1, <2>2, BudgetKept
  <1>4. QED
    BY <1>1, <1>2, <1>3 DEF Next

LEMMA BudgetInit == Init => BudgetInv
  <1> SUFFICES ASSUME Init, NEW d \in Days
               PROVE  /\ (queried[d] + Cardinality(Asking(d))) * MaximumBytesBilled <= reserved[d]
                      /\ reserved[d] <= DailyMaximumBytes
    BY DEF BudgetInv
  <1>1. Asking(d) = {}
    BY DEF Init, Asking, IdleWorker
  <1>2. queried[d] = 0 /\ reserved[d] = 0 /\ Cardinality(Asking(d)) = 0
    BY <1>1, FS_EmptySet DEF Init
  <1>3. QED
    BY <1>2, ConfigAssumption

\* Whatever the number of workers, their interleaving, failures and restarts,
\* a day's queries never cost more than its reservations and these never exceed
\* the configured daily maximum.
THEOREM BudgetCorrect == Spec => []BudgetSafe
  <1>1. TypeOK /\ BudgetInv => BudgetSafe
    <2> SUFFICES ASSUME TypeOK, BudgetInv, NEW d \in Days
                 PROVE  /\ queried[d] * MaximumBytesBilled <= reserved[d]
                        /\ reserved[d] <= DailyMaximumBytes
      BY DEF BudgetSafe
    <2> DEFINE all == (queried[d] + Cardinality(Asking(d))) * MaximumBytesBilled
               sent == queried[d] * MaximumBytesBilled
    <2>1. queried[d] \in Nat /\ reserved[d] \in Nat
      BY DEF TypeOK
    <2>2. queried[d] <= queried[d] + Cardinality(Asking(d))
      BY <2>1, AskingFinite
    <2>3. sent <= all /\ sent \in Nat /\ all \in Nat
      BY <2>1, <2>2, AskingFinite, Pricing
    <2>4. all <= reserved[d] /\ reserved[d] <= DailyMaximumBytes
      BY DEF BudgetInv
    <2> HIDE DEF all, sent
    <2>5. sent <= reserved[d]
      BY <2>1, <2>3, <2>4
    <2>6. QED
      BY <2>4, <2>5 DEF sent
  <1>2. QED
    BY <1>1, BudgetInit, BudgetNext, TypeCorrect, PTL DEF Spec

-----------------------------------------------------------------------------
(* Where a claimed task is *)

HandlerHas(h, t) == handler[h].pc \in {"send", "undo"} /\ handler[h].task = t
WorkerHas(w, t) == worker[w].pc \notin {"idle", "exited"} /\ worker[w].task = t
QueueHas(i, t) == i \in DOMAIN queue /\ queue[i] = t

InFlight(t) == t \in TasksInFlight

LEMMA InFlightHas ==
    ASSUME NEW t
    PROVE  InFlight(t) <=>
               \/ \E h \in Handlers : HandlerHas(h, t)
               \/ \E w \in Workers : WorkerHas(w, t)
               \/ \E i \in DOMAIN queue : QueueHas(i, t)
  BY DEF InFlight, TasksInFlight, HandlerTasks, WorkerTasks, QueuedTasks, HandlerHas, WorkerHas,
     QueueHas

LEMMA InFlightHasNext ==
    ASSUME NEW t
    PROVE  t \in TasksInFlight' <=>
               \/ \E h \in Handlers : HandlerHas(h, t)'
               \/ \E w \in Workers : WorkerHas(w, t)'
               \/ \E i \in DOMAIN queue' : QueueHas(i, t)'
  BY DEF TasksInFlight, HandlerTasks, WorkerTasks, QueuedTasks, HandlerHas, WorkerHas, QueueHas

\* The inductive form of NoFalseBuilding: it does not depend on the clock.
BuildingInv ==
    faults = 0 =>
        \A r \in Repos : cache[r].status = "building" =>
            \E t \in TasksInFlight :
                t.repo = r /\ cache[r].expiresAt = t.claimedAt + BuildTimeout

\* A step that loses no task and claims none keeps the invariant.
LEMMA BuildingKept ==
    ASSUME BuildingInv, faults' = faults,
           \A r \in Repos : cache'[r].status = "building" =>
               /\ cache'[r] = cache[r]
               /\ \A t : t.repo = r /\ InFlight(t) => t \in TasksInFlight'
    PROVE  BuildingInv'
  BY DEF BuildingInv, InFlight

LEMMA BuildingHandlerStep ==
    ASSUME TypeOK, BuildingInv, NEW h \in Handlers, HandlerStep(h)
    PROVE  BuildingInv'
  <1> USE DEF TypeOK
  <1>1. CASE BeginEnqueue(h) \/ AbandonRequest(h) \/ ClaimRefused(h)
    <2>1. /\ UNCHANGED <<cache, queue, worker, faults>>
          /\ \A x \in Handlers : x # h => handler'[x] = handler[x]
          /\ handler[h].pc \in {"verify", "claim"}
      BY <1>1 DEF BeginEnqueue, AbandonRequest, ClaimRefused, persistent
    <2>2. \A u : InFlight(u) => u \in TasksInFlight'
      BY <2>1, InFlightHas, InFlightHasNext DEF HandlerHas, WorkerHas, QueueHas
    <2>3. QED
      BY <2>1, <2>2, BuildingKept
  <1>2. CASE Claim(h)
    <2> DEFINE t == handler[h].task
    <2>1. /\ UNCHANGED <<queue, worker, faults>>
          /\ \A x \in Handlers : x # h => handler'[x] = handler[x]
          /\ handler[h].pc = "claim"
          /\ handler'[h].pc = "send" /\ handler'[h].task = t /\ t.repo \in Repos
          /\ \A r \in Repos : r # t.repo => cache'[r] = cache[r]
      BY <1>2, HandlerFields DEF Claim, Task, HandlerState
    <2>2. \A u : u.repo # t.repo /\ InFlight(u) => u \in TasksInFlight'
      BY <2>1, InFlightHas, InFlightHasNext, ZenonT(40) DEF HandlerHas, WorkerHas, QueueHas
    <2>3. t \in TasksInFlight'
      BY <2>1, InFlightHasNext DEF HandlerHas
    <2>4. cache'[t.repo].expiresAt = t.claimedAt + BuildTimeout
      BY <1>2, <2>1 DEF Claim
    <2>5. QED
      BY <2>1, <2>2, <2>3, <2>4, SMTT(20) DEF BuildingInv, InFlight
  <1>3. CASE Send(h)
    <2>1. /\ UNCHANGED <<cache, worker, faults>>
          /\ \A x \in Handlers : x # h => handler'[x] = handler[x]
          /\ handler[h].pc = "send" /\ handler[h].task \in Task
      BY <1>3, HandlerFields DEF Send, persistent
    <2>2. ASSUME NEW u, InFlight(u) PROVE u \in TasksInFlight'
      <3>1. CASE queue' = Append(queue, handler[h].task)
        <4>1. /\ DOMAIN queue \subseteq DOMAIN queue'
              /\ \A i \in DOMAIN queue : queue'[i] = queue[i]
              /\ Len(queue) + 1 \in DOMAIN queue' /\ queue'[Len(queue) + 1] = handler[h].task
          BY <2>1, <3>1
        <4>2. CASE HandlerHas(h, u)
          BY <4>1, <4>2, InFlightHasNext DEF HandlerHas, QueueHas
        <4>3. CASE ~HandlerHas(h, u)
          BY <2>1, <2>2, <4>1, <4>3, InFlightHas, InFlightHasNext
             DEF HandlerHas, WorkerHas, QueueHas
        <4>4. QED
          BY <4>2, <4>3
      <3>2. CASE queue' = queue /\ handler' = [handler EXCEPT ![h].pc = "undo"]
        <4>1. \A x \in Handlers : HandlerHas(x, u) => HandlerHas(x, u)'
          BY <2>1, <3>2 DEF HandlerHas, HandlerState
        <4>2. QED
          BY <2>1, <2>2, <3>2, <4>1, InFlightHas, InFlightHasNext
             DEF WorkerHas, QueueHas
      <3>3. QED
        BY <1>3, <3>1, <3>2 DEF Send
    <2>3. QED
      BY <2>1, <2>2, BuildingKept
  <1>4. CASE UndoClaim(h)
    <2> DEFINE t == handler[h].task
    <2>1. /\ UNCHANGED <<queue, worker, faults>>
          /\ \A x \in Handlers : x # h => handler'[x] = handler[x]
          /\ handler[h].pc = "undo" /\ t.repo \in Repos
          /\ cache'[t.repo].status = "failed"
          /\ \A r \in Repos : r # t.repo => cache'[r] = cache[r]
      BY <1>4, HandlerFields DEF UndoClaim, Task, FailedRow
    <2>2. \A u : u.repo # t.repo /\ InFlight(u) => u \in TasksInFlight'
      BY <2>1, InFlightHas, InFlightHasNext DEF HandlerHas, WorkerHas, QueueHas
    <2>3. QED
      BY <2>1, <2>2, BuildingKept
  <1>5. CASE UndoLost(h)
    BY <1>5 DEF UndoLost, BuildingInv
  <1>6. QED
    BY <1>1, <1>2, <1>3, <1>4, <1>5 DEF HandlerStep

LEMMA BuildingWorkerStep ==
    ASSUME TypeOK, BuildingInv, NEW w \in Workers, WorkerStep(w)
    PROVE  BuildingInv'
  <1> USE DEF TypeOK
  <1>1. CASE Dequeue(w)
    <2>1. /\ UNCHANGED <<cache, handler, faults>>
          /\ \A x \in Workers : x # w => worker'[x] = worker[x]
          /\ worker[w].pc = "idle"
          /\ worker'[w].pc = "reserve" /\ worker'[w].task = Head(queue)
          /\ queue # <<>> /\ queue' = Tail(queue)
      BY <1>1 DEF Dequeue, persistent
    <2>2. ASSUME NEW i \in DOMAIN queue, i # 1
          PROVE  i - 1 \in DOMAIN queue' /\ queue'[i - 1] = queue[i]
      BY <2>1, <2>2
    <2>3. ASSUME NEW u, InFlight(u) PROVE u \in TasksInFlight'
      <3>1. CASE \E i \in DOMAIN queue : QueueHas(i, u)
        <4>1. PICK i \in DOMAIN queue : queue[i] = u
          BY <3>1 DEF QueueHas
        <4>2. CASE i = 1
          <5>1. worker'[w].task = u
            BY <2>1, <4>1, <4>2
          <5>2. WorkerHas(w, u)'
            BY <2>1, <5>1 DEF WorkerHas
          <5>3. QED
            BY <5>2, InFlightHasNext
        <4>3. CASE i # 1
          BY <2>2, <4>1, <4>3, InFlightHasNext DEF QueueHas
        <4>4. QED
          BY <4>2, <4>3
      <3>2. CASE \E h \in Handlers : HandlerHas(h, u)
        BY <2>1, <3>2, InFlightHasNext DEF HandlerHas
      <3>3. CASE \E x \in Workers : WorkerHas(x, u)
        <4>1. PICK x \in Workers : WorkerHas(x, u)
          BY <3>3
        <4>2. x # w /\ worker'[x] = worker[x]
          BY <2>1, <4>1 DEF WorkerHas
        <4>3. WorkerHas(x, u)'
          BY <4>1, <4>2 DEF WorkerHas
        <4>4. QED
          BY <4>3, InFlightHasNext
      <3>4. QED
        BY <2>3, <3>1, <3>2, <3>3, InFlightHas
    <2>4. QED
      BY <2>1, <2>3, BuildingKept
  <1>2. CASE \/ WorkerExit(w) \/ Reserve(w) \/ ReserveRefused(w) \/ StartQuery(w)
             \/ QuerySucceeds(w) \/ QueryFails(w)
    <2>1. /\ UNCHANGED <<cache, handler, queue, faults>>
          /\ \A x \in Workers : x # w => worker'[x] = worker[x]
      BY <1>2 DEF WorkerExit, Reserve, ReserveRefused, StartQuery, QuerySucceeds, QueryFails,
         TurnToFail, persistent
    <2>2. worker[w].pc \notin {"idle", "exited"} =>
              worker'[w].pc \notin {"idle", "exited"} /\ worker'[w].task = worker[w].task
      BY <1>2 DEF WorkerExit, Reserve, ReserveRefused, StartQuery, QuerySucceeds, QueryFails,
         TurnToFail, WorkerState
    <2>3. \A u : InFlight(u) => u \in TasksInFlight'
      BY <2>1, <2>2, InFlightHas, InFlightHasNext, ZenonT(40) DEF HandlerHas, WorkerHas, QueueHas
    <2>4. QED
      BY <2>1, <2>3, BuildingKept
  <1>3. CASE SaveReady(w) \/ SaveFailed(w)
    <2> DEFINE t == worker[w].task
    <2>a. t.repo \in Repos
      BY <1>3, WorkerFields DEF SaveReady, SaveFailed, Task
    <2>b. /\ cache'[t.repo].status \in {"ready", "failed"}
          /\ \A r \in Repos : r # t.repo => cache'[r] = cache[r]
      <3>1. CASE SaveReady(w)
        BY <2>a, <3>1 DEF SaveReady
      <3>2. CASE SaveFailed(w)
        BY <2>a, <3>2 DEF SaveFailed, FailedRow
      <3>3. QED
        BY <1>3, <3>1, <3>2
    <2>1. /\ UNCHANGED <<queue, handler, faults>>
          /\ \A x \in Workers : x # w => worker'[x] = worker[x]
      BY <1>3 DEF SaveReady, SaveFailed
    <2>2. \A u : u.repo # t.repo /\ InFlight(u) => u \in TasksInFlight'
      BY <2>a, <2>1, InFlightHas, InFlightHasNext DEF HandlerHas, WorkerHas, QueueHas
    <2>3. QED
      BY <2>a, <2>b, <2>1, <2>2, BuildingKept
  <1>4. CASE SaveLost(w)
    BY <1>4 DEF SaveLost, BuildingInv
  <1>5. QED
    BY <1>1, <1>2, <1>3, <1>4 DEF WorkerStep

LEMMA BuildingNext == TypeOK /\ BuildingInv /\ [Next]_vars => BuildingInv'
  <1> SUFFICES ASSUME TypeOK, BuildingInv, [Next]_vars PROVE BuildingInv'
    OBVIOUS
  <1>1. ASSUME NEW h \in Handlers, NEW r \in Repos, LookupMiss(h, r) PROVE BuildingInv'
    <2>1. /\ UNCHANGED <<cache, queue, worker, faults>>
          /\ \A x \in Handlers : x # h => handler'[x] = handler[x]
          /\ handler[h].pc = "idle"
      BY <1>1 DEF LookupMiss, persistent, TypeOK
    <2>2. \A u : InFlight(u) => u \in TasksInFlight'
      BY <2>1, InFlightHas, InFlightHasNext DEF HandlerHas, WorkerHas, QueueHas
    <2>3. QED
      BY <2>1, <2>2, BuildingKept
  <1>2. ASSUME NEW h \in Handlers, HandlerStep(h) PROVE BuildingInv'
    BY <1>2, BuildingHandlerStep
  <1>3. ASSUME NEW w \in Workers, WorkerStep(w) PROVE BuildingInv'
    BY <1>3, BuildingWorkerStep
  <1>4. CASE Restart
    BY <1>4 DEF Restart, BuildingInv, TypeOK
  <1>5. CASE Close \/ Tick \/ UNCHANGED vars
    <2>1. UNCHANGED <<cache, queue, worker, handler, faults>>
      BY <1>5 DEF Close, Tick, vars, persistent, volatile
    <2>2. \A u : InFlight(u) => u \in TasksInFlight'
      BY <2>1, InFlightHas, InFlightHasNext DEF HandlerHas, WorkerHas, QueueHas
    <2>3. QED
      BY <2>1, <2>2, BuildingKept
  <1>6. QED
    BY <1>1, <1>2, <1>3, <1>4, <1>5 DEF Next

\* A row that answers "building" always has the task its lease was claimed for
\* under way, as long as no write was lost and no process died: no path of
\* Enqueue, worker or build drops a claimed task, however late it runs.
THEOREM BuildingIsInFlight == Spec => []NoFalseBuilding
  <1>1. Init => BuildingInv
    BY DEF Init, BuildingInv, NoRow
  <1>2. BuildingInv => NoFalseBuilding
    BY DEF BuildingInv, NoFalseBuilding, Building
  <1>3. QED
    BY <1>1, <1>2, BuildingNext, TypeCorrect, PTL DEF Spec

-----------------------------------------------------------------------------
(* Leases that cover their builds *)

\* Who holds a task of r inside its lease.
HandlerHolds(h, r) ==
    handler[h].pc \in {"send", "undo"} /\ handler[h].task.repo = r /\ ~Late(handler[h].task)
WorkerHolds(w, r) ==
    worker[w].pc \notin {"idle", "exited"} /\ worker[w].task.repo = r /\ ~Late(worker[w].task)
QueueHolds(i, r) == i \in DOMAIN queue /\ queue[i].repo = r /\ ~Late(queue[i])

\* At most one request, worker or queue slot holds a task of r.
OneHolder(r) ==
    /\ \A x, y \in Handlers : HandlerHolds(x, r) /\ HandlerHolds(y, r) => x = y
    /\ \A x, y \in Workers : WorkerHolds(x, r) /\ WorkerHolds(y, r) => x = y
    /\ \A i, j \in DOMAIN queue : QueueHolds(i, r) /\ QueueHolds(j, r) => i = j
    /\ \A h \in Handlers, w \in Workers : ~(HandlerHolds(h, r) /\ WorkerHolds(w, r))
    /\ \A h \in Handlers, i \in DOMAIN queue : ~(HandlerHolds(h, r) /\ QueueHolds(i, r))
    /\ \A w \in Workers, i \in DOMAIN queue : ~(WorkerHolds(w, r) /\ QueueHolds(i, r))

\* The row of r still carries the lease that task t was claimed with, and its
\* points are not younger than the claim.
LeaseOn(r, t) ==
    /\ cache[r].status = "building"
    /\ cache[r].expiresAt = t.claimedAt + BuildTimeout
    /\ cache[r].through <= t.claimedAt

\* What holds of a repository whose row no late task has written: the single
\* task inside its lease is covered by the row.
Leased(r) ==
    /\ OneHolder(r)
    /\ \A h \in Handlers : HandlerHolds(h, r) => LeaseOn(r, handler[h].task)
    /\ \A w \in Workers : WorkerHolds(w, r) => LeaseOn(r, worker[w].task)
    /\ \A i \in DOMAIN queue : QueueHolds(i, r) => LeaseOn(r, queue[i])

\* The order of the instants: claims lie in the past, a build starts after its
\* claim and ends after its start, and no row expires before its points end.
DatesInv ==
    /\ \A h \in Handlers : handler[h].pc \in {"claim", "send", "undo"} =>
           handler[h].task.claimedAt <= now
    /\ \A i \in DOMAIN queue : queue[i].claimedAt <= now
    /\ \A w \in Workers : worker[w].pc \notin {"idle", "exited"} =>
           worker[w].task.claimedAt <= worker[w].startedAt /\ worker[w].startedAt <= now
    /\ \A w \in Workers : worker[w].pc = "save" => worker[w].startedAt <= worker[w].at
    /\ \A r \in Repos : cache[r].through <= cache[r].expiresAt

LeaseInv == DatesInv /\ \A r \in Repos \ overrun : Leased(r)

\* The numbers behind the two invariants.
LEMMA DateTypes ==
    ASSUME TypeOK
    PROVE  /\ now \in Nat
           /\ \A t \in Task : t.repo \in Repos /\ t.claimedAt \in Nat
           /\ \A r \in Repos : cache[r].expiresAt \in Nat /\ cache[r].through \in Nat
           /\ \A i \in DOMAIN queue : queue[i] \in Task
           /\ \A w \in Workers : worker[w].pc \notin {"idle", "exited"} => worker[w].startedAt \in Nat
           /\ \A w \in Workers : worker[w].pc \in {"save", "fail"} => worker[w].at \in Nat
  <1>1. now \in Nat /\ \A t \in Task : t.repo \in Repos /\ t.claimedAt \in Nat
    BY ConfigAssumption DEF TypeOK, Task, Times
  <1>2. \A r \in Repos : cache[r].expiresAt \in Nat /\ cache[r].through \in Nat
    BY ConfigAssumption DEF TypeOK, Row, Times
  <1>3. \A i \in DOMAIN queue : queue[i] \in Task
    BY DEF TypeOK
  <1>4. \A w \in Workers : worker[w].pc \notin {"idle", "exited"} => worker[w].startedAt \in Nat
    BY WorkerFields, ConfigAssumption DEF Times
  <1>5. \A w \in Workers : worker[w].pc \in {"save", "fail"} => worker[w].at \in Nat
    BY WorkerFields, ConfigAssumption DEF Times
  <1>6. QED
    BY <1>1, <1>2, <1>3, <1>4, <1>5

\* The tasks of r that are queued after the step were queued before it, and
\* there is still at most one of them.
QueueQuiet(r) ==
    /\ \A i \in DOMAIN queue' : QueueHolds(i, r)' =>
           \E j \in DOMAIN queue : QueueHolds(j, r) /\ queue'[i] = queue[j]
    /\ \A i, j \in DOMAIN queue' : QueueHolds(i, r)' /\ QueueHolds(j, r)' => i = j

\* A step that leaves the row of r alone and adds nobody who holds a task of r.
LEMMA QuietFor ==
    ASSUME NEW r \in Repos, Leased(r), cache'[r] = cache[r],
           \A h \in Handlers : HandlerHolds(h, r)' =>
               HandlerHolds(h, r) /\ handler'[h].task = handler[h].task,
           \A w \in Workers : WorkerHolds(w, r)' =>
               WorkerHolds(w, r) /\ worker'[w].task = worker[w].task,
           QueueQuiet(r)
    PROVE  Leased(r)'
  <1> USE DEF Leased
  <1>1. OneHolder(r)'
    <2>1. \A x, y \in Handlers : HandlerHolds(x, r)' /\ HandlerHolds(y, r)' => x = y
      BY DEF OneHolder
    <2>2. \A x, y \in Workers : WorkerHolds(x, r)' /\ WorkerHolds(y, r)' => x = y
      BY DEF OneHolder
    <2>3. \A i, j \in DOMAIN queue' : QueueHolds(i, r)' /\ QueueHolds(j, r)' => i = j
      BY DEF QueueQuiet
    <2>4. \A h \in Handlers, w \in Workers : ~(HandlerHolds(h, r)' /\ WorkerHolds(w, r)')
      BY DEF OneHolder
    <2>5. \A h \in Handlers, i \in DOMAIN queue' : ~(HandlerHolds(h, r)' /\ QueueHolds(i, r)')
      BY DEF OneHolder, QueueQuiet
    <2>6. \A w \in Workers, i \in DOMAIN queue' : ~(WorkerHolds(w, r)' /\ QueueHolds(i, r)')
      BY DEF OneHolder, QueueQuiet
    <2>7. QED
      BY <2>1, <2>2, <2>3, <2>4, <2>5, <2>6 DEF OneHolder
  <1>2. \A h \in Handlers : HandlerHolds(h, r)' => LeaseOn(r, handler[h].task)'
    BY DEF LeaseOn
  <1>3. \A w \in Workers : WorkerHolds(w, r)' => LeaseOn(r, worker[w].task)'
    BY DEF LeaseOn
  <1>4. \A i \in DOMAIN queue' : QueueHolds(i, r)' => LeaseOn(r, queue[i])'
    BY DEF LeaseOn, QueueQuiet
  <1>5. QED
    BY <1>1, <1>2, <1>3, <1>4

\* A step after which nobody holds a task of r.
LEMMA ReleasedFor ==
    ASSUME NEW r \in Repos,
           \A h \in Handlers : ~HandlerHolds(h, r)',
           \A w \in Workers : ~WorkerHolds(w, r)',
           \A i \in DOMAIN queue' : ~QueueHolds(i, r)'
    PROVE  Leased(r)'
  BY DEF Leased, OneHolder

\* A row that can be taken has nobody who works for it inside a lease: its
\* lease has run out, so its task, if there still is one, is late.
LEMMA ClaimableIsFree ==
    ASSUME TypeOK, NEW r \in Repos, cache[r].expiresAt <= now,
           Leased(r) \/ Holders(r) = {}
    PROVE  /\ \A h \in Handlers : ~HandlerHolds(h, r)
           /\ \A w \in Workers : ~WorkerHolds(w, r)
           /\ \A i \in DOMAIN queue : ~QueueHolds(i, r)
  <1>1. CASE Leased(r)
    <2>1. \A t \in Task : LeaseOn(r, t) => Late(t)
      BY DateTypes, ConfigAssumption DEF LeaseOn, Late
    <2>2. \A h \in Handlers : HandlerHolds(h, r) => handler[h].task \in Task
      BY HandlerFields DEF HandlerHolds
    <2>3. \A w \in Workers : WorkerHolds(w, r) => worker[w].task \in Task
      BY WorkerFields DEF WorkerHolds
    <2>4. \A i \in DOMAIN queue : queue[i] \in Task
      BY DEF TypeOK
    <2>5. QED
      BY <1>1, <2>1, <2>2, <2>3, <2>4 DEF Leased, HandlerHolds, WorkerHolds, QueueHolds
  <1>2. CASE Holders(r) = {}
    BY <1>2 DEF Holders, HandlerHolds, WorkerHolds, QueueHolds
  <1>3. QED
    BY <1>1, <1>2

LEMMA LeasedHandlerStep ==
    ASSUME TypeOK, LeaseInv, NEW h \in Handlers, HandlerStep(h), NEW r \in Repos \ overrun'
    PROVE  Leased(r)'
  <1> DEFINE t == handler[h].task
  <1>a. r \in Repos /\ (r \notin overrun => Leased(r))
    BY DEF LeaseInv
  <1>b. /\ UNCHANGED <<worker, now>>
        /\ \A x \in Handlers : x # h => handler'[x] = handler[x]
        /\ \A w \in Workers : WorkerHolds(w, r)' <=> WorkerHolds(w, r)
        /\ \A x \in Handlers : x # h => (HandlerHolds(x, r)' <=> HandlerHolds(x, r))
    <2>1. /\ UNCHANGED <<worker, now>>
          /\ \A x \in Handlers : x # h => handler'[x] = handler[x]
      BY DEF HandlerStep, BeginEnqueue, AbandonRequest, Claim, ClaimRefused, Send, UndoClaim,
         UndoLost, TypeOK, persistent
    <2>2. QED
      BY <2>1 DEF WorkerHolds, HandlerHolds, Late
  <1>c. UNCHANGED <<queue, now>> /\ Leased(r) => QueueQuiet(r)
    BY DEF QueueHolds, QueueQuiet, Leased, OneHolder, Late
  <1>d. ASSUME r \notin overrun, cache'[r] = cache[r], QueueQuiet(r),
               HandlerHolds(h, r)' => HandlerHolds(h, r) /\ handler'[h].task = t
        PROVE  Leased(r)'
    <2>1. \A x \in Handlers : HandlerHolds(x, r)' =>
              HandlerHolds(x, r) /\ handler'[x].task = handler[x].task
      BY <1>b, <1>d
    <2>2. \A w \in Workers : WorkerHolds(w, r)' =>
              WorkerHolds(w, r) /\ worker'[w].task = worker[w].task
      BY <1>b
    <2>3. QED
      BY <1>a, <1>d, <2>1, <2>2, QuietFor
  <1> USE DEF TypeOK
  <1>1. CASE BeginEnqueue(h) \/ AbandonRequest(h) \/ ClaimRefused(h) \/ UndoLost(h)
    <2>1. /\ UNCHANGED <<cache, queue, overrun, now>>
          /\ handler'[h].pc \in {"idle", "claim"}
      BY <1>1 DEF BeginEnqueue, AbandonRequest, ClaimRefused, UndoLost, IdleHandler, persistent
    <2>2. ~HandlerHolds(h, r)'
      BY <2>1 DEF HandlerHolds
    <2>3. QED
      BY <1>a, <1>c, <2>1, <2>2, <1>d
  <1>2. CASE Claim(h)
    <2>1. /\ UNCHANGED <<queue, now>>
          /\ handler[h].pc = "claim" /\ handler'[h].pc = "send" /\ handler'[h].task = t
          /\ t \in Task /\ t.repo \in Repos /\ t.claimedAt \in Nat
          /\ cache[t.repo].expiresAt <= t.claimedAt /\ t.claimedAt <= now
      BY <1>2, HandlerFields, DateTypes DEF Claim, HandlerState, LeaseInv, DatesInv
    <2>2. CASE r = t.repo
      <3>1. cache[r].expiresAt <= now
        BY <2>1, <2>2, DateTypes
      <3>a. Leased(r) \/ Holders(r) = {}
        BY <1>a, <1>2, <2>2 DEF Claim, Reclaims
      <3>2. /\ \A x \in Handlers : ~HandlerHolds(x, r)
            /\ \A w \in Workers : ~WorkerHolds(w, r)
            /\ \A i \in DOMAIN queue : ~QueueHolds(i, r)
        BY <3>1, <3>a, <1>a, ClaimableIsFree
      <3>3. /\ \A x \in Handlers : x # h => ~HandlerHolds(x, r)'
            /\ \A w \in Workers : ~WorkerHolds(w, r)'
            /\ \A i \in DOMAIN queue' : ~QueueHolds(i, r)'
        BY <1>b, <2>1, <3>2 DEF QueueHolds, Late
      <3>4. /\ cache'[r].status = "building"
            /\ cache'[r].expiresAt = t.claimedAt + BuildTimeout
            /\ cache'[r].through = cache[r].through
        BY <1>2, <2>1, <2>2 DEF Claim
      <3>5. cache[r].through <= t.claimedAt
        BY <2>1, <2>2, DateTypes DEF LeaseInv, DatesInv
      <3>6. LeaseOn(r, handler[h].task)'
        BY <2>1, <3>4, <3>5 DEF LeaseOn
      <3>7. QED
        BY <3>3, <3>6 DEF Leased, OneHolder
    <2>3. CASE r # t.repo
      <3>1. cache'[r] = cache[r] /\ ~HandlerHolds(h, r)' /\ r \notin overrun
        BY <1>2, <2>1, <2>3 DEF Claim, HandlerHolds, Reclaims
      <3>2. QED
        BY <1>a, <1>c, <2>1, <3>1, <1>d
    <2>4. QED
      BY <2>2, <2>3
  <1>3. CASE Send(h) /\ queue' = Append(queue, t)
    <2>1. /\ UNCHANGED <<cache, overrun, now>>
          /\ handler[h].pc = "send" /\ handler'[h].pc = "idle"
          /\ t \in Task /\ t.repo \in Repos
      BY <1>3, HandlerFields DEF Send, Task, IdleHandler, persistent
    <2>2. ~HandlerHolds(h, r)' /\ Leased(r)
      BY <1>a, <2>1 DEF HandlerHolds
    <2>l. PICK last : last = Len(queue) + 1
      OBVIOUS
    <2>3. /\ DOMAIN queue' = DOMAIN queue \cup {last} /\ last \notin DOMAIN queue
          /\ \A i \in DOMAIN queue : queue'[i] = queue[i]
          /\ queue'[last] = t
      BY <1>3, <2>1, <2>l
    <2>4. CASE r = t.repo /\ ~Late(t)
      <3>1. HandlerHolds(h, r)
        BY <2>1, <2>4 DEF HandlerHolds
      <3>2. /\ \A x \in Handlers : x # h => ~HandlerHolds(x, r)
            /\ \A w \in Workers : ~WorkerHolds(w, r)
            /\ \A i \in DOMAIN queue : ~QueueHolds(i, r)
            /\ LeaseOn(r, t)
        BY <2>2, <3>1 DEF Leased, OneHolder
      <3>3. /\ \A x \in Handlers : ~HandlerHolds(x, r)'
            /\ \A w \in Workers : ~WorkerHolds(w, r)'
            /\ \A i \in DOMAIN queue' : QueueHolds(i, r)' => i = last
        BY <1>b, <2>1, <2>2, <2>3, <3>2 DEF QueueHolds, Late
      <3>4. LeaseOn(r, queue[last])'
        BY <2>1, <2>3, <3>2 DEF LeaseOn
      <3>5. QED
        BY <2>1, <3>3, <3>4 DEF Leased, OneHolder
    <2>5. CASE r # t.repo \/ Late(t)
      <3>1. \A i \in DOMAIN queue' : QueueHolds(i, r)' =>
                i \in DOMAIN queue /\ QueueHolds(i, r) /\ queue'[i] = queue[i]
        BY <2>1, <2>3, <2>5 DEF QueueHolds, Late
      <3>a. QueueQuiet(r)
        BY <2>2, <3>1 DEF QueueQuiet, Leased, OneHolder
      <3>2. QED
        BY <2>1, <2>2, <3>a, <1>d
    <2>6. QED
      BY <2>4, <2>5
  <1>4. CASE Send(h) /\ handler' = [handler EXCEPT ![h].pc = "undo"] /\ UNCHANGED queue
    <2>1. /\ UNCHANGED <<cache, overrun, now>>
          /\ (HandlerHolds(h, r)' => HandlerHolds(h, r))
          /\ handler'[h].task = t
      BY <1>4 DEF Send, HandlerHolds, HandlerState, persistent, Late
    <2>2. QED
      BY <1>a, <1>c, <1>4, <2>1, <1>d
  <1>5. CASE UndoClaim(h)
    <2>1. /\ UNCHANGED <<queue, now>>
          /\ handler[h].pc = "undo" /\ handler'[h].pc = "idle"
          /\ t \in Task /\ t.repo \in Repos
          /\ cache' = [cache EXCEPT ![t.repo] = FailedRow(t.claimedAt)]
          /\ Writes(t)
      BY <1>5, HandlerFields DEF UndoClaim, Task, IdleHandler
    <2>2. ~HandlerHolds(h, r)' /\ Leased(r)
      BY <1>a, <2>1 DEF HandlerHolds, Writes
    <2>3. CASE r = t.repo
      <3>1. HandlerHolds(h, r)
        BY <2>1, <2>3 DEF HandlerHolds, Writes
      <3>2. /\ \A x \in Handlers : ~HandlerHolds(x, r)'
            /\ \A w \in Workers : ~WorkerHolds(w, r)'
            /\ \A i \in DOMAIN queue' : ~QueueHolds(i, r)'
        BY <1>b, <2>1, <2>2, <3>1 DEF Leased, OneHolder, QueueHolds, Late
      <3>3. QED
        BY <1>a, <3>2, ReleasedFor
    <2>4. CASE r # t.repo
      <3>1. cache'[r] = cache[r] /\ r \notin overrun
        BY <2>1, <2>4 DEF Writes
      <3>2. QED
        BY <1>c, <2>1, <2>2, <3>1, <1>d
    <2>5. QED
      BY <2>3, <2>4
  <1>6. QED
    BY <1>1, <1>2, <1>3, <1>4, <1>5 DEF HandlerStep, Send

LEMMA LeasedWorkerStep ==
    ASSUME TypeOK, LeaseInv, NEW w \in Workers, WorkerStep(w), NEW r \in Repos \ overrun'
    PROVE  Leased(r)'
  <1> DEFINE t == worker[w].task
  <1>a. r \in Repos /\ (r \notin overrun => Leased(r))
    BY DEF LeaseInv
  <1>b. /\ UNCHANGED <<handler, now>>
        /\ \A x \in Workers : x # w => worker'[x] = worker[x]
        /\ \A h \in Handlers : HandlerHolds(h, r)' <=> HandlerHolds(h, r)
        /\ \A x \in Workers : x # w => (WorkerHolds(x, r)' <=> WorkerHolds(x, r))
    <2>1. /\ UNCHANGED <<handler, now>>
          /\ \A x \in Workers : x # w => worker'[x] = worker[x]
      BY DEF WorkerStep, Dequeue, WorkerExit, Reserve, ReserveRefused, StartQuery,
         QuerySucceeds, QueryFails, SaveReady, SaveFailed, SaveLost, TurnToFail, TypeOK, persistent
    <2>2. QED
      BY <2>1 DEF WorkerHolds, HandlerHolds, Late
  <1>c. UNCHANGED <<queue, now>> /\ Leased(r) => QueueQuiet(r)
    BY DEF QueueHolds, QueueQuiet, Leased, OneHolder, Late
  <1>d. ASSUME r \notin overrun, cache'[r] = cache[r], QueueQuiet(r),
               WorkerHolds(w, r)' => WorkerHolds(w, r) /\ worker'[w].task = t
        PROVE  Leased(r)'
    <2>1. \A x \in Handlers : HandlerHolds(x, r)' =>
              HandlerHolds(x, r) /\ handler'[x].task = handler[x].task
      BY <1>b
    <2>2. \A x \in Workers : WorkerHolds(x, r)' =>
              WorkerHolds(x, r) /\ worker'[x].task = worker[x].task
      BY <1>b, <1>d
    <2>3. QED
      BY <1>a, <1>d, <2>1, <2>2, QuietFor
  <1> USE DEF TypeOK
  <1>1. CASE Dequeue(w)
    <2>1. /\ UNCHANGED <<cache, overrun, now>>
          /\ worker[w].pc = "idle"
          /\ worker'[w].pc = "reserve" /\ worker'[w].task = queue[1]
          /\ queue # <<>> /\ queue' = Tail(queue)
          /\ 1 \in DOMAIN queue
      BY <1>1 DEF Dequeue, persistent
    <2>a. Leased(r) /\ r \notin overrun
      BY <1>a, <2>1
    <2>2. \A i \in DOMAIN queue' : i + 1 \in DOMAIN queue /\ queue'[i] = queue[i + 1] /\ i + 1 # 1
      BY <2>1
    <2>3. CASE r = queue[1].repo /\ ~Late(queue[1])
      <3>1. QueueHolds(1, r)
        BY <2>1, <2>3 DEF QueueHolds
      <3>2. /\ \A h \in Handlers : ~HandlerHolds(h, r)
            /\ \A x \in Workers : ~WorkerHolds(x, r)
            /\ \A i \in DOMAIN queue : QueueHolds(i, r) => i = 1
            /\ LeaseOn(r, queue[1])
        BY <2>a, <2>1, <3>1 DEF Leased, OneHolder
      <3>3. \A i \in DOMAIN queue' : ~QueueHolds(i, r)'
        <4> SUFFICES ASSUME NEW i \in DOMAIN queue', QueueHolds(i, r)' PROVE FALSE
          OBVIOUS
        <4>1. QueueHolds(i + 1, r)
          BY <2>1, <2>2 DEF QueueHolds, Late
        <4>2. QED
          BY <2>2, <3>2, <4>1
      <3>4. /\ \A h \in Handlers : ~HandlerHolds(h, r)'
            /\ \A x \in Workers : x # w => ~WorkerHolds(x, r)'
        BY <1>b, <3>2
      <3>5. LeaseOn(r, worker[w].task)'
        BY <2>1, <3>2 DEF LeaseOn
      <3>6. QED
        BY <3>3, <3>4, <3>5 DEF Leased, OneHolder
    <2>4. CASE r # queue[1].repo \/ Late(queue[1])
      <3>1. ~WorkerHolds(w, r)'
        BY <2>1, <2>4 DEF WorkerHolds, Late
      <3>2. \A i \in DOMAIN queue' : QueueHolds(i, r)' =>
                /\ i + 1 \in DOMAIN queue /\ i \in Nat
                /\ QueueHolds(i + 1, r) /\ queue'[i] = queue[i + 1]
        BY <2>1, <2>2 DEF QueueHolds, Late
      <3>a. QueueQuiet(r)
        <4>1. ASSUME NEW i \in DOMAIN queue', NEW j \in DOMAIN queue',
                     QueueHolds(i, r)', QueueHolds(j, r)'
              PROVE  i = j
          <5>1. i + 1 = j + 1
            BY <2>a, <3>2, <4>1 DEF Leased, OneHolder
          <5>2. QED
            BY <3>2, <4>1, <5>1
        <4>2. QED
          BY <3>2, <4>1 DEF QueueQuiet
      <3>3. QED
        BY <2>a, <2>1, <3>1, <3>a, <1>d
    <2>5. QED
      BY <2>3, <2>4
  <1>2. CASE \/ WorkerExit(w) \/ Reserve(w) \/ ReserveRefused(w) \/ StartQuery(w)
             \/ QuerySucceeds(w) \/ QueryFails(w) \/ SaveLost(w)
    <2>1. UNCHANGED <<cache, queue, overrun, now>>
      BY <1>2 DEF WorkerExit, Reserve, ReserveRefused, StartQuery, QuerySucceeds, QueryFails,
         SaveLost, persistent
    <2>2. WorkerHolds(w, r)' => WorkerHolds(w, r) /\ worker'[w].task = t
      <3>1. CASE WorkerExit(w) \/ SaveLost(w)
        BY <3>1 DEF WorkerExit, SaveLost, WorkerHolds, IdleWorker
      <3>2. CASE ~(WorkerExit(w) \/ SaveLost(w))
        <4>1. worker[w].pc \notin {"idle", "exited"} /\ worker'[w].task = t
          <5>1. CASE Reserve(w)
            BY <5>1 DEF Reserve, WorkerState
          <5>2. CASE StartQuery(w)
            BY <5>2 DEF StartQuery, WorkerState
          <5>3. CASE ReserveRefused(w) \/ QueryFails(w) \/ QuerySucceeds(w)
            BY <5>3 DEF ReserveRefused, QueryFails, QuerySucceeds, TurnToFail
          <5>4. QED
            BY <1>2, <3>2, <5>1, <5>2, <5>3
        <4>2. WorkerHolds(w, r)' => t.repo = r /\ ~Late(t)
          BY <2>1, <4>1 DEF WorkerHolds, Late
        <4>3. QED
          BY <4>1, <4>2 DEF WorkerHolds
      <3>3. QED
        BY <3>1, <3>2
    <2>3. QED
      BY <1>a, <1>c, <2>1, <2>2, <1>d
  <1>3. CASE SaveReady(w) \/ SaveFailed(w)
    <2>1. /\ UNCHANGED <<queue, now>>
          /\ worker[w].pc \notin {"idle", "exited"} /\ t.repo \in Repos
          /\ worker'[w].pc = "idle"
          /\ Writes(t)
      BY <1>3, WorkerFields DEF SaveReady, SaveFailed, Task, IdleWorker
    <2>2. ~WorkerHolds(w, r)' /\ Leased(r)
      BY <1>a, <2>1 DEF WorkerHolds, Writes
    <2>3. CASE r = t.repo
      <3>1. WorkerHolds(w, r)
        BY <2>1, <2>3 DEF WorkerHolds, Writes
      <3>2. /\ \A h \in Handlers : ~HandlerHolds(h, r)'
            /\ \A x \in Workers : ~WorkerHolds(x, r)'
            /\ \A i \in DOMAIN queue' : ~QueueHolds(i, r)'
        BY <1>b, <2>1, <2>2, <3>1 DEF Leased, OneHolder, QueueHolds, Late
      <3>3. QED
        BY <1>a, <3>2, ReleasedFor
    <2>4. CASE r # t.repo
      <3>1. cache'[r] = cache[r] /\ r \notin overrun
        BY <1>3, <2>1, <2>4 DEF SaveReady, SaveFailed, Writes
      <3>2. QED
        BY <1>c, <2>1, <2>2, <3>1, <1>d
    <2>5. QED
      BY <2>3, <2>4
  <1>4. QED
    BY <1>1, <1>2, <1>3 DEF WorkerStep

LEMMA DatesHandlerStep ==
    ASSUME TypeOK, DatesInv, NEW h \in Handlers,
           (\E r \in Repos : LookupMiss(h, r)) \/ HandlerStep(h)
    PROVE  DatesInv'
  <1>a. /\ now' = now /\ UNCHANGED worker
        /\ \A x \in Handlers : x # h => handler'[x] = handler[x]
    BY DEF LookupMiss, HandlerStep, BeginEnqueue, AbandonRequest, Claim, ClaimRefused, Send,
       UndoClaim, UndoLost, TypeOK, persistent
  <1>b. handler'[h].pc \in {"claim", "send", "undo"} => handler'[h].task.claimedAt <= now
    <2>1. CASE BeginEnqueue(h)
      <3>1. handler'[h] = [pc |-> "claim",
                           task |-> [repo |-> handler[h].repo, claimedAt |-> now]]
        BY <2>1 DEF BeginEnqueue, TypeOK
      <3>2. QED
        BY <3>1, DateTypes
    <2>2. CASE (\E r \in Repos : LookupMiss(h, r)) \/ AbandonRequest(h) \/ ClaimRefused(h)
               \/ UndoClaim(h) \/ UndoLost(h)
      BY <2>2 DEF LookupMiss, AbandonRequest, ClaimRefused, UndoClaim, UndoLost, IdleHandler,
         TypeOK
    <2>3. CASE Claim(h) \/ Send(h)
      BY <2>3 DEF Claim, Send, IdleHandler, TypeOK, HandlerState, DatesInv
    <2>4. QED
      BY <2>1, <2>2, <2>3 DEF HandlerStep
  <1>c. \A i \in DOMAIN queue' : queue'[i].claimedAt <= now
    <2>1. CASE queue' = queue
      BY <2>1 DEF DatesInv
    <2>2. CASE Send(h) /\ queue' = Append(queue, handler[h].task)
      BY <2>2 DEF Send, DatesInv, TypeOK
    <2>3. QED
      BY <2>1, <2>2 DEF LookupMiss, HandlerStep, BeginEnqueue, AbandonRequest, Claim, ClaimRefused,
         Send, UndoClaim, UndoLost
  <1>d. \A r \in Repos : cache'[r].through <= cache'[r].expiresAt
    <2> SUFFICES ASSUME NEW r \in Repos PROVE cache'[r].through <= cache'[r].expiresAt
      OBVIOUS
    <2> DEFINE t == handler[h].task
    <2>a. handler[h].pc \in {"claim", "undo"} => t.repo \in Repos /\ t.claimedAt \in Nat
      BY HandlerFields, DateTypes
    <2>b. /\ cache[r].through <= cache[r].expiresAt
          /\ cache[r].through \in Nat /\ cache[r].expiresAt \in Nat
      BY DateTypes DEF DatesInv
    <2>1. CASE Claim(h) /\ t.repo = r
      <3>1. /\ cache'[r].through = cache[r].through
            /\ cache'[r].expiresAt = t.claimedAt + BuildTimeout
            /\ cache[r].expiresAt <= t.claimedAt /\ t.claimedAt \in Nat
        BY <2>a, <2>1 DEF Claim, TypeOK
      <3>2. QED
        BY <2>b, <3>1, ConfigAssumption
    <2>2. CASE UndoClaim(h) /\ t.repo = r
      <3>1. cache'[r].through = 0 /\ cache'[r].expiresAt = t.claimedAt + NegativeCacheTTL
        BY <2>2 DEF UndoClaim, TypeOK, FailedRow
      <3>2. QED
        BY <2>a, <2>2, <3>1, ConfigAssumption DEF UndoClaim
    <2>3. CASE ~((Claim(h) \/ UndoClaim(h)) /\ t.repo = r)
      <3>1. cache'[r] = cache[r]
        BY <2>3 DEF LookupMiss, HandlerStep, BeginEnqueue, AbandonRequest, Claim, ClaimRefused,
           Send, UndoClaim, UndoLost, persistent, TypeOK
      <3>2. QED
        BY <2>b, <3>1
    <2>4. QED
      BY <2>1, <2>2, <2>3
  <1>e. QED
    BY <1>a, <1>b, <1>c, <1>d DEF DatesInv

LEMMA DatesWorkerStep ==
    ASSUME TypeOK, DatesInv, NEW w \in Workers, WorkerStep(w)
    PROVE  DatesInv'
  <1>a. /\ now' = now /\ UNCHANGED handler
        /\ \A x \in Workers : x # w => worker'[x] = worker[x]
    BY DEF WorkerStep, Dequeue, WorkerExit, Reserve, ReserveRefused, StartQuery,
       QuerySucceeds, QueryFails, SaveReady, SaveFailed, SaveLost, TurnToFail, TypeOK, persistent
  <1>b. \A i \in DOMAIN queue' : queue'[i].claimedAt <= now
    <2>1. CASE Dequeue(w)
      BY <2>1 DEF Dequeue, DatesInv, TypeOK
    <2>2. CASE queue' = queue
      BY <2>2 DEF DatesInv
    <2>3. QED
      BY <2>1, <2>2 DEF WorkerStep, WorkerExit, Reserve, ReserveRefused, StartQuery,
         QuerySucceeds, QueryFails, SaveReady, SaveFailed, SaveLost
  <1>c. /\ worker'[w].pc \notin {"idle", "exited"} =>
               worker'[w].task.claimedAt <= worker'[w].startedAt /\ worker'[w].startedAt <= now
        /\ worker'[w].pc = "save" => worker'[w].startedAt <= worker'[w].at
    <2>1. CASE Dequeue(w)
      <3>1. /\ worker'[w].task = queue[1] /\ worker'[w].startedAt = now
            /\ worker'[w].pc = "reserve" /\ 1 \in DOMAIN queue
        BY <2>1 DEF Dequeue, TypeOK
      <3>2. QED
        BY <3>1, DateTypes DEF DatesInv
    <2>2. CASE WorkerExit(w) \/ SaveReady(w) \/ SaveFailed(w) \/ SaveLost(w)
      <3>1. worker'[w].pc \in {"idle", "exited"}
        BY <2>2 DEF WorkerExit, SaveReady, SaveFailed, SaveLost, IdleWorker, TypeOK
      <3>2. QED
        BY <3>1
    <2>3. CASE Reserve(w) \/ StartQuery(w)
      <3>1. /\ worker[w].pc \in {"reserve", "ask"} /\ worker'[w].pc \in {"ask", "query"}
            /\ worker'[w].task = worker[w].task /\ worker'[w].startedAt = worker[w].startedAt
        <4>1. \E pc \in {"ask", "query"} : worker' = [worker EXCEPT ![w].pc = pc]
          BY <2>3 DEF Reserve, StartQuery
        <4>2. worker[w].pc \in {"reserve", "ask"} /\ worker \in [Workers -> WorkerState]
          BY <2>3 DEF Reserve, StartQuery, TypeOK
        <4>3. worker[w] \in [pc : {"reserve", "ask", "query"}, task : Task, startedAt : Times]
          BY <4>2 DEF WorkerState
        <4>4. QED
          BY ONLY <4>1, <4>2, <4>3, w \in Workers
      <3>2. QED
        BY <3>1 DEF DatesInv
    <2>4. CASE ReserveRefused(w) \/ QuerySucceeds(w) \/ QueryFails(w)
      <3>1. /\ worker[w].pc \in {"reserve", "ask", "query"}
            /\ worker'[w].task = worker[w].task /\ worker'[w].startedAt = worker[w].startedAt
            /\ worker'[w].pc = "fail" \/ (worker'[w].pc = "save" /\ worker'[w].at = now)
        BY <2>4 DEF ReserveRefused, QuerySucceeds, QueryFails, TurnToFail, TypeOK
      <3>2. QED
        BY <3>1 DEF DatesInv
    <2>5. QED
      BY <2>1, <2>2, <2>3, <2>4 DEF WorkerStep
  <1>d. \A r \in Repos : cache'[r].through <= cache'[r].expiresAt
    <2> SUFFICES ASSUME NEW r \in Repos PROVE cache'[r].through <= cache'[r].expiresAt
      OBVIOUS
    <2>1. CASE SaveReady(w) /\ worker[w].task.repo = r
      <3>1. /\ cache'[r].through = worker[w].startedAt
            /\ cache'[r].expiresAt = worker[w].at + CacheTTL
            /\ worker[w].pc = "save"
        BY <2>1 DEF SaveReady, TypeOK
      <3>2. worker[w].startedAt <= worker[w].at
        BY <3>1 DEF DatesInv
      <3>3. QED
        BY <3>1, <3>2, DateTypes, ConfigAssumption
    <2>2. CASE SaveFailed(w) /\ worker[w].task.repo = r
      <3>1. /\ cache'[r].through = 0
            /\ cache'[r].expiresAt = worker[w].at + NegativeCacheTTL
            /\ worker[w].pc = "fail"
        BY <2>2 DEF SaveFailed, FailedRow, TypeOK
      <3>2. QED
        BY <3>1, DateTypes, ConfigAssumption
    <2>3. CASE ~((SaveReady(w) \/ SaveFailed(w)) /\ worker[w].task.repo = r)
      <3>1. cache'[r] = cache[r]
        BY <2>3 DEF WorkerStep, Dequeue, WorkerExit, Reserve, ReserveRefused, StartQuery,
           QuerySucceeds, QueryFails, SaveReady, SaveFailed, SaveLost, persistent, TypeOK
      <3>2. QED
        BY <3>1 DEF DatesInv
    <2>4. QED
      BY <2>1, <2>2, <2>3
  <1>e. QED
    BY <1>a, <1>b, <1>c, <1>d DEF DatesInv

LEMMA DatesNext == TypeOK /\ DatesInv /\ Next => DatesInv'
  <1> SUFFICES ASSUME TypeOK, DatesInv, Next PROVE DatesInv'
    OBVIOUS
  <1>1. ASSUME NEW h \in Handlers, (\E r \in Repos : LookupMiss(h, r)) \/ HandlerStep(h)
        PROVE  DatesInv'
    BY <1>1, DatesHandlerStep
  <1>2. ASSUME NEW w \in Workers, WorkerStep(w) PROVE DatesInv'
    BY <1>2, DatesWorkerStep
  <1>3. CASE Close
    BY <1>3 DEF Close, DatesInv, persistent
  <1>4. CASE Restart
    BY <1>4 DEF Restart, DatesInv, IdleHandler, IdleWorker, persistent
  <1>5. CASE Tick
    <2>1. now' = now + 1 /\ UNCHANGED <<handler, worker, queue, cache>>
      BY <1>5 DEF Tick, volatile, persistent
    <2>2. /\ \A h \in Handlers : handler[h].pc \in {"claim", "send", "undo"} =>
                 handler[h].task.claimedAt \in Nat
          /\ \A i \in DOMAIN queue : queue[i].claimedAt \in Nat
      BY HandlerFields, DateTypes
    <2>3. QED
      BY <2>1, <2>2, DateTypes DEF DatesInv
  <1>6. QED
    BY <1>1, <1>2, <1>3, <1>4, <1>5 DEF Next

LEMMA LeasedNext ==
    ASSUME TypeOK, LeaseInv, Next, NEW r \in Repos \ overrun'
    PROVE  Leased(r)'
  <1>a. r \in Repos /\ (r \notin overrun => Leased(r))
    BY DEF LeaseInv
  <1>1. ASSUME NEW h \in Handlers, NEW q \in Repos, LookupMiss(h, q) PROVE Leased(r)'
    <2>1. /\ UNCHANGED <<cache, queue, worker, now, overrun>>
          /\ \A x \in Handlers : x # h => handler'[x] = handler[x]
          /\ handler'[h].pc = "verify"
      BY <1>1 DEF LookupMiss, TypeOK, persistent
    <2>2. \A x \in Handlers : HandlerHolds(x, r)' =>
              HandlerHolds(x, r) /\ handler'[x].task = handler[x].task
      BY <2>1 DEF HandlerHolds, Late
    <2>3. \A w \in Workers : WorkerHolds(w, r)' =>
              WorkerHolds(w, r) /\ worker'[w].task = worker[w].task
      BY <2>1 DEF WorkerHolds, Late
    <2>4. QueueQuiet(r)
      BY <1>a, <2>1 DEF QueueHolds, QueueQuiet, Leased, OneHolder, Late
    <2>5. QED
      BY <1>a, <2>1, <2>2, <2>3, <2>4, QuietFor
  <1>2. ASSUME NEW h \in Handlers, HandlerStep(h) PROVE Leased(r)'
    BY <1>2, LeasedHandlerStep
  <1>3. ASSUME NEW w \in Workers, WorkerStep(w) PROVE Leased(r)'
    BY <1>3, LeasedWorkerStep
  <1>4. CASE Close \/ Tick
    <2>1. /\ UNCHANGED <<cache, queue, worker, handler, overrun>>
          /\ now' = now \/ now' = now + 1
      BY <1>4 DEF Close, Tick, persistent, volatile
    <2>a. \A t \in Task : ~Late(t)' => ~Late(t)
      BY <2>1, DateTypes, ConfigAssumption DEF Late
    <2>2. \A x \in Handlers : HandlerHolds(x, r)' => HandlerHolds(x, r)
      BY <2>1, <2>a, HandlerFields DEF HandlerHolds
    <2>3. \A w \in Workers : WorkerHolds(w, r)' => WorkerHolds(w, r)
      BY <2>1, <2>a, WorkerFields DEF WorkerHolds
    <2>b. \A i \in DOMAIN queue : QueueHolds(i, r)' => QueueHolds(i, r)
      BY <2>1, <2>a, DateTypes DEF QueueHolds
    <2>4. QueueQuiet(r)
      BY <1>a, <2>1, <2>b DEF QueueQuiet, Leased, OneHolder
    <2>5. QED
      BY <1>a, <2>1, <2>2, <2>3, <2>4, QuietFor
  <1>5. CASE Restart
    <2>1. /\ \A x \in Handlers : ~HandlerHolds(x, r)'
          /\ \A w \in Workers : ~WorkerHolds(w, r)'
          /\ \A i \in DOMAIN queue' : ~QueueHolds(i, r)'
      BY <1>5 DEF Restart, HandlerHolds, WorkerHolds, QueueHolds, IdleHandler, IdleWorker
    <2>2. QED
      BY <1>a, <2>1, ReleasedFor
  <1>6. QED
    BY Next, <1>1, <1>2, <1>3, <1>4, <1>5 DEF Next

LEMMA LeaseNext == TypeOK /\ LeaseInv /\ [Next]_vars => LeaseInv'
  <1> SUFFICES ASSUME TypeOK, LeaseInv, [Next]_vars
               PROVE  LeaseInv'
    OBVIOUS
  <1>1. CASE Next
    <2>1. DatesInv'
      BY <1>1, DatesNext DEF LeaseInv
    <2>2. \A r \in Repos \ overrun' : Leased(r)'
      BY <1>1, LeasedNext
    <2>3. QED
      BY <2>1, <2>2 DEF LeaseInv
  <1>2. CASE UNCHANGED vars
    BY <1>2 DEF vars, LeaseInv, DatesInv, Leased, OneHolder, LeaseOn, HandlerHolds, WorkerHolds,
       QueueHolds, Late
  <1>3. QED
    BY <1>1, <1>2

LEMMA LeaseInit == Init => LeaseInv
  BY ConfigAssumption DEF Init, LeaseInv, DatesInv, Leased, OneHolder, HandlerHolds, WorkerHolds,
     QueueHolds, IdleHandler, IdleWorker, NoRow

LEMMA LeaseInductive == Spec => [](TypeOK /\ LeaseInv)
  BY TypeCorrect, LeaseInit, LeaseNext, PTL DEF Spec

\* Whatever the requests, the workers, the queue, a Close, a crash or lost
\* writes do, and however late some tasks run: until a late task has written
\* its row, a repository has at most one task inside its lease, and the row
\* carries that very lease.
THEOREM OneBuildPerLease == Spec => []LeaseHolds
  <1>1. TypeOK /\ LeaseInv => LeaseHolds
    <2> SUFFICES ASSUME TypeOK, LeaseInv, NEW r \in Repos \ overrun
                 PROVE  /\ \A x, y \in Holders(r) : ~Late(TaskAt(x)) /\ ~Late(TaskAt(y)) => x = y
                        /\ \A t \in OnTime(r) : /\ cache[r].status = "building"
                                                /\ cache[r].expiresAt = t.claimedAt + BuildTimeout
      BY DEF LeaseHolds
    <2>1. Leased(r)
      BY DEF LeaseInv
    <2>2. ASSUME NEW x \in Holders(r), ~Late(TaskAt(x))
          PROVE  \/ \E h \in Handlers : x = <<"handler", h>> /\ HandlerHolds(h, r)
                 \/ \E w \in Workers : x = <<"worker", w>> /\ WorkerHolds(w, r)
                 \/ \E i \in DOMAIN queue : x = <<"queue", i>> /\ QueueHolds(i, r)
      BY <2>2 DEF Holders, TaskAt, HandlerHolds, WorkerHolds, QueueHolds
    <2>3. \A x, y \in Holders(r) : ~Late(TaskAt(x)) /\ ~Late(TaskAt(y)) => x = y
      BY <2>1, <2>2 DEF Leased, OneHolder
    <2>4. \A t \in OnTime(r) : LeaseOn(r, t)
      BY <2>1 DEF OnTime, TasksInFlight, HandlerTasks, WorkerTasks, QueuedTasks, Leased,
         HandlerHolds, WorkerHolds, QueueHolds
    <2>5. QED
      BY <2>3, <2>4 DEF LeaseOn
  <1>2. QED
    BY <1>1, LeaseInductive, PTL

\* Who can change the row of r: a claim, or the outcome of a task. An outcome
\* is a late one, or that of the task whose lease the row carries.
LEMMA RowChanges ==
    ASSUME TypeOK, LeaseInv, Next, NEW r \in Repos, cache'[r] # cache[r], r \notin overrun'
    PROVE  \/ \E h \in Handlers : Claim(h) /\ handler[h].task.repo = r
           \/ \E h \in Handlers : UndoClaim(h) /\ handler[h].task.repo = r
                                  /\ LeaseOn(r, handler[h].task)
           \/ \E w \in Workers : /\ SaveReady(w) \/ SaveFailed(w)
                                 /\ worker[w].task.repo = r
                                 /\ LeaseOn(r, worker[w].task)
  <1>1. ASSUME NEW h \in Handlers, HandlerStep(h)
        PROVE  \/ Claim(h) /\ handler[h].task.repo = r
               \/ UndoClaim(h) /\ handler[h].task.repo = r /\ LeaseOn(r, handler[h].task)
    <2>1. CASE Claim(h)
      BY <2>1 DEF Claim, TypeOK
    <2>2. CASE UndoClaim(h)
      <3>1. handler[h].task.repo = r
        BY <2>2 DEF UndoClaim, TypeOK
      <3>2. HandlerHolds(h, r) /\ r \notin overrun
        BY <2>2, <3>1 DEF UndoClaim, HandlerHolds, Writes
      <3>3. QED
        BY <2>2, <3>1, <3>2 DEF LeaseInv, Leased
    <2>3. CASE BeginEnqueue(h) \/ AbandonRequest(h) \/ ClaimRefused(h) \/ Send(h) \/ UndoLost(h)
      BY <2>3 DEF BeginEnqueue, AbandonRequest, ClaimRefused, Send, UndoLost, persistent
    <2>4. QED
      BY <1>1, <2>1, <2>2, <2>3 DEF HandlerStep
  <1>2. ASSUME NEW w \in Workers, WorkerStep(w)
        PROVE  /\ SaveReady(w) \/ SaveFailed(w)
               /\ worker[w].task.repo = r
               /\ LeaseOn(r, worker[w].task)
    <2>1. CASE SaveReady(w) \/ SaveFailed(w)
      <3>1. worker[w].task.repo = r
        BY <2>1 DEF SaveReady, SaveFailed, TypeOK
      <3>2. WorkerHolds(w, r) /\ r \notin overrun
        BY <2>1, <3>1 DEF SaveReady, SaveFailed, WorkerHolds, Writes
      <3>3. QED
        BY <2>1, <3>1, <3>2 DEF LeaseInv, Leased
    <2>2. CASE \/ Dequeue(w) \/ WorkerExit(w) \/ Reserve(w) \/ ReserveRefused(w)
               \/ StartQuery(w) \/ QuerySucceeds(w) \/ QueryFails(w) \/ SaveLost(w)
      BY <2>2 DEF Dequeue, WorkerExit, Reserve, ReserveRefused, StartQuery, QuerySucceeds,
         QueryFails, SaveLost, persistent
    <2>3. QED
      BY <1>2, <2>1, <2>2 DEF WorkerStep
  <1>3. CASE (\E h \in Handlers, q \in Repos : LookupMiss(h, q)) \/ Close \/ Restart \/ Tick
    BY <1>3 DEF LookupMiss, Close, Restart, Tick, persistent
  <1>4. QED
    BY Next, <1>1, <1>2, <1>3 DEF Next

\* A ready row is replaced or failed inside its TTL only by the write of a late
\* task or after one: not by a second claim, an undone claim, a build inside its
\* lease, a Close, a crash or a restart.
THEOREM ReadyRowsEndLate == Spec => ReadyEndsLate
  <1>1. ASSUME TypeOK, LeaseInv, Next, NEW r \in Repos, cache[r].status = "ready", Live(cache[r])
        PROVE  cache'[r] = cache[r] \/ r \in overrun'
    <2> SUFFICES ASSUME cache'[r] # cache[r], r \notin overrun' PROVE FALSE
      OBVIOUS
    <2>1. \A t : ~LeaseOn(r, t)
      BY <1>1 DEF LeaseOn
    <2>2. PICK h \in Handlers : Claim(h) /\ handler[h].task.repo = r
      BY <1>1, <2>1, RowChanges
    <2>3. /\ cache[r].expiresAt <= handler[h].task.claimedAt
          /\ handler[h].task.claimedAt <= now
          /\ cache[r].expiresAt > now
      BY <1>1, <2>2 DEF Claim, LeaseInv, DatesInv, Live
    <2>4. handler[h].task.claimedAt \in Nat /\ now \in Nat /\ cache[r].expiresAt \in Nat
      BY <1>1, <2>2, HandlerFields, DateTypes DEF Claim
    <2>5. QED
      BY <2>3, <2>4
  <1>2. TypeOK /\ LeaseInv /\ [Next]_vars =>
            [ \A r \in Repos :
                cache[r].status = "ready" /\ Live(cache[r]) =>
                    cache'[r] = cache[r] \/ r \in overrun' ]_vars
    BY <1>1
  <1>3. QED
    BY <1>2, LeaseInductive, PTL DEF Spec, ReadyEndsLate

\* The published series of a repository steps back to an earlier query only by
\* the write of a late task or after one.
THEOREM SeriesStepsBackLate == Spec => StepsBackLate
  <1>1. ASSUME TypeOK, LeaseInv, Next, NEW r \in Repos, cache'[r].status = "ready"
        PROVE  cache'[r].through >= cache[r].through \/ r \in overrun'
    <2> SUFFICES ASSUME r \notin overrun' PROVE cache'[r].through >= cache[r].through
      OBVIOUS
    <2>1. cache[r].through \in Nat
      BY <1>1, DateTypes
    <2>2. CASE cache'[r] = cache[r]
      BY <2>1, <2>2
    <2>3. CASE cache'[r] # cache[r]
      <3>1. ASSUME NEW h \in Handlers, handler[h].task.repo = r, Claim(h) \/ UndoClaim(h) PROVE FALSE
        <4>1. CASE Claim(h)
          BY <1>1, <3>1, <4>1 DEF Claim, TypeOK
        <4>2. CASE UndoClaim(h)
          BY <1>1, <3>1, <4>2 DEF UndoClaim, TypeOK, FailedRow
        <4>3. QED
          BY <3>1, <4>1, <4>2
      <3>2. PICK w \in Workers : /\ SaveReady(w) \/ SaveFailed(w)
                                 /\ worker[w].task.repo = r
                                 /\ LeaseOn(r, worker[w].task)
        BY <1>1, <2>3, <3>1, RowChanges
      <3>3. SaveReady(w)
        BY <1>1, <3>2 DEF SaveFailed, TypeOK, FailedRow
      <3>4. cache'[r].through = worker[w].startedAt
        BY <1>1, <3>2, <3>3 DEF SaveReady, TypeOK
      <3>5. /\ cache[r].through <= worker[w].task.claimedAt
            /\ worker[w].task.claimedAt <= worker[w].startedAt
        BY <1>1, <3>2, <3>3 DEF SaveReady, LeaseOn, LeaseInv, DatesInv
      <3>6. worker[w].startedAt \in Nat /\ worker[w].task.claimedAt \in Nat
        BY <1>1, <3>3, WorkerFields, DateTypes DEF SaveReady
      <3>7. QED
        BY <2>1, <3>4, <3>5, <3>6
    <2>4. QED
      BY <2>2, <2>3
  <1>2. TypeOK /\ LeaseInv /\ [Next]_vars =>
            [ \A r \in Repos :
                cache'[r].status = "ready" =>
                    cache'[r].through >= cache[r].through \/ r \in overrun' ]_vars
    BY <1>1
  <1>3. QED
    BY <1>2, LeaseInductive, PTL DEF Spec, StepsBackLate

=============================================================================
