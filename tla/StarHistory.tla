---------------------------- MODULE StarHistory ----------------------------
(***************************************************************************)
(* The star-history service: cache-first lookups, leases in SQLite, a      *)
(* bounded queue, a fixed set of workers and a persistent daily query      *)
(* budget (internal/starhistory/service.go, internal/store/star_history.go *)
(* and the handler in front of them).                                      *)
(*                                                                         *)
(* Persistent state (survives Restart): cache, reserved.                   *)
(* Volatile state (lost by Restart): queue, handler, worker, closed.       *)
(* Every SQL statement is one atomic step; everything between two          *)
(* statements of one goroutine may be interleaved with anybody else.       *)
(***************************************************************************)
EXTENDS Naturals, Sequences, FiniteSets

CONSTANTS
    Repos,              \* gh_repo_id values
    Handlers,           \* HTTP requests that can be in the handler at once
    Workers,            \* goroutines started by NewService
    QueueCapacity,      \* ServiceConfig.QueueCapacity
    CacheTTL,           \* ServiceConfig.CacheTTL
    NegativeCacheTTL,   \* ServiceConfig.NegativeCacheTTL
    BuildTimeout,       \* ServiceConfig.BuildTimeout
    MaximumBytesBilled, \* ServiceConfig.MaximumBytesBilled
    DailyMaximumBytes,  \* ServiceConfig.DailyMaximumBytes
    DayLength,          \* clock units in one UTC day
    MaxTime,            \* bound: the last clock value explored
    MaxFaults           \* bound: restarts plus store writes that fail

\* What NewService insists on before it starts (every guard is positive and
\* the daily budget pays for at least one query), plus the model's bounds.
ASSUME ConfigAssumption ==
    /\ QueueCapacity \in Nat \ {0}
    /\ CacheTTL \in Nat \ {0}
    /\ NegativeCacheTTL \in Nat \ {0}
    /\ BuildTimeout \in Nat \ {0}
    /\ MaximumBytesBilled \in Nat \ {0}
    /\ DailyMaximumBytes \in Nat
    /\ DailyMaximumBytes >= MaximumBytesBilled
    /\ DayLength \in Nat \ {0}
    /\ MaxTime \in Nat
    /\ MaxFaults \in Nat
    /\ IsFiniteSet(Workers)

VARIABLES
    now,      \* s.now(), in whole seconds as the rows store it
    cache,    \* repo_star_history_cache, one row per repository
    reserved, \* star_history_daily_budgets.reserved_bytes per UTC day
    queue,    \* the bounded channel s.queue
    handler,  \* what each HTTP request is about to do
    worker,   \* what each worker goroutine is about to do
    closed,   \* s.ctx has been cancelled
    queried,  \* history: provider queries ever started, per budget day
    overrun,  \* history: repositories whose row a late task has written
    faults    \* bound: restarts and failed writes so far

persistent == <<cache, reserved>>
volatile   == <<queue, handler, worker, closed>>
vars       == <<now, cache, reserved, queue, handler, worker, closed, queried, overrun, faults>>

-----------------------------------------------------------------------------
(* Data *)

Times == 0..MaxTime
DayOf(t) == t \div DayLength
Days  == {DayOf(t) : t \in Times}

\* points_json / generated_at are abstracted to the instant up to which the
\* provider was asked for events (EndDate); 0 is the empty series.
Row == [status : {"none", "building", "ready", "failed"},
        expiresAt : Nat, through : Times]
NoRow == [status |-> "none", expiresAt |-> 0, through |-> 0]

\* A claimed build; claimedAt is the `now` that Enqueue passed to the claim.
Task == [repo : Repos, claimedAt : Times]

HandlerState == [pc : {"idle"}]
                \cup [pc : {"verify"}, repo : Repos]
                \cup [pc : {"claim", "send", "undo"}, task : Task]
IdleHandler == [pc |-> "idle"]

WorkerState == [pc : {"idle", "exited"}]
               \cup [pc : {"reserve", "ask", "query"}, task : Task, startedAt : Times]
               \cup [pc : {"fail", "save"}, task : Task, startedAt : Times, at : Times]
IdleWorker == [pc |-> "idle"]

Live(row) == row.status # "none" /\ row.expiresAt > now

Building(r) == cache[r].status = "building" /\ Live(cache[r])

\* Where the claimed tasks of repository r are.
Holders(r) ==
    {<<"handler", h>> : h \in {x \in Handlers :
        handler[x].pc \in {"send", "undo"} /\ handler[x].task.repo = r}}
    \cup {<<"worker", w>> : w \in {x \in Workers :
        worker[x].pc \notin {"idle", "exited"} /\ worker[x].task.repo = r}}
    \cup {<<"queue", i>> : i \in {x \in DOMAIN queue : queue[x].repo = r}}

\* The task in one of those places.
TaskAt(x) ==
    IF x[1] = "queue" THEN queue[x[2]]
    ELSE IF x[1] = "worker" THEN worker[x[2]].task ELSE handler[x[2]].task

\* A task whose lease has run out. The code bounds a build by BuildTimeout from
\* its dequeue, but neither the wait in the queue nor the final write, and it
\* never looks at the lease again: a late task goes on like any other.
Late(t) == now >= t.claimedAt + BuildTimeout

\* The row of t.repo is written for t. After a late write the row is no longer
\* under the lease protocol ...
Writes(t) == overrun' = IF Late(t) THEN overrun \cup {t.repo} ELSE overrun

\* ... until it is claimed at a time when nobody works for it.
Reclaims(r) == overrun' = IF Holders(r) = {} THEN overrun \ {r} ELSE overrun

-----------------------------------------------------------------------------
Init ==
    /\ now = 0
    /\ cache = [r \in Repos |-> NoRow]
    /\ reserved = [d \in Days |-> 0]
    /\ queue = <<>>
    /\ handler = [h \in Handlers |-> IdleHandler]
    /\ worker = [w \in Workers |-> IdleWorker]
    /\ closed = FALSE
    /\ queried = [d \in Days |-> 0]
    /\ overrun = {}
    /\ faults = 0

-----------------------------------------------------------------------------
(* HTTP side: HandleStarHistory, Lookup, Enqueue *)

\* Lookup finds no row, or one that has expired: the handler goes on to verify
\* the repository. Any other answer is read-only and ends the request.
LookupMiss(h, r) ==
    /\ handler[h].pc = "idle"
    /\ ~Live(cache[r])
    /\ handler' = [handler EXCEPT ![h] = [pc |-> "verify", repo |-> r]]
    /\ UNCHANGED <<now, persistent, queue, worker, closed, queried, overrun, faults>>

\* GetRepository confirmed the repository; Enqueue finds the service open and
\* reads the clock it will claim with.
BeginEnqueue(h) ==
    /\ handler[h].pc = "verify"
    /\ ~closed
    /\ handler' = [handler EXCEPT ![h] =
                     [pc |-> "claim",
                      task |-> [repo |-> handler[h].repo, claimedAt |-> now]]]
    /\ UNCHANGED <<now, persistent, queue, worker, closed, queried, overrun, faults>>

\* The request ends without a claim: GitHub refused or failed, the repository
\* is private or renamed, the service is closed, the client went away.
AbandonRequest(h) ==
    /\ handler[h].pc \in {"verify", "claim"}
    /\ handler' = [handler EXCEPT ![h] = IdleHandler]
    /\ UNCHANGED <<now, persistent, queue, worker, closed, queried, overrun, faults>>

\* Mutant of Claim: no WHERE, any row is taken.
ClaimAnyRow(h) ==
    LET t == handler[h].task IN
    /\ handler[h].pc = "claim"
    /\ cache' = [cache EXCEPT ![t.repo].status = "building",
                              ![t.repo].expiresAt = t.claimedAt + BuildTimeout]
    /\ handler' = [handler EXCEPT ![h].pc = "send"]
    /\ Reclaims(t.repo)
    /\ UNCHANGED <<now, reserved, queue, worker, closed, queried, faults>>

\* Mutant of Claim: only building rows are protected, ready ones are not.
ClaimReadyRow(h) ==
    LET t == handler[h].task IN
    /\ handler[h].pc = "claim"
    /\ cache[t.repo].status = "building" => cache[t.repo].expiresAt <= t.claimedAt
    /\ cache' = [cache EXCEPT ![t.repo].status = "building",
                              ![t.repo].expiresAt = t.claimedAt + BuildTimeout]
    /\ handler' = [handler EXCEPT ![h].pc = "send"]
    /\ Reclaims(t.repo)
    /\ UNCHANGED <<now, reserved, queue, worker, closed, queried, faults>>

\* Mutant of Claim: expires_at is left out of the SET list, there is no lease.
ClaimWithoutLease(h) ==
    LET t == handler[h].task IN
    /\ handler[h].pc = "claim"
    /\ cache[t.repo].expiresAt <= t.claimedAt
    /\ cache' = [cache EXCEPT ![t.repo].status = "building"]
    /\ handler' = [handler EXCEPT ![h].pc = "send"]
    /\ Reclaims(t.repo)
    /\ UNCHANGED <<now, reserved, queue, worker, closed, queried, faults>>

\* ClaimStarHistoryBuild: one upsert whose WHERE lets only an absent or expired
\* row be taken. The points of the previous row stay in place.
Claim(h) ==
    LET t == handler[h].task IN
    /\ handler[h].pc = "claim"
    /\ cache[t.repo].expiresAt <= t.claimedAt
    /\ cache' = [cache EXCEPT ![t.repo].status = "building",
                              ![t.repo].expiresAt = t.claimedAt + BuildTimeout]
    /\ handler' = [handler EXCEPT ![h].pc = "send"]
    /\ Reclaims(t.repo)
    /\ UNCHANGED <<now, reserved, queue, worker, closed, queried, faults>>

\* The upsert touched no row: someone else's row is still valid.
ClaimRefused(h) ==
    /\ handler[h].pc = "claim"
    /\ cache[handler[h].task.repo].expiresAt > handler[h].task.claimedAt
    /\ handler' = [handler EXCEPT ![h] = IdleHandler]
    /\ UNCHANGED <<now, persistent, queue, worker, closed, queried, overrun, faults>>

\* Mutant of Send: a full queue is reported without undoing the claim.
SendWithoutUndo(h) ==
    /\ handler[h].pc = "send"
    /\ queue' = IF Len(queue) < QueueCapacity
                THEN Append(queue, handler[h].task) ELSE queue
    /\ handler' = [handler EXCEPT ![h] = IdleHandler]
    /\ UNCHANGED <<now, persistent, worker, closed, queried, overrun, faults>>

\* The non-blocking send: the queue has room, or Enqueue turns to its undo.
Send(h) ==
    /\ handler[h].pc = "send"
    /\ \/ /\ Len(queue) < QueueCapacity
          /\ queue' = Append(queue, handler[h].task)
          /\ handler' = [handler EXCEPT ![h] = IdleHandler]
       \/ /\ Len(queue) >= QueueCapacity
          /\ handler' = [handler EXCEPT ![h].pc = "undo"]
          /\ UNCHANGED queue
    /\ UNCHANGED <<now, persistent, worker, closed, queried, overrun, faults>>

\* Mutant of FailedRow: the negative TTL is subtracted.
FailedRowInThePast(at) ==
    [status |-> "failed", expiresAt |-> at - NegativeCacheTTL, through |-> 0]

\* saveFailed: an unconditional upsert that drops the old points and starts the
\* negative TTL at the instant `at` the caller passed.
FailedRow(at) ==
    [status |-> "failed", expiresAt |-> at + NegativeCacheTTL, through |-> 0]

\* Enqueue's undo, dated with the `now` read before the claim.
UndoClaim(h) ==
    /\ handler[h].pc = "undo"
    /\ cache' = [cache EXCEPT ![handler[h].task.repo] = FailedRow(handler[h].task.claimedAt)]
    /\ handler' = [handler EXCEPT ![h] = IdleHandler]
    /\ Writes(handler[h].task)
    /\ UNCHANGED <<now, reserved, queue, worker, closed, queried, faults>>

\* The undo's write fails; its error is discarded.
UndoLost(h) ==
    /\ handler[h].pc = "undo"
    /\ faults < MaxFaults
    /\ faults' = faults + 1
    /\ handler' = [handler EXCEPT ![h] = IdleHandler]
    /\ UNCHANGED <<now, persistent, queue, worker, closed, queried, overrun>>

-----------------------------------------------------------------------------
(* Worker side: worker, build *)

\* ctx of the build: cancelled by Close, or past its own deadline.
CtxAlive(w) == ~closed /\ now < worker[w].startedAt + BuildTimeout

\* select picks the queue; it may do so after Close as long as jobs remain.
Dequeue(w) ==
    /\ worker[w].pc = "idle"
    /\ queue # <<>>
    /\ worker' = [worker EXCEPT ![w] =
                    [pc |-> "reserve", task |-> Head(queue), startedAt |-> now]]
    /\ queue' = Tail(queue)
    /\ UNCHANGED <<now, persistent, handler, closed, queried, overrun, faults>>

\* Mutant of WorkerExit: the context is looked at only after a receive.
WorkerExitOnReceive(w) ==
    /\ worker[w].pc = "idle"
    /\ closed
    /\ queue # <<>>
    /\ queue' = Tail(queue)
    /\ worker' = [worker EXCEPT ![w] = [pc |-> "exited"]]
    /\ UNCHANGED <<now, persistent, handler, closed, queried, overrun, faults>>

\* select picks ctx.Done: the goroutine returns.
WorkerExit(w) ==
    /\ worker[w].pc = "idle"
    /\ closed
    /\ worker' = [worker EXCEPT ![w] = [pc |-> "exited"]]
    /\ UNCHANGED <<now, persistent, queue, handler, closed, queried, overrun, faults>>

\* The worker turns to saveFailed with the instant `at`.
TurnToFail(w, at) ==
    worker' = [worker EXCEPT ![w] = [pc |-> "fail", task |-> worker[w].task,
                                     startedAt |-> worker[w].startedAt, at |-> at]]

\* Mutant of Reserve: the cap is compared before the amount is added.
ReserveUpToCap(w) ==
    LET d == DayOf(worker[w].startedAt) IN
    /\ worker[w].pc = "reserve"
    /\ CtxAlive(w)
    /\ reserved[d] < DailyMaximumBytes
    /\ reserved' = [reserved EXCEPT ![d] = @ + MaximumBytesBilled]
    /\ worker' = [worker EXCEPT ![w].pc = "ask"]
    /\ UNCHANGED <<now, cache, queue, handler, closed, queried, overrun, faults>>

\* ReserveStarHistoryDailyBudget succeeds: one upsert, capped by its WHERE.
Reserve(w) ==
    LET d == DayOf(worker[w].startedAt) IN
    /\ worker[w].pc = "reserve"
    /\ CtxAlive(w)
    /\ reserved[d] + MaximumBytesBilled <= DailyMaximumBytes
    /\ reserved' = [reserved EXCEPT ![d] = @ + MaximumBytesBilled]
    /\ worker' = [worker EXCEPT ![w].pc = "ask"]
    /\ UNCHANGED <<now, cache, queue, handler, closed, queried, overrun, faults>>

\* The budget is exhausted, or the statement fails (always once ctx is done).
\* Both failures are dated with startedAt.
ReserveRefused(w) ==
    /\ worker[w].pc = "reserve"
    /\ TurnToFail(w, worker[w].startedAt)
    /\ UNCHANGED <<now, persistent, queue, handler, closed, queried, overrun, faults>>

\* The provider sends the query: from here on it is billed.
StartQuery(w) ==
    /\ worker[w].pc = "ask"
    /\ CtxAlive(w)
    /\ queried' = [queried EXCEPT ![DayOf(worker[w].startedAt)] = @ + 1]
    /\ worker' = [worker EXCEPT ![w].pc = "query"]
    /\ UNCHANGED <<now, persistent, queue, handler, closed, overrun, faults>>

\* Events, normalisation, exact snapshots and merge all succeeded; generatedAt
\* is read. ListStarHistorySnapshots still ran under the build's ctx.
QuerySucceeds(w) ==
    /\ worker[w].pc = "query"
    /\ CtxAlive(w)
    /\ worker' = [worker EXCEPT ![w] =
                    [pc |-> "save", task |-> worker[w].task,
                     startedAt |-> worker[w].startedAt, at |-> now]]
    /\ UNCHANGED <<now, persistent, queue, handler, closed, queried, overrun, faults>>

\* Mutant of QueryFails: the provider is called without the build's context, so
\* neither the deadline nor Close ends a query.
QueryFailsOnlyAlive(w) ==
    /\ worker[w].pc \in {"ask", "query"}
    /\ CtxAlive(w)
    /\ TurnToFail(w, now)
    /\ UNCHANGED <<now, persistent, queue, handler, closed, queried, overrun, faults>>

\* The provider, the normalisation, the snapshot read or the merge failed, or
\* ctx ended: dated with the clock at that moment.
QueryFails(w) ==
    /\ worker[w].pc \in {"ask", "query"}
    /\ TurnToFail(w, now)
    /\ UNCHANGED <<now, persistent, queue, handler, closed, queried, overrun, faults>>

\* SaveStarHistoryReady: an unconditional upsert under context.Background().
SaveReady(w) ==
    /\ worker[w].pc = "save"
    /\ cache' = [cache EXCEPT ![worker[w].task.repo] =
                   [status |-> "ready",
                    expiresAt |-> worker[w].at + CacheTTL,
                    through |-> worker[w].startedAt]]
    /\ worker' = [worker EXCEPT ![w] = IdleWorker]
    /\ Writes(worker[w].task)
    /\ UNCHANGED <<now, reserved, queue, handler, closed, queried, faults>>

SaveFailed(w) ==
    /\ worker[w].pc = "fail"
    /\ cache' = [cache EXCEPT ![worker[w].task.repo] = FailedRow(worker[w].at)]
    /\ worker' = [worker EXCEPT ![w] = IdleWorker]
    /\ Writes(worker[w].task)
    /\ UNCHANGED <<now, reserved, queue, handler, closed, queried, faults>>

\* The final write fails; build discards the error and the row stays building.
SaveLost(w) ==
    /\ worker[w].pc \in {"save", "fail"}
    /\ faults < MaxFaults
    /\ faults' = faults + 1
    /\ worker' = [worker EXCEPT ![w] = IdleWorker]
    /\ UNCHANGED <<now, persistent, queue, handler, closed, queried, overrun>>

-----------------------------------------------------------------------------
(* Process and environment *)

\* Close cancels s.ctx and then waits until every worker has exited.
Close ==
    /\ ~closed
    /\ closed' = TRUE
    /\ UNCHANGED <<now, persistent, queue, handler, worker, queried, overrun, faults>>

\* The process ends, by a crash or after Close, and a new one starts with
\* NewService: only the two tables survive.
Restart ==
    /\ faults < MaxFaults
    /\ faults' = faults + 1
    /\ queue' = <<>>
    /\ handler' = [h \in Handlers |-> IdleHandler]
    /\ worker' = [w \in Workers |-> IdleWorker]
    /\ closed' = FALSE
    /\ UNCHANGED <<now, persistent, queried, overrun>>

Tick ==
    /\ now < MaxTime
    /\ now' = now + 1
    /\ UNCHANGED <<persistent, volatile, queried, overrun, faults>>

HandlerStep(h) ==
    \/ BeginEnqueue(h) \/ AbandonRequest(h)
    \/ Claim(h) \/ ClaimRefused(h) \/ Send(h)
    \/ UndoClaim(h) \/ UndoLost(h)

WorkerStep(w) ==
    \/ Dequeue(w) \/ WorkerExit(w)
    \/ Reserve(w) \/ ReserveRefused(w)
    \/ StartQuery(w) \/ QuerySucceeds(w) \/ QueryFails(w)
    \/ SaveReady(w) \/ SaveFailed(w) \/ SaveLost(w)

Next ==
    \/ \E h \in Handlers : (\E r \in Repos : LookupMiss(h, r)) \/ HandlerStep(h)
    \/ \E w \in Workers : WorkerStep(w)
    \/ Close
    \/ Restart
    \/ Tick

Spec == Init /\ [][Next]_vars

\* Goroutines that can run do run; requests, Close, restarts and the passing of
\* time are the environment's choice.
FairSpec ==
    /\ Spec
    /\ \A h \in Handlers : WF_vars(HandlerStep(h))
    /\ \A w \in Workers : WF_vars(WorkerStep(w))

-----------------------------------------------------------------------------
(* What the service is for *)

TypeOK ==
    /\ now \in Times
    /\ cache \in [Repos -> Row]
    /\ reserved \in [Days -> Nat]
    /\ queue \in Seq(Task)
    /\ handler \in [Handlers -> HandlerState]
    /\ worker \in [Workers -> WorkerState]
    /\ closed \in BOOLEAN
    /\ queried \in [Days -> Nat]
    /\ overrun \subseteq Repos
    /\ faults \in 0..MaxFaults

\* The queries ever started against one day's budget, by all workers of all
\* processes, cost at most what was reserved for that day, and never more than
\* the configured daily maximum (README: persistent UTC daily worker budget).
BudgetSafe ==
    \A d \in Days :
        /\ queried[d] * MaximumBytesBilled <= reserved[d]
        /\ reserved[d] <= DailyMaximumBytes

\* Workers that have reserved on day d and not yet sent their query.
Asking(d) == {w \in Workers : worker[w].pc = "ask" /\ DayOf(worker[w].startedAt) = d}

\* The inductive form of BudgetSafe: a reservation is spent by at most one
\* query, so the queries started plus those still to be sent are paid for.
\* Reservations of failed builds and dead processes are never given back.
BudgetInv ==
    \A d \in Days :
        /\ (queried[d] + Cardinality(Asking(d))) * MaximumBytesBilled <= reserved[d]
        /\ reserved[d] <= DailyMaximumBytes

HandlerTasks == {handler[h].task : h \in {x \in Handlers : handler[x].pc \in {"send", "undo"}}}
WorkerTasks  == {worker[w].task : w \in {x \in Workers : worker[x].pc \notin {"idle", "exited"}}}
QueuedTasks  == {queue[i] : i \in DOMAIN queue}
TasksInFlight == HandlerTasks \cup WorkerTasks \cup QueuedTasks

\* As long as no write was lost and no process died, a row that answers
\* "building" has the very task its lease was claimed for under way, with a
\* request, in the queue or with a worker: Enqueue's undo of a full queue leaves
\* no lease behind that would only run out, and no other task's outcome counts
\* as its own. (A crash or a lost write does leave such a row; the lease ends it.)
NoFalseBuilding ==
    faults = 0 =>
        \A r \in Repos : Building(r) =>
            \E t \in TasksInFlight :
                t.repo = r /\ cache[r].expiresAt = t.claimedAt + BuildTimeout

\* Tasks of r that somebody still holds inside their lease.
OnTime(r) == {t \in TasksInFlight : t.repo = r /\ ~Late(t)}

\* What a lease gives, late tasks among the others: unless one of them has
\* written the row, a repository has at most one task inside its lease, one
\* request, job or worker has it, and the row still carries that lease, so that
\* no second build is claimed before it ends (ClaimStarHistoryBuild: an
\* unexpired building row deduplicates the builds of one repository). A job that
\* waited in the queue past its lease does not disturb the build that was
\* claimed after it until its own outcome is written.
LeaseHolds ==
    \A r \in Repos \ overrun :
        /\ \A x, y \in Holders(r) : ~Late(TaskAt(x)) /\ ~Late(TaskAt(y)) => x = y
        /\ \A t \in OnTime(r) : cache[r].status = "building"
                               /\ cache[r].expiresAt = t.claimedAt + BuildTimeout

\* The doc of ClaimStarHistoryBuild, without exception: a ready row is neither
\* replaced nor failed before its TTL has passed. The code does not give it: a
\* late task replaces such a row.
ReadyKeptForTTL ==
    [][ \A r \in Repos :
          cache[r].status = "ready" /\ Live(cache[r]) => cache'[r] = cache[r] ]_vars

\* What the code gives of it: only the write of a late task, or a step that
\* comes after one while old tasks are still about, replaces or fails a ready
\* row inside its TTL; requests, undone claims, builds inside their lease,
\* crashes and restarts do not.
ReadyEndsLate ==
    [][ \A r \in Repos :
          cache[r].status = "ready" /\ Live(cache[r]) =>
              cache'[r] = cache[r] \/ r \in overrun' ]_vars

\* A published series steps back to an earlier query, directly or over a
\* building row that kept the old points, only through such a late write:
\* queries of one repository may overlap and end in any order.
StepsBackLate ==
    [][ \A r \in Repos :
          cache'[r].status = "ready" =>
              cache'[r].through >= cache[r].through \/ r \in overrun' ]_vars

\* No building lease is written once the service has been closed
\* (ErrServiceClosed, service.go: closing prevents new building leases).
NoLeaseAfterClose ==
    [][ closed /\ closed' =>
          \A r \in Repos : cache'[r].status = "building" => cache[r] = cache'[r] ]_vars

\* Every claimed build is resolved, unless the service is closed: the queue is
\* drained and no worker waits for ever.
BuildsResolve ==
    \A t \in Task :
        (t \in TasksInFlight)
            ~> (closed \/ t \notin TasksInFlight)

\* Close returns: once the context is cancelled every worker exits, although
\* select may go on taking jobs from the queue (or the process is replaced).
CloseReturns == closed ~> (~closed \/ \A w \in Workers : worker[w].pc = "exited")

=============================================================================
