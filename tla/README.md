# A TLA+ model of Saltcorn

Saltcorn is a no-code platform for database applications. This directory holds
formal models of its parts that are hard to test. Of the Node.js program: what workflow
runs do when the scheduler, requests, background timers, other processes and crashes meet;
how a run walks through nested loops, pauses and errors; the named locks that runs use against
one another; transactions that share a request context; which node runs the
scheduler and its periodic events. Of its successor in Go: how a route changes its owner, the
lease of the scheduler's jobs, and retried requests with the outbox. TLC checks the models on
small instances; TLAPS proves the theorems for all values of the constants.

Paths are relative to the repository; `data/` stands for
`packages/saltcorn-data/`, `go/` for `migracao/backend/`.

## 1. The system

The repository holds two programs. The product is a Node.js application
(`packages/`): a cluster of processes, a primary and its workers, on one or
several nodes, over one PostgreSQL database (or SQLite in a single process).
`migracao/` is a rewrite of the server side in Go, with a plan to move routes
over one by one. The components, what they keep and what they do:

| Component | State | Operations | Talks to |
|---|---|---|---|
| Workflow runs, `data/models/workflow_run.ts` | rows `_sc_workflow_runs` (status, current_step, wait_info, context); objects in memory; timers of background steps | create, run, provide_form_input, getResumableWorkflows, runResumableWorkflows, prune, delete | scheduler, requests, mutex, transactions |
| Named locks, `data/models/multi_node_mutex.ts` | advisory locks of the server, one pooled connection for each; without PostgreSQL a set and queues in the process | acquire, release, releaseAll, withLock | workflow steps, pool |
| Scheduler, `data/models/scheduler.ts` | next due times in the configuration, the loop | tick: due triggers, snapshots, resume runs, prune, mail queue, backup | triggers, runs, configuration |
| Server, `server/serve.js` | leader lock, stop flag, workers, node connection | elect leader, monitor, start and stop the scheduler, pass messages on | processes, nodes, scheduler |
| Tenant state, `data/db/state.ts` | caches of configuration, tables, triggers, roles in every process; `waitingWorkflows` | refresh_*, setConfig, processSend | server, all models |
| PostgreSQL driver, `postgres/postgres.ts` | pool, request context (client, inTransaction, afterCommit) | withTransaction, tryCatchInTransaction, afterCommit, whenTransactionisFree | all models |
| Triggers and actions, `data/models/trigger.ts` | trigger rows, cache | emitEvent, runWithoutRow, runTableTriggers | runs, scheduler, tables |
| Requests, `server/routes/actions.ts` | none | run a trigger, fill-workflow-form, resume-workflow, delete-run | runs |
| Mobile synchronisation | local SQLite, offline flags, upload and sync_info | upload, poll, download, clean up | `server/routes/sync.ts`, CLI |
| Go leases and scheduler, `go/internal/platform/lease`, `go/internal/scheduler` | `_sc_leases`, `next_run_at` of triggers | Acquire, dispatch of due triggers | worker |
| Go outbox, `go/internal/platform/outbox` | `_sc_outbox`, `_sc_idempotency_keys` | DoTx, enqueue, process, mark | worker, handlers, triggers |
| Go cutover, `go/internal/platform/cutover` | owner of each capability, in the database and in each process; work in flight | SwitchOwner, Begin, Drain, LoadFromRegistry | handlers, jobs |
| Go records and triggers, `go/internal/records`, `go/internal/triggers` | records with a `_version` | PATCH, AfterCommit events | outbox |
| Go workflows, `go/internal/workflow` | runs, step_seq | Start, Advance, Resume | worker |

Rendering, editing, plugins, backup, the CRUD layer and the command line tools
are left out: large, but sequential, with their hazards in the transactions
below them. `PROJECT.json` lists every component with its status.

### What is hard, and what makes a component correct

* **Workflow runs.** There is no lock and no version on a run. A call of
  `run()` works on the object it was given - read from the row at some earlier
  time - and decides by it. Objects come from a request, from the list that the
  scheduler read, from the closure of a `setTimeout`. Each process has its own
  `waitingWorkflows` flag that tells the scheduler whether to look at all. Calls
  of the scheduler and of timers write in a transaction, requests at once. What
  must hold: a form, a message and a date are waited for; a step takes effect at
  most once; one call executes a run; a run that ended stays ended; a paused run
  goes on.
* **Named locks.** The wait for the pool, the wait for the lock, the timeout,
  the answer of the server, and `releaseAll()` interleave among runs and nodes.
  What must hold: exclusion; what is thought to be held is held; no connection
  leaks or is returned with a lock, also when queries fail; every `acquire()` ends.
* **Leader and scheduler.** Sessions die, the monitor polls, the stop flag is
  shared by consecutive loops. What must hold: one loop runs, eventually; a due
  event runs once.
* **Caches.** Refreshes and writes overlap and cross processes before the
  commit. What must hold: every cache ends up with the committed value.
* **Transactions.** One request context is shared by what runs concurrently in
  it. What must hold: a statement uses the transaction of its own call; work
  deferred by afterCommit runs after that commit, once, and not after a rollback.
* **Go services.** Leases expire under a running job; events are redelivered;
  owners change under requests in flight. What must hold: effects at most once
  where promised, no two owners at work.

`PROJECT.json` lists each hazard at its line with the properties that cover it.

## 2. The modules

| Module | Models | Proofs |
|---|---|---|
| `WorkflowRuns` (with `MCWorkflowRuns`) | runs, calls, scheduler, requests, timers, flags, crashes | `WorkflowRuns_proofs` |
| `NamedLock` | what a named lock promises | |
| `LocalMutex` | the in-process lock (SQLite) | `LocalMutex_proofs` |
| `AdvisoryMutex` (with `MCAdvisoryMutex`) | the lock on PostgreSQL with pool and sessions | `AdvisoryMutex_proofs` |
| `SchedulerCluster` | leader election among nodes, and a periodic event of the scheduler | `SchedulerCluster_proofs` |
| `WorkflowEngine` (with `MCWorkflowEngine`) | one run over its steps: loop stack, errors, directives, lost calls | `WorkflowEngine_proofs` |
| `TxContext` | transactions, savepoints and deferred work in one request context | `TxContext_proofs` |
| `RouteOwner` | what a change of owner promises | |
| `Cutover` | the Guard of a Go process and SwitchOwner | `Go_proofs` |
| `GoScheduler` | the lease and the due triggers of Go workers | `Go_proofs` |
| `GoOutbox` (with `MCGoOutbox`) | PATCH requests with an Idempotency-Key, and the outbox | `GoOutbox_proofs` |

Operators whose comment says "Mutant of ..." are plausible bugs of an operation.
No specification uses them; put in the place of the operation, each makes TLC
report the property that `PROJECT.json` pairs it with.

### 2.1 WorkflowRuns

A workflow is a sequence of kinds of steps, `Program[r]`. An action step stands
for everything with a body; a `Directive` is one that returns something to the
browser (a return directive such as `goto`).

| Variable | In the code |
|---|---|
| `row` | committed rows of `_sc_workflow_runs`: status, current step, wait_info |
| `exec` | the calls of `run()` in progress: the object (`mem`), `waiting_fulfilled` (`ful`), the user, and, in a transaction, the version of the row it has written (`pend`) and its effects (`eff`) |
| `flag` | `getState().waitingWorkflows` in each process |
| `sched` | the scheduler between the query of getResumableWorkflows and the end of the loop of runResumableWorkflows |
| `timers` | `setTimeout` callbacks of WaitNextTick with immediately_bg |
| `due` | the `until_time`s that have passed |
| `handed` | browsers that were told `resume_workflow` |
| `ran`, `answered`, `passed` | history, for the properties |

One action is what happens between two awaits that others can see. `Start` and
`StartScheduled` create and call a run, `FillForm` then `ProvideInput` are the two
halves of POST fill-workflow-form, `Resume` is POST resume-workflow. `Mark`, `Enter`,
`PassWait`/`DoAction`/`Fail`/`Park`, `Flag` and `Advance` follow the loop of `runInner`; `Commit`
ends a transaction. `Tick`, `Filter`, `RunNext` and `EndTick` are the scheduler.
`TimerFires`, `TimePasses`, `Delete` (by hand or prune) and `Crash` are the
environment. `Store` is `update()`: it waits for the row lock of another
transaction, and does nothing when the row is not there (or not visible yet).

Abstractions. The context of a run is left out, so are `next_step`
expressions, `only_if`, sub-workflows, traces and notifications; ForLoop and error handlers
are in `WorkflowEngine`, the locks of a run in the next module. A directive of a call inside a transaction
reaches the browser at the commit. `Crash(p)` of the primary
takes the workers along, as `process.exit` of the primary does. DataOutput
and OutputView behave like Output, EditViewForm like UserForm. A page with a form can be submitted while the
run asks; with `LateAnswers` also again after that.

### 2.2 LocalMutex and AdvisoryMutex

`LocalMutex` follows one name: `held` and `waiters` are `localLocksHeld` and
`localLockWaiters`; a task is `woken` between `resolve()` and the turn of the
event loop in which it tests the lock again. `Tick` is time, which passes only
between turns.

In `AdvisoryMutex` a task is one call of `run()`. `conns` is `lockConnections` of each
mutex object, `free` the pool, `lock` and `count` the server's table of session locks (who has one, and how often it has
taken it), `has` what the task believes to hold. Every await of `acquire()`, `release()` and
`releaseAll()` is an action. `InstOf` and `After` describe calls that share an
object. `Take`, `Give`, `Grantable`, `Grant` and `LockTimeout` are code outside of the repository
(the server's advisory locks and lock_timeout).

Up to `MaxFaults` queries fail. `ConnectFails` is a connection that cannot be had, `LockFails` a query of `acquire()` that
throws, before the server has granted the lock or after, `UnlockFails` the same for `release()`; `finally` goes on in each. `ReleaseClient`
is a RESET that succeeds, so that the connection goes back with whatever its session holds, or one that fails: then `release(true)`
ends the session, its locks go with it, and the pool may open another one in its place, which has the same name in the model. What `releaseAll()`
collects in its AggregateError changes nothing that the module has: the loop goes on with the next name, and `run()` throws or
logs it when all are done. `broken` is history: the names whose lock or unlock query has failed. Not modelled: the loss of the session of a lock that
is held, or of a transaction; the code does not watch for it, and the server gives the name to another run.

`NamedLock` is the promise, "shared names are mutually exclusive across nodes".
Both refine it: the owner is the task that is `holding`, or the task that `has` the name.

### 2.3 SchedulerCluster

A node is the primary process of one host of a `multi_node` deployment. It opens the
session `electLeaderConn` and tries the advisory lock (`Elect`), loads the configuration
(`Load`), listens to the other nodes and starts the loop if it had the lock (`Listen`).
`Poll` is the timer of startLeadershipMonitor. The loop serves one event, "Daily", of one
tenant: `FirstDue` and `Claim` are the branches of getIntervalTriggersDueNow, `Store`,
`Signal` the two halves of setConfig around its await, `Run` the triggers.

| Variable | In the code |
|---|---|
| `pc` | progress of the start of the primary |
| `sess`, `owner` | the server's view: sessions, and the session that has the lock |
| `lead` | `isLeader`, later `schedulerStarted` of the monitor |
| `loop`, `stop` | the loop of runScheduler and `scheduleHelper.stopScheduler` |
| `db`, `cache` | `next_daily_event` in `_sc_config` and in `state.configs` of each node |
| `claim`, `next` | local variables of getIntervalTriggersDueNow |
| `mail` | refresh messages on their way |
| `reads` | answers of `getAllConfigOrDefaults` on their way to `this.configs`, see refresh_config |
| `overlap` | history: a due time was stored by a node that waits for such an answer |
| `ran` | history: how often each due time was served |

With `Forked` the primary has workers; then `sendMessageToWorkers` of the primary sends to
them and to itself, and not to other nodes. refresh_config is two steps around its await, `RefreshRead` and
`RefreshAssign`: what the query saw replaces the cache when its answer comes, whatever the node has stored since. Several
can be on their way to a node (`MaxReads`), and come in any order; two with the same value count as one. `SaveSetting` is any other setting that is saved, on whichever node: it makes all nodes
read the configuration, at any time. `now` counts in steps of which `Period` make a period. Left out: the triggers with a
time of day and Cron (they keep no state), snapshots, backup, mail,
`disableScheduler`, and what a worker process does.

### 2.4 WorkflowEngine

The same `runInner` from the inside: one run, one call at a time, any workflow.

| Variable | In the code |
|---|---|
| `prog` | the steps: kind, `next_step`, `loop_body_initial_step`, length of the array |
| `row` | the row: status, `current_step` (a stack that alternates steps and indices), the loop variables of the context, `__errorHandler`; `log` is the history of the steps done |
| `kept` | the row before the transaction of the call |
| `obj`, `call` | `this`, and the local variables `step` and `waiting_fulfilled` |

`Action`, `Directive`, `Pause`, `Resumed`, `Stop`, `ForLoop` and `Throws` are one turn of the loop of
`runInner`, each with the `update()` it ends in; `Advance` is the code between a step and the next
one (last_step, last_index, another item, pop). `Crash` undoes a call inside a transaction,
as the scheduler's and the timers' calls are. The reference is `Meaning`, which reads
the same steps as a structured program and knows no stack; `InOrder` compares the two. It is a recursive
function of the points of the program: a step, the loops around it with their items, and the handler that is in force.
`Nests` says that the loops of a workflow are nested, `Forward` that no step jumps back and that a loop inside of a loop has a
step after it; a workflow with both is `Structured`. Nothing in the code checks what users build, so the theorems have them
as hypotheses; that the workflows of the run satisfy them is an ASSUME of `MCWorkflowEngine`, which TLC evaluates.
`Resumed` keeps the code's habit to skip the body of whatever step a resumed call is at; that
this is never the wrong step is part of `InOrder`.

### 2.5 TxContext

`ctx` is the record of `getRequestContext()`, shared by all flows of a request; a flow in `Main` calls
`withTransaction`, one in `Waiters` is left to `whenTransactionisFree`. `conn` has the uncommitted
writes of each connection, `db` the committed ones. `Begin`/`Client` are the two sides of the wait for
a connection, `BeginFails` is a BEGIN that throws when the context is already set (it stays set, and the connection is not released), `Save`/`Undo`/`Release` are tryCatchInTransaction, `Close`, `Finally`, `Callback`, `Return` the
end of withTransaction. A statement goes to the client that the context names at that
moment, whoever's it is: that is the hazard. `end` and `ran` are history.

### 2.6 RouteOwner and Cutover

`Cutover` is one key (tenant and capability) of the Guard of a Go process, with the registry row. Every
critical section of `Guard.mu` is an action; `sw` says where each caller of SwitchOwner is. `End` counts a
unit off whatever keyState the map holds by then, never below zero, as the code does;
`Resume` replaces the keyState, and leaves a second caller that drains the old one `stranded`.
`Persist` may commit and lose its answer. `Restart` ends all work and loads the
registry, or fails to. `RouteOwner` is the promise: work of the Go side starts only while the
registry says "go", and the registry is written only when no such work goes on.

### 2.7 GoScheduler

Several worker processes, one tenant. `Ask` begins the lease transaction and fixes its `now()`;
`Acquire`, `Refused`, `AcquireFails` are its outcomes; `RunDue` reads and locks the due triggers, `Commit` advances
them - all but those for which NextAfter has found no next run, which keep the due time they have just been served for -, `Rollback` and `Crash` undo. Time is relative: `lease.left` is `expires_at - now`, `wait` is `next_run_at
- now`, `job.age` the age of a lease transaction, which the code subtracts from the lease without
saying so. `job.left` is the time for which the job may believe in its lease. A Cron expression is a
period; `Rare` are the triggers whose next occurrence may lie beyond the 400 days that NextAfter searches (`0 0 29 2 *`), and `kept` is history: the
triggers that were left due for that reason. A stored expression that ParseCron refuses is left out, because the insertion of a trigger
parses it first (`catalog.go:43`).

### 2.8 GoOutbox

An attempt (`tries`) is one arrival of a PATCH: `Lookup` takes the advisory lock of the key and reads
it, `Update` compares `_version`, `Enqueue` is the DoTx of the AfterCommit trigger inside of it,
`Commit` writes record, keys and event at once; its answer may be lost. Locks are not variables: an
attempt holds those that its `pc` implies. A job of a worker is a set of events to handle, handled
well, and failed; `Fetch` skips what others hold, `HandleOk` and `HandleError` run a handler in its savepoint,
`CommitBatch` marks, `AbortBatch` undoes everything but what has left the system. `sent` and `effects` count
that difference. A request has a key, a body and a record; keys and bodies may be used again, also
for another record. The payload whose hash is compared is the body with its `_version` (`SamePayload`), not the record. A client composes a
request from the record that it sees then. `KeysTellRecords` is the discipline that the keys ask of the clients, and the code does not enforce: no key is
used with one body for two records. Left out: tenants on SQLite, which has no SKIP LOCKED and
one writer, and the other jobs of the worker.

## 3. The runs

| Run | Instance | What it shows |
|---|---|---|
| `WorkflowUnattended` | a run that a request starts in either process, one of a scheduled trigger; a crash, deletion | `TypeOK`, `UntilReached`, `SingleExecutor`, `EndIsFinal`, and `ScheduledResumes`: what the scheduler parked goes on |
| `WorkflowDialogue` | directive, form, action, background step, message; a worker for requests, a crash, deletion | `FormsAnswered`, `AtMostOnce`, and `AnswersTaken`: an answer lets the run go on |
| `WorkflowEngine` | all workflows of up to four steps, and two nested loops; a lost call | `InOrder`: the steps of the structured program, in its order, once each; `ItemsMatch`: a resumed call finds the items of its loops |
| `LocalMutex` | three tasks, timeout 2, clock to 4 | exclusion, exact queue, no lost wakeup, waiters are served, refinement |
| `AdvisoryMutex` | two runs, one in a transaction, two names, five connections, a failing query | exclusion, held means locked, connections in one place; `IdleOwnsReported`: none idle with a lock unless the query for that very name failed; `AcquireEnds`: every `acquire()` ends; refinement |
| `TxContext` | one transaction and one waiter, two statements each | `WritesFollow`: every statement is committed by its own flow's COMMIT; `CallbacksFollow`: deferred work runs after it or is dropped |
| `SchedulerCluster` | two nodes that tell each other of the due time, refreshes on their way, a crash or a lost session | `OneScheduler`, `NeverStopped`; `OncePerLeader`: a due time is served once as long as the leader stays and stores none while it waits for a refresh; `SchedulerRuns`: some node gets to run the scheduler; `DueTaken`: a due event does not stay due |
| `Cutover` | five units, one caller of SwitchOwner | `SingleWriter`, `OpenAgrees`, `SwitchReturns`, the refinement of `RouteOwner` |
| `GoScheduler` | two workers, two triggers, one of them rare, three faults | `LeaseExclusive`, `OccurrenceOnce` (unless no next run was found); `DueServed`: every trigger is served again and again |
| `GoOutbox` | two attempts at five requests with three keys and two bodies, two workers, two faults | `AnswersAgree`, `EffectOnce`, `SendsAccounted`; `Settles`: an event does not stay pending |

Two runs show where the code and its documentation differ:

| Run | The documentation says | What happens |
|---|---|---|
| `WorkflowNextTick` | "Decouple workflow from invocation" | the scheduler has no user, and steps run only with a user: the rest of the run is skipped, and Finished |
| `GoAfterCommit` | a 409 means that the key was used with another payload | the event of an AfterCommit trigger has a key of trigger and record only; the second update of a record, with a key of its own, is refused with that 409 |

The passing runs of `WorkflowRuns` are chosen so that they say where the code is
right: runs that wait only for the scheduler, at most one request at a time in a
dialogue. `SingleExecutor` does not hold beyond them: with two requests at once, or a
form posted again when the run is Running, two calls execute the same steps.

Other instances that a reader may want to try. They show what the hazards in
`PROJECT.json` say, and every one fails where the table says so:

| Instance | Fails | Because |
|---|---|---|
| two forms after one another, two elements in `Slots` | `FormsAnswered` | two overlapping submissions: the second one's object is at the first form when the first call is at the second |
| `WorkflowDialogue` with `LateAnswers = TRUE` | `AtMostOnce` | a form posted again while the run is Running starts a second call |
| a form followed by a date, two elements in `Slots` | `UntilReached` | the older object's wait_info is written over `until_time` |
| a run that a worker parks, or one process with a request | `Resumes` | the worker's flag is not the primary's; in one process the flag is lowered after the query's await and a pause in between is forgotten |
| `LocalMutex` with `TimeoutBounded` | `TimeoutBounded` | a woken waiter that loses the race starts a new timer |
| `AdvisoryMutex`, `InstOf <- SharedInstance`, `After <- Continuation` | `MutualExclusion` | the background continuation shares the mutex object with the call that is in `releaseAll()` |
| `AdvisoryMutex` with two connections, both runs in transactions | `AcquireEnds` | the wait for the pool has no timeout |
| `AdvisoryMutex` as it is | `IdleOwnsNothing` | a lock query fails when the server has granted the lock, or an unlock fails; RESET (`multi_node_mutex.ts:66`) succeeds, and the connection is back in the pool with a lock, where the comment of releaseAll (144) says that none stays "stuck open" |
| `SchedulerCluster` with `Forked` | `EventOnce` | the other nodes are not told of the due time that the leader stored |
| `SchedulerCluster` as it is | `OnceIfCalm` | the answer to a refresh that was sent before the leader stored the next due time comes after it (`state.ts:641`): the old due time is back in the cache and is served again, with no crash and no lost session. The refresh that the leader's own message causes puts it right, unless its answer is overtaken too |
| `GoScheduler` as it is | `EveryOccurrenceOnce` | no next run is found within 400 days: the trigger has run, keeps its due time (`dispatch.go:62`) and runs again in every job, although the comment (30) says that `NextRunAt` is always advanced from now |
| `GoOutbox` with `Requests = {p1, p2}`, `KeyOf <- OneKey`, `RecOf <- RecordEach`, `BodyOf <- OneBody` | `OkMeansDone`, `AnswersAgree` | a key is the tenant's and the hash does not cover the record (`idempotency.go:93`, `records.go:472`): the same key and body for another record is answered with the result of the first, and nothing is written; `contracts/openapi/common.yaml:18` says that a key belongs to tenant, actor and operation |
| `WorkflowEngine` with `LoopEndsBody = TRUE` | `InOrder` | a loop that ends the body of another loop finishes the run (`workflow_run.ts:934` has a TODO) |
| `TxContext` with two waiters | `WritesFollow` | both see the transaction gone, and share the context afterwards |
| `Cutover` with two elements in `Switchers` | `OpenAgrees`, `SingleWriter` | nothing serialises two SwitchOwner of one key: one opens admission while the other drains |

`Resumes` fails even in one process; hence `ScheduledResumes` speaks of
runs that the scheduler's own calls park: there the flag is raised in the right
process and never between query and test. Each module has a `TypeOK` (`GSTypeOK` in `GoScheduler`) that can be added to any
of its configurations.

### Bounds

* Two runs or one, programs of two to five steps: every kind of pause is followed by
  a step that must not run too early or twice, and each ordered pair of kinds that
  matters (form-form, form-date, date-action, tick-action, background-message) occurs.
* One or two calls outside the scheduler (`Slots`): two are enough for every overlap
  of request, timer and scheduler on one run.
* Two processes: the primary and a worker differ only in whether they run the scheduler.
* One crash. `ran` counts to two, which is one more than allowed.
* `SchedulerCluster`: two nodes are a leader and its successor; one can crash or lose its session. With a period of two and the clock to
  three, a due time lies between two ticks and is due after that. `MaxReads` bounds the answers on their way to a node together with the sessions that
  were lost: an answer can be on its way to each node, but not after a session was lost or while one is lost. Nothing is missed by that: who leads does not
  depend on the caches, and the properties of the caches say nothing of clusters that have lost a session. More nodes, faults and answers, and a due time overdue by more than a
  period, are left to the proof.
* `LocalMutex`: three tasks are an owner, a woken waiter and one that barges in;
  with the clock at twice the timeout a restarted timer shows.
* `AdvisoryMutex`: at most four lock connections and one for the transaction
  are in use at a time, so five connections never run out. One failing query is enough for a lock that stays with an idle connection, which another task then meets or is
  given. `MCAdvisoryMutex` has a specification, `SpecFirstOut`, in which the pool hands out a fixed one of the idle connections with the same locks. They are alike - two of them
  have no lock, and are nowhere else -, so that a behaviour with another choice is the same up to a permutation of connections; TLC's SYMMETRY would not be sound for `AcquireEnds`. More failing queries, and names with the same hash, are left to
  the proof.

* `WorkflowEngine`: every workflow of up to four steps is tried, with arrays of up to two elements, and a
  loop in a loop behind SetErrorHandler. A loop whose body has one step and which has a step
  before and after it fits into four steps; the interplay of two levels is in `TwoLoops`. A call
  can begin and end at every pause and directive, inside of a transaction or not.
* `TxContext`: two statements are one before and one in a savepoint; one waiter is enough for each
  place where the context changes hands. More waiters fail, see above.
* `Cutover`: with five units the count of the old keyState and of the new one can both be above one.
  More callers fail, see above.
* `GoScheduler`: the lease is longer than its transaction and as long as the period, so a job can
  outlive its lease while the next trigger is due; three faults are two lost answers and a dead process. One trigger is rare and one is not, so a batch
  can have both.
* `GoOutbox`: two attempts are a request and its retry, or two requests with one key, or two for
  one record, or two of the same body; `MaxAttempts` 2 lets an event fail once and be retried; with a batch of two events one can fail
  beside another that succeeds; two faults are two rolled-back batches for one event. Any numbers are in the proofs.

Deadlock is not checked where the system may rest (all runs over, all tasks done).

### Fairness

`WorkflowRuns`: a call that can go on does (promises settle, statements return), the
scheduler's loop ticks, time passes. Users need not answer, browsers need not resume, timers
and crashes need not happen. `LocalMutex`: queued continuations run, and a
holder releases (`run()` and `withLock()` release in a `finally`; that the section
in between ends is an assumption). `AdvisoryMutex`: statements
return, with an error or without, and `lock_timeout` fires (weak); the pool serves its callers in order, so a
caller that finds a connection free again and again gets one (strong, on `GetClient`).
Tasks need not begin, acquire or leave. `SchedulerCluster`: a
node that is down is started again (a service manager restarts it), the monitor's timer and
the loop go on, messages are delivered, queries of the configuration are answered, time passes up to its bound; crashes, lost sessions and
other settings are never assumed. `Cutover`: requests and jobs end, and so does the write of the registry, one way or the
other; the timeout of the drain is not needed. `GoScheduler`: the clock and the tickers of the
workers go on; faults are bounded. `GoOutbox`: the outbox job runs at every tick of its interval, and every batch ends.
`WorkflowEngine` and `TxContext` have safety properties only.

## 4. The proofs

All of them hold for any sets of tasks, names, connections, runs, processes, units, workers,
requests, any programs and any bound. The assumptions on constants are the named ASSUMEs, which the runs evaluate.

* `WorkflowTypeCorrect` (`Spec => []TypeOK`). `TypeOK` is inductive. It says more than
  types: every copy of a run - the row, the object of a call, the version pending
  in a transaction, the object in a timer, in the scheduler's list - is at a step of its
  own workflow, so `steps.find` by name finds one. The proof has one lemma on `update()`
  (`StoreOK`) and one on `run()` (`InvokeOK`), and one step per action.
  Assumptions: `RunsAssumption` (programs are not empty).
* `RunsInOneHand`, and from it `StepsAtMostOnce`, `OneExecutor`, `NeverEarly`, `EndsForGood`, `FormsWait`. The
  row of a run has no lock and no version, so what keeps its calls apart is who holds an object of it. The invariant
  (`RunsInv`) says: a run that only the scheduler resumes and that no user has answered is in one hand (`InOneHand`) - it
  executes in one call, or one entry of the tick's list is going to resume it, or neither -, no timer has it, and the object in
  that hand is no staler than its holder can bear: a call agrees with the row in what it has done (`CallFacts`), an entry of the list has
  the wait of the row that was read (`ListFacts`). It also says what a step that has been passed implies for its date or its answer
  (`PastFacts`), and, for all runs, that nothing has a run before it was started. `RunsInOneHand` needs no hypothesis. The four properties need one on the
  workflows, `LeftToScheduler` (no UserForm, Output or Background step), `FormsWait` needs `OneForm` (at most one form, and no
  Output or Background step before it). Neither can be dropped, and this is a limit of the code: the tick may have read the row
  between `provide_form_input` and the `update()` in `run()`, and then resumes the run behind the back of the request. TLC shows,
  with one request at a time, that `EndIsFinal` fails for `<<UserForm, Action>>`, `AtMostOnce` for `<<UserForm, UserForm, Action>>`, and
  `FormsAnswered` for `<<Output, UserForm>>`, where the message's call of `run()` and the tick's overlap.
* `LocalMutualExclusion`, `LocalNoLostWakeup`, `LocalQueueExact`, `LocalImplementsNamedLock`.
  The inductive invariant says that `held` is true exactly when one task is `holding`,
  that the queue has each waiting task once, and that a free lock with a queue has a
  woken task. Exclusion alone is not inductive: `Take` tests `held`, so `held` must not be
  false while somebody holds.
* `AdvisoryTypeCorrect`, `AdvisoryMutualExclusion`, `AdvisoryHeldIsLocked`,
  `AdvisoryIdleOwnsReported`, with any number of failing queries. The invariant ties four things together: the connections in
  variables, maps, transactions and the pool are apart; a task that `has` a name has its
  connection in `lockConnections`; the session of that connection owns the key; and a
  session that owns a key is in a place where it will be unlocked, unless the key has a name in `broken` (`Clean`, `LockBacked`). Exclusion follows because a
  key has one session and a session one place; a lock that stayed with an idle connection only makes others wait. Since a session may take a key that it has already,
  an unlock frees the key only if it was taken once: that `count` is one for a clean key is part of `LockBacked`. Assumption: each task has its own mutex
  object (`InstancesApart`). The instance with a shared object shows that it cannot be dropped.
* `AdvisoryConnInOnePlace` and `AdvisoryImplementsNamedLock`, from `ConnInv`, which adds to the above: a connection is
  in one place at least (`NoLeak`), and what `releaseAll()` has not come to yet is in its list (`EndingPc`), so that nothing is
  held when the task ends. The first makes "at most one place" exact; it fails if `Record` could overwrite an entry of the map, which is why
  `NotYetHeld` is needed. With the second each step is an Acquire, a Release or a stutter of `NamedLock`; `Finish` releases nothing any more.
* `SingleScheduler` (`OneScheduler`) and `SchedulerNeverStopped`. The invariant: a loop runs only on
  a node that is up and believes to lead; a node that believes so and whose session lives
  has the lock. Exclusion follows because a lock has one owner. It is what a node believes
  that must be tied to the lock: the loop itself never looks at it, so `OneScheduler` alone
  is not inductive. `NeverStopped` says that the branch of the monitor that stops the scheduler
  is dead code; this matters because `start()` resets the flag that an old loop would read.
* `OnceWithoutHandover` (`OncePerLeader`). As long as nothing has crashed and no session was lost, the node that
  leads has the lock for good, so no other node writes the due time; and as long as it stores none while it waits for an answer, every
  answer on its way has the value of the database (with any number of them). So its cache agrees with the database whenever the loop looks
  at it, and only between the write to the database and the one to the cache may a refresh get ahead of it - with the value that `Signal` is
  about to write (`CalmLoop`). What was served is below the due time in the database (`Served`). The condition on the answers is the weakest that the code
  satisfies: without it `OnceIfCalm` has a counterexample, see above.

* `TxWritesFollow` and `TxCallbacksFollow`, for one transaction and one waiter (`OneEach`). The invariant says whose turn it is: work
  left to `whenTransactionisFree` starts to poll when its transaction has begun, so it finds the context free only after the
  `finally` block (`InTurn`); hence the client of the context is always that of the flow in its body (`Context`), which makes the uncommitted writes of
  a connection those of its flow (`WritesOf`), and a callback is in one of context, queue and `ran` (`CallbackOf`). With two waiters both polls may find
  the context free, because it is set only when the connection has come: then the second one's statements are committed without
  its COMMIT. TLC finds this in 13 steps, with two waiters or with two calls of `withTransaction`.
* `CutoverTypeCorrect`, for any number of callers of SwitchOwner whose calls may overlap. `CutoverSingleWriter`, `CutoverOpenAgrees`,
  `CutoverImplementsRouteOwner`, for one SwitchOwner at a time (`OneSwitcher`), which nothing in the code sees to. The invariant: the count of the keyState is the number of units at
  work, which is what a drain waits for; while the caller is past its drain the key is closed and nobody works; a key that is open
  agrees with the registry. The count must be tied to the units, and then every step of the
  drain to the count; `SingleWriter` alone says nothing about a drain in progress. The refinement
  follows step by step from the same invariant.
* `SchedulerLeaseExclusive` and `SchedulerOccurrenceOnce`. The first rests on `LeaseOwned`: a job that believes in its lease
  is the owner in the row, and has exactly the time left that the row has; a transaction that asks
  may be up to `MaxAge` old, and `Free` sees the lease as it was when it began, which only makes it refuse longer. The second is about
  rows alone: the batches of the jobs are disjoint, a trigger in a batch is still due, and one that is due has not
  been served, unless it was left due for want of a next run (`kept`). It does not mention the lease, which is the point: jobs that overlap are harmless.
* `OutboxAnswersMean`, for any keys and bodies, and `OutboxAnswersAgree`, under `KeysTellRecords`. The invariant ties the locks that an attempt's `pc` implies to the database: the holder of a key is alone
  and the key unused, the holder of a row is alone and the version is the one asked for. A
  refusal must be shown to stay true, so it keeps its reason: the version has passed, or a key is taken, and
  keys are never given back. What "ok" means without a hypothesis is that some request with this key and this payload is committed (`Stored`, `Replayable`); that it is for the
  same record follows only from the discipline of the clients, as the instance above shows.
* `OutboxEffectOnce` and `OutboxSendsAccounted`. The invariant: what jobs hold is pending and apart; what was
  sent is explained by attempts, effects and faults, plus one for an event that has been handled and not yet
  marked. The property allows that one for every event held, which is weaker and not inductive.

* `LoopsFindTheirItems` (`ItemsMatch`) and `EngineTypeCorrect`, for workflows that are `Nested`. `current_step` holds the indices of the
  loops, the context holds their variables, and two different pieces of code write them; a resumed call trusts that they agree. The
  invariant (`EngineInv`) says which stacks there are (`StackOK`): the loops below a step are exactly the loops around it,
  each once and from the outside in; the error handler alone may stand on any loops, and ends the run. Only because a loop is
  on the stack at most once does a new item of one loop leave the items of the others alone. Jumps back are allowed here.
* `StepsInOrder` (`InOrder`), for workflows that are `Structured`, of any size and depth, and any number of calls and lost transactions. The reference
  is compared with the log, which says nothing of what is still to come; the invariant (`OrderInv`) does: the log, then what
  the program does from the step on top (`Ahead`), then for each loop below it the rest of its items and of what follows it (`IsRest`), is the
  whole workflow. Each kind of turn of `runInner` preserves it by one fact on the reference (`AheadStep`, `AheadItem`, `AheadChainDone`,
  `AheadAfterItems`). The rests are kept for both values of the handler, since a SetErrorHandler in a body changes what a later
  step does with an exception. A run that waits is at a pause, and a call that is lost gives back the row together with its log. `Forward` cannot be
  dropped: with a loop as the last step of the body of another the code finishes the run (the instance with `LoopEndsBody` above).
* `MeaningAt` is a lemma of it: the recursive reference is what its equation says at every point of a `Structured` workflow, so that the comparison is with something.
  Every use of the function goes to a point with a smaller `Rank`: a later step, or the same loop with fewer items left. The library's induction theorems
  cannot be used; the proof takes a point of least rank that has no value and glues the values of the points below it together.
* `LocalTypeCorrect`, `ClusterTypeCorrect`, `TxTypeCorrect`, `SchedulerTypeCorrect`, `OutboxTypeCorrect`: the `TypeOK` of the other modules, from the
  invariants above. In `OutboxTypeCorrect` this is more than types: no event has more than `MaxAttempts` attempts, because one that
  is pending has one left and two jobs never hold the same event (`AttemptsLeft`).

Every safety invariant and every refinement that a passing run checks is stated by a theorem, some of them under the hypothesis
on the workflows, the keys, the mutex objects or the number of callers that is named above.

Model-checked only: the liveness properties (`ScheduledResumes`, `AnswersTaken`,
`WaitersServed`, `AcquireEnds`, `SchedulerRuns`, `DueTaken`, `SwitchReturns`, `DueServed`, `Settles`), because the prover does not deal with
fairness and ENABLED; and `AtMostOnce` and `EndIsFinal` of workflows with forms, for
the programs of the runs.

## 5. Not modelled

* Sub-workflows, `next_step` expressions and the contexts of runs: a sub-workflow is a second run whose end the first
  waits for; it multiplies the state of `WorkflowEngine`, and what the expressions compute is the application's.
* The rest of the scheduler's tick (backup, snapshots, mail, several tenants), the cache of other configuration
  keys, setConfig in a transaction, and the other messages of processes: see the plan.
* The loss of the session of a held lock or of a transaction; a crash of a process that holds locks of runs (its sessions end, and with them its locks).
* `commitAndBeginNewTransaction`: user code calls it, in run_js_code actions; listed as a hazard.
* Mobile synchronisation: half of it is in a web view, with its own database; planned.
* Go workflows: `WorkflowAdvance` is one transaction with a version, and the same pattern as a PATCH.
* CRUD, views, plugins, markup, builders, backup, command line, installer, deployment: sequential, generated or
  rendering code; its concurrency is that of the transactions that are modelled.

## 6. The plan

Done: the modules and proofs above. In this order:

1. `ConfigCache` (`state.ts`, `serve.js`): caches of processes and nodes, refresh messages,
   commits; all caches end up with the committed value.
2. The rest of the scheduler's tick: `isDaily` read before the event is claimed, prune and backup,
   several tenants, an exception in one of them. Property: a claimed day has its backup.
3. `MobileSync`: upload, polling, timeout, repeated upload.
4. Sub-workflows in `WorkflowEngine`; `WorkflowAdvance` of the Go side.
