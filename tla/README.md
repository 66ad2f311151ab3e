# A verification of Absurd

Absurd runs durable workflows on nothing but PostgreSQL. A *queue* is five
tables and a set of stored functions (`sql/absurd.sql`); *workers*, written with
one of four SDKs, claim runs of tasks, execute handlers, and call the stored
functions to record checkpoints, sleep, wait for events, complete and fail.
There is no coordinator: everything a queue promises follows from what the
stored functions do to the tables, in whatever order workers, clients,
operators and cron jobs call them.

A dashboard, Habitat, shows the tables and retries failed tasks.

This directory holds TLA+ models of that program, configurations that check
them with TLC on small instances, and proofs that TLAPS checks for every value
of the constants.

## 1. Inventory

| Component | Source | State | Operations | Status |
|---|---|---|---|---|
| Queue tables and stored functions | `sql/absurd.sql` 682-2220 | `t_` tasks, `r_` runs, `c_` checkpoints, `e_` events, `w_` waits | spawn, claim, complete, schedule, fail, retry, checkpoint, extend, await, emit, cancel, clean up | modelled: `AbsurdQueue` |
| The same, statement by statement | same | row locks, snapshots of calls in progress | reads and writes inside one call | modelled: `EventRace`, `CleanupRace`, `CheckpointRace`, `RowLocks` |
| Queue catalogue | `sql/absurd.sql` 92-640 | `absurd.queues`, table names | create, drop, set policy | only as `Client` uses it |
| Partitioned storage and cron | `sql/absurd.sql` 2223-3086 | weekly partitions, `cron.job` | ensure, list candidates, detach, drop, schedule | not modelled |
| TypeScript task context | `sdks/typescript/src/index.ts` 264-622 | checkpoint cache, step counters, the claimed row | step, sleep, await event, await result, emit | modelled: `TaskContext`, `CheckpointRace` |
| TypeScript client | `index.ts` 624-1060, 1472-1610 | registry of tasks | register, spawn, queues and policies, retry, cancel, emit, await result | partly: `Client`, `AwaitResult` |
| TypeScript worker loop | `index.ts` 1062-1455 | executing set, timers, notification | claim batches, execute, defer, close | modelled: `WorkerLoop` |
| TypeScript examples | `sdks/typescript/examples` | none beyond their steps | handlers | modelled: `ExampleHandlers` |
| Habitat: task list, event log | `habitat/ui/src` | filters, URL and its history, list, opened rows | filter, page, choose time, refresh, open | partly: `ListPages`, `DateRangeSelector` |
| Habitat: page of a task | `views/TaskRuns.tsx` | runs, their details, retry dialog | load, refresh, retry, change task | modelled: `TaskRunsPage` |
| Habitat: other views, server | `habitat` | a resource and its timer; none | queries | not modelled |
| Python, Go and Java SDKs | `sdks/` | as TypeScript | the same protocol | not modelled |
| `absurdctl`, migrations, docs | | none of their own | single calls, pure I/O | not modelled |

How they interact: a client calls `spawn_task`; workers poll `claim_task`,
which is also where leases expire and cancellation rules apply (no background
process does); a handler calls `set_task_checkpoint_state`, `schedule_run`,
`await_event` and `extend_claim`; it ends in `complete_run` or `fail_run`;
anyone may call `emit_event`, `cancel_task` and `retry_task`; cron calls the
cleanup functions. The tables are shared by all of them, and each call is one
transaction.

What is hard in it:

- A worker that lost its lease, or whose task was cancelled, does not know. It
  keeps calling, and its calls interleave with those of its successor.
- Four functions start, add or end runs (`claim_task`, `fail_run`,
  `retry_task`, `cancel_task`). None of them looks at all the runs of a task:
  each trusts that the task row and one run row tell the whole story.
- Attempts are numbered in three places and limited in two.
- A wait can end by its event, by its timeout, by cancellation, by failure,
  and its event can be deleted under it and emitted again.
- A lost worker is noticed only by another's poll.
- Some calls read without locks (checkpoints, cleanup), so that a call is not
  atomic for the calls around it.

`PROJECT.json` lists the hazards at their lines and the properties that cover
each; the hazards that need modules of the plan below say so. The hard part of
the SDK and of the dashboard is of another kind:

- A handler is replayed from the start in every attempt, and must find at every
  call the value of that very call, by a name and a count alone.
- The worker loop, its executions and its timers interleave at every `await`,
  and what one of them leaves behind (a promise, a timer) the others meet.
- A poll must keep a lease alive, respect a timeout and double its delays at once.
- A page of Habitat keeps the same thing in the URL, in signals and in requests
  on their way, and each can be ahead of the others.

What makes each component correct:

- *Queue*: one active run per task; task row and run rows in agreement;
  attempts without gaps and within the limit; ends are final; cancellation
  freezes a task; no wakeup is lost; checkpoints never go back; nothing outlives
  its task; no run starts past its deadline.
- *Statement level*: the same under READ COMMITTED interleavings inside calls;
  no deadlock between row locks.
- *Catalogue and partitions*: two queues never share a table; every id has a
  partition; a partition that still holds rows is never dropped.
- *Task context*: a step that was checkpointed is not executed again; every call
  returns in every attempt what it returned before, and what it computed itself;
  a task ends, or waits for an event nobody emits.
- *Worker loop*: never more than `concurrency` handlers; no claimed run is
  dropped; what is due is claimed; `close` waits for what executes, and resolves.
- *Client*: a task goes where its name is registered; a key is one task, also
  when spawn is repeated after an error; a queue is as asked when its creation
  resolves; a timeout is kept to, and so is the lease of a task that waits for
  another.
- *Habitat*: what is on screen is what the URL asks for; a link shows the same
  window; a list of runs has no gap; a retry is for the task of the page.

## 2. Modules

| Module | What it is |
|---|---|
| `TaskLifecycle` | Abstract specification: each task waits, executes, and ends at most once, its attempts numbered without gaps. |
| `AbsurdQueue` | One queue: the five tables, the clock, one action per committed call of a stored function. |
| `MCAbsurdQueue` | Instances for TLC, with three configurations. The other modules have few constants, and their configurations name them directly. |
| `EventPromise` | Abstract specification of one event: the first payload answers every wait that is on. |
| `EventRace` | `await_event`, `emit_event` and `cleanup_events` statement by statement on the row of one event. |
| `CleanupRace` | `cleanup_tasks`, `retry_task` and `spawn_task` by key, statement by statement, on the tasks of one key. |
| `CheckpointRace` | The steps of a handler over the statements of `set_task_checkpoint_state`, with claims and cancellation in between. |
| `RowLocks`, `MCRowLocks` | The row locks that all calls of a queue take, one after the other, and who waits for whom. |
| `EventRaceProofs`, `CleanupRaceProofs`, `CheckpointRaceProofs` | What holds of the three modules before `RowLocks` for all constants. |
| `RowLocksProofs` | The order of row locks, for any number of sessions, tasks and attempts. |
| `TaskContext` | A handler as a list of calls, executed and replayed by workers over the queue. |
| `ExampleHandlers` | The handlers of the TypeScript examples, as such lists. |
| `MCTaskContext` | The examples and five more handlers, as instances. |
| `WorkerLoop` | A worker process: `startWorker`, `workBatch`, `executeTask`, lease timers, `close`. |
| `Client` | Class `Absurd`: registry, spawn with its hook, queues, policies, retries. |
| `AwaitResult` | The poll of `awaitTaskResult`, in and outside of a task. |
| `MCSdk` | Instances of the three. |
| `DateRangeSelector` | The time selector of Habitat, as functions of a selection. |
| `ListPages` | Habitat's task list and event log. |
| `TaskRunsPage` | Habitat's page of one task. |
| `MCHabitat` | Instances of the pages. |
| `TaskContextProofs` | Replay from checkpoints, for any handlers that keep to two rules. |
| `SdkProofs` | A worker process, a client and a poll, for all constants. |
| `HabitatProofs` | The pages of Habitat, for all constants. |
| `AbsurdQueueProofs` | Type correctness, agreement of the tables, uniqueness of the active run; no wakeup is lost and nothing outlives its task; attempts, finality, deadlines, cancellation, order of checkpoints, and the refinement of `TaskLifecycle`; for all constants. |

### How `AbsurdQueue` corresponds to the code

*State.* `task` maps a task id to its `t_` row, `run` a run id to its `r_` row,
`ckpt` a task and a step name to the `c_` row, `event` an event name to the `e_`
row, `wait` is the set of `w_` rows, and `now` is what
`absurd.current_time()` returns. A deleted task is kept as a marker, so that
its id is not used again: ids are UUIDs. Run ids are numbers given out in order
of creation (`nextRun`); UUIDv7 ids grow with time and are random within an
instant, which `FreshIds` reflects when a claim creates several runs.

*Actions.* An action is one committed call. A call that raises is rolled back
and is no step, so that its conditions are guards. `await_event` has three
outcomes and three actions (answered, timed out, suspended), over a common
part. `retry_task` has two (in place, and as a new task). Inner calls are part
of the caller's action: `ClaimTask` contains the calls of `cancel_task` and
`fail_run` that `claim_task` makes, through the operators `CancelTasks`,
`CancelRuns`, `FailTasks` and `FailRuns`, which `CancelTask` and `FailRun` use
too. They take sets of tasks or runs: the calls of one loop concern different
tasks, so that their order does not matter.

*Callers.* Nothing restricts who calls what when: a call may come from a worker
whose lease expired, from a second worker, or from an operator. The only thing
taken from the SDKs is that a call that names both a task and a run names the
task of that run (`index.ts` passes both from one claimed row).

*Abstractions.* Left out are columns no stored function reads back (names,
parameters, headers, results, `claimed_by`, `started_at`). `completed_at` and
`failed_at` are one field, since no run has both. A retry strategy is a
function from the attempt to its delay. `for update skip locked`
lets a claim pass over rows that another session has locked, so that with
`limit n` the batch can be *any* set of at most n candidates, and the order
of the rows constrains nothing. `cleanup_tasks` and `cleanup_events` lock
nothing and take the oldest rows, which the model keeps. The key table `i_` of
partitioned queues is folded into the task row: it is written and deleted in
the same transactions. Time is in whole seconds.

*Not in this module.* Reads that commit nothing, and interleavings *inside* a
call: a call here sees one state. That is a claim about the code's locks, and
the following modules examine it where a call reads without one.

### The statement-level modules

PostgreSQL runs the functions at READ COMMITTED: every statement of a function
sees what was committed when that statement began, rows that are written are
locked to the end of the transaction, and a statement that waited for such a lock
goes on with the new version of the row, after comparing again only the
conditions on that row itself. Each module models one row, or the rows of one
task, and the calls that meet on it; an action is one statement, together with
those that follow it and touch nothing that others can see in between. A lost
session (`AwaitAbort`, `WorkerLost`, ...) rolls back and releases.

- `EventRace`: `row` is the committed `e_` row, `draft` the version that a
  transaction has written (its lock is exclusive), `share` who holds it FOR SHARE.
  `at` is the last statement of each `await_event`. Timeouts pass at any time
  after the wait is registered; the clock of an emission is that of its
  transaction, so that it may still answer a wait that is overdue. `Spec` has
  awaits and emissions; `SpecWithCleanup` adds `cleanup_events`, whose `chosen`
  says that its snapshot has the row. There is one event: calls for different
  events meet on run rows only, which belong to their own sessions.
- `CleanupRace`: `task` and `runs` are committed rows, `inserting` the key in the
  index before its commit, `retrying` the row that `retry_task` has locked,
  `chosen` the snapshot of `cleanup_tasks`, `partitioned` the storage mode of the
  queue, which never changes. A partitioned queue keeps the key in
  a table of its own, written and deleted in the same transactions; what differs
  is what `spawn_task` does when the row is gone.
- `CheckpointRace`: a handler looks for the checkpoint of each step, executes it,
  and calls `set_task_checkpoint_state`, whose four statements are four actions.
  Only the extension of the lease locks the run row, and only of a run that still
  executes (`holds`). A lease may expire at any moment, as the clock is not
  modelled: a worker can stall between any two statements.
- `RowLocks` has all rows and all calls at once, and of each row only what decides
  which rows are locked next. `todo` is what the statements a session is at have to
  lock, each row with its place: rows of different places where the code or the plan
  fixes their order, of one place where nothing does (an `update` of many rows, the
  parts of one `with`). `Asks` are the rows of the first place it does not have.
  `by` is the function a session has called, `call` the one it executes: `claim_task`
  calls `cancel_task` and `fail_run` (`Perform`), on the tasks and runs that are left
  of its two loops (`loop`). `draft` is what a transaction has written, which only
  its own statements see (`Sees`). A row is locked until the transaction ends, also
  if it no longer meets the condition it was chosen by. `Victim` is PostgreSQL's own
  way out of a deadlock.

### The TypeScript SDK

- `TaskContext`: a handler is a list of calls (`Handler`), and an execution an
  attempt with a program counter, the names it has asked for, its cache of
  checkpoints, and `wake`, the `wake_event` of the row it claimed. `beginStep`,
  the function of the step and `completeStep` are three actions; so are the
  lookup of a wait and its call of `await_event`; a sleep is `BeginSleep`,
  `PersistCheckpoint` and `SleepUntil`. What can come between them are other
  executions, claims, expired leases, cancellations and lost processes. The
  stored functions are one step each, on one row per task that stands for its
  last run (`TaskMirrorsLastRun` says it may). A value is the call that computed
  it, the attempt, and one bit for what the handler does with it, so that the
  properties can ask where a value came from.
- `ExampleHandlers` has the handlers of `examples/`: what they call, spawn, emit,
  roll and throw. The agent loop never advances the counter of its own loop, and
  relies on the step's name being numbered; its turns are one repeated call.
- `WorkerLoop`: an action is the code between two `await`s, which JavaScript runs
  to its end. `inflight` are runs that the database has claimed and whose answer
  has not been read; `executing` is the set of promises; `armed` and `woken` are
  the timer and the promise of `waitForAvailability`. `workBatch` is the same
  process used differently, and runs its batch in turn (`backlog`). `FatalTimer`
  is the timer that ends the process at twice the lease. `Extend` is any call of
  a handler that extends the lease, and `FloatingBeat` a `heartbeat` that the
  handler does not await.
- `Client`: each caller is at most in one call, which is suspended in the hook
  and at each query; a query fails before or after its commit (`QueryFails`,
  `AnswerLost`). `was` and `asked` remember, for the properties, the registration
  found and the options given when the call began. Clients made by
  `bindToConnection` share the registry, and are callers here.
- `AwaitResult`: time in ticks of 50 ms, the unit of the first delay. Queries take
  up to `QueryTime` each way; timers fire on time.

What reading them closely showed, where no comment of the code promises
otherwise:

- A second `startWorker` on one client overwrites `this.worker`, so that `close`
  then stops only the last (`index.ts` 1171, 1225).
- A heartbeat that is not awaited may be answered after `executeTask` has cleared
  its timers, and sets them again; nobody clears those, and at twice the lease
  they end the process (1254-1289). `FatalTimer` includes that.
- The heartbeat interval of `awaitTaskResult` counts from the call. A handler that
  has worked for more than half its lease before it waits, or whose `claimTimeout`
  is 2 s or less, can lose its lease while it waits: hence `Covers` in `LeaseKept`.
- After a caught timeout, the row still names the event, and a second wait for it
  in the same attempt is answered with NULL (`Await`, third case).
- `createQueue` is two statements, and a `dropQueue` between them can leave it to
  set the policy of a queue that someone has created anew (`CreatedAsAsked` says
  so: `dropped`).

### Habitat

An action is one handler, effect or answer. A handler is taken together with the
navigation it ends in, and requests in between are replaced before they can be
answered.

- `ListPages`: `entries` and `at` are the browser's history, `signals` the filters
  of the mounted view, `selection` and `range` those of its time selector,
  `request` the one request whose answer counts. `SyncEffect` is the effect that
  copies the URL into the signals, `SyncSearchParams` the function that writes it.
  `DateRangeSelector` holds the functions of the time selector, so that what it
  writes to the URL and what it reads from it can be compared.
- `TaskRunsPage`: `load` is the request for runs that counts, page by page, while
  runs are added; `batch` the requests for details, which are answered together
  or not at all; `retries` the calls of `handleRetry`, which go on when the page
  is already that of another task.

What reading them closely showed: a link to page 2 loses its page when the view
is mounted, because the time selector rewrites the URL (`MountedEntry`). Back and
forward do not move the time selection, which is why `LinkShowsWindow` holds only
until then (`steady`). "Around" with its input cleared is not kept in the URL.
Details of a row are never fetched again. With auto-refresh, a list that takes
longer than the interval is superseded before it is answered, every time. A
retry that ends after the page has gone to another task clears the flag of a
retry under way there (`RetriesMatchPage` has the exception).

## 3. Properties

Stated in `AbsurdQueue`, each with a comment: `TypeOK`; the invariants
`SingleActiveRun`, `TaskMirrorsLastRun`, `AttemptAccounting`, `NoOrphans`,
`NoLostWakeup`; the action properties `TerminalIsFinal`, `CancelledIsFrozen`,
`NoStartPastDeadline`, `CheckpointsNeverRegress`; and the refinement
`ImplementsLifecycle`.

Two of them are less strict than one might expect, because the code is:

- `TaskMirrorsLastRun` lets a cancelled task have a *failed* last run:
  `fail_run` cancels the task, and not the run, when the next attempt would
  pass `max_duration`.
- `TerminalIsFinal` lets a failed task come back to `pending`: that is
  `retry_task`, and only for an attempt beyond those used.

In the statement-level modules: `KeepsPromise`, that awaits and emissions
implement `EventPromise` (and so lose no wakeup and let no timeout hide a
payload); `LockedReadIsStable`, what is left of it beside `cleanup_events`;
`KeyIsOneTask` and `SpawnFindsTaskIfPartitioned` of idempotency keys; `OverrunBounded` and
`ExtendedCallIsCurrent`, how far a handler that is no longer current can go.
`LockOrder`, of all calls: the circular waits of sessions are of three kinds and no
other. The calls about one run, `emit_event`, `retry_task` and `cancel_task` lock the
event before the runs before the task before waits and checkpoints, and are never in
a circle by themselves. But `claim_task` cancels overdue tasks one by one, in the
order of their ids, and `emit_event` wakes runs in the order it finds them;
`cleanup_tasks` deletes from its tables in no order (its main statement takes the
task before the runs); and a `cancel_task` whose task has got another attempt since
it looked for runs takes that run after the task. PostgreSQL ends one of the calls
with an error, and nothing is written by halves.

Of the SDK: `ReturnedIsOwn`, `ReplayStable`, `CompletedNeverRerun` and `Settles`
(`TaskContext`); `CapacityRespected`, `NoClaimDropped`, `CloseIsClean`,
`DueIsClaimed`, `CloseResolves` (`WorkerLoop`); `SpawnedAsRegistered`,
`KeyedOnce`, `CreatedAsAsked` (`Client`); `TimeoutHonoured`, `LeaseKept`
(`AwaitResult`). Of Habitat: `ShowsWhatUrlAsks`, `LinkShowsWindow`
(`ListPages`); `AllRunsOfThisTask`, `DetailsOrError`,
`RetriesMatchPage`, `RetriedRunIsShown` (`TaskRunsPage`). The type invariants of
modules that run together are one property there (`SdkTypeOK`, `HabitatTypeOK`).

Two hazards that look like one property are two: `CloseIsClean` says that
nothing executes once `close` has resolved, and holds of a `close` that never
resolves; `CloseResolves` is the other half. Likewise `KeyedOnce` would hold of a
client that never spawns; the run has spawns that are answered.

### Where the code does something else than it says

Three runs check what a comment or the change log says, and find a behaviour
of the code that does not. Each is a `finding` of `PROJECT.json`, with the
quotation.

- `WakeupNotLost` (`sentinel_cleaned`): `cleanup_events` removes the row that
  `await_event` is about to lock; `for share` then locks nothing.
- `NoOrphanRuns` (`retried_cleaned`): `cleanup_tasks` deletes a task that
  `retry_task` has made pending, and leaves its run.
- `TimeoutsNotRetriggered` (`timeout_retriggered`): a handler that catches the
  timeout of one wait and suspends again times out of the first wait anew, at
  every resumption: only `wake_event` of the run says that it had timed out.

Four more are stated in the modules and found violated by a configuration kept
here, `tlc -config X.cfg M`:

- `SpawnFindsTask` (`MCKeyLost.cfg`, `CleanupRace`): an unpartitioned queue
  answers a spawn with a key with NULL ids, when the task is cleaned up between
  two statements.
- `PersistedStays` (`MCCheckpointLost.cfg`, `CheckpointRace`): an attempt that has
  lost its lease in the middle of its call replaces a checkpoint of the next one.
- `CancelNeverDeadlocks` (`MCCancelDeadlock.cfg`, `MCRowLocks`): `CHANGELOG.md` 58 says
  "Prevented deadlocks by aligning lock acquisition order across `cancel_task`,
  `complete_run`, and `fail_run` paths." If `fail_run` adds an attempt while
  `cancel_task` waits for the run that failed, `cancel_task` goes on to lock the task,
  and takes the new run last (`sql/absurd.sql` 1960); whoever has locked that run in
  between, its worker or another `cancel_task`, waits for the task.
- `MaxDelayCountsFromCheckpoint` (`MCMaxDelay.cfg`, `MCAbsurdQueue`): `max_delay`
  counts from the enqueueing to the first start; `docs/concepts.md` 312 says "if
  no checkpoint has been written for N seconds".

All but `TimeoutsNotRetriggered` and `MaxDelayCountsFromCheckpoint` need two sessions between two
statements, which is why the action-per-call model, where they cannot happen,
does not show them.

Two smaller ones have no run. The comment on `spawn_task` (`sql/absurd.sql` 679-680)
announces NULL as the run and attempt of an existing task, and 776 and 802 return
its last run and its attempts. And `cleanup_events`, which chooses by the date in
its snapshot (2206), can wait for an emission to commit and then delete the event
just emitted, because the sentinel it replaced was dated 1970; those who waited
were woken by that emission, but a later `await_event` finds nothing.

## 4. Runs

All passing runs finish the whole state space, with no state constraint: the bounds
are guards (`MaxRuns`, `MaxTime`, `MaxTasks`, `MaxAttempts`). Deadlock is not checked in a queue, because a queue whose
clock and run ids are used up, or that has nothing to do, stops.

| Run | Instance | Question |
|---|---|---|
| `lifecycle` | 2 tasks, 3 runs, 3 instants, claims of 2 with a lease, 2 policies (2 attempts; unlimited attempts with deadlines), manual retries with three limits, 1 step, cleanup | do the two tables agree, does each task follow the lifecycle, are attempts numbered right, ends final, and leftovers impossible, whatever the interleaving? |
| `locks` | 3 sessions with one call each, 2 tasks (`Tasks`, which numbers them as their ids sort) of up to 2 runs, one executing and one asleep, with and without a wait; 1 event, with and without its row | who can wait for whom in a circle? |
| `events` | 2 tasks of 2 attempts, 2 runs, 2 steps, 1 event, waits with and without timeout, event cleanup | is a wakeup ever lost? does a wait of an earlier step or attempt answer a later one? do checkpoints go back? |
| `await_emit` | 3 runs (2 with a timeout), 2 emitters, 2 payloads | do the statements of awaits and emissions behave like atomic calls? |
| `one_key` | 3 callers, 3 tasks, 2 attempts, both storage modes | is a key one task, and is every caller told which? |
| `late_checkpoint` | 3 steps, 3 attempts | how far does a handler go that is cancelled or has lost its lease? |
| `replay` | 9 workflows of up to 5 tasks, 2 to 4 attempts, up to 2 faults each, loops of 3 turns | does a replayed handler see what it saw before, and does every task end? |
| `sdk` | *worker*: 3 tasks (known, unknown, of another queue), 2 slots, batches of 2, 1 failure; *client*: 2 callers, 3 calls, 2 queues, 1 name, 4 hooks, 1 failure; *await*: 5 timeouts, 3 leases, queries of up to 100 ms each way | do the loop, the client and the poll keep their promises, and does the loop go on? |
| `habitat` | *lists*: 3 runs on pages of 1, 3 URLs, 3 operations of the user, 1 tick; *task*: 2 tasks, 2 visits, up to 3 runs on pages of 1, 2 retries | does the page show what it should whatever comes late? |
| the three of section 3 | 1 or 2 sessions of each kind, 1 event, task or handler | is what the comment says true of the code? |

`MCSdk` and `MCHabitat` put together components that share no state: the initial
state chooses one, and the others stay as they are.

The statement-level runs but those of `EventRace` do not check deadlock: their
tasks and attempts are used up. `EventRace` never stops. The runs of the SDK and
of Habitat do stop: all tasks have ended, or all calls are made.

Why the bounds are enough for what they ask: the functions relate a task to its
own runs, so that a second task matters only for batches and for two waiters of
one event; a third run is the retry of a retry; a lease of one second expires
at the next instant, and three instants hold a start, an expiry and what follows
it. In `replay`, a second fault is one in the attempt that repairs the first, and a
third turn repeats a repetition. The worker has more tasks than slots, and a
failure may hit any of its calls. Two callers and one registration in between
are what a hook can race with; two retries are what one page can confuse, and
pages of one run are those that a new run shifts.
In `locks`, three sessions are a circle of two and one call
that made the attempt they meet on, or a circle of three; for longer circles there
is the proof. Tasks, and sessions in `locks`, are interchangeable (`Symmetry`) in the
three runs that use it; none of
their properties is a liveness property.

### Fairness

`Settles`, `DueIsClaimed` and `CloseResolves` are liveness properties.

- `TaskContext!Fairness`: a worker with a free slot claims what is due (it polls),
  a handler runs on, the clocks of the database and of the worker advance, and the
  lease of a lost worker expires. Nothing is assumed of stalls, lost workers,
  cancellations or events from outside: these may or may not happen, and the
  bound `faults` says how often. That a wait for another task on the *same* queue
  is refused is what makes `Settles` true where a queue has one slot.
- `WorkerLoop!WorkerFairness`: what JavaScript's event loop has to run is run, the
  timer of the poll interval fires, executions go on, and leases run out. A
  handler that never ends would hold its slot for ever, in the code too.
  Starting a worker or a process again, and the fatal timer, are not fair.

The remaining properties are safety. `PROJECT.json` names for every property a
plausible mistake in the code that the same run detects; these forms stand in the
modules just before the definition they alter, marked as mistakes.

## 5. Proofs

`AbsurdQueueProofs` proves, from the three assumptions on the constants that
`AbsurdQueue` declares (bounds are numbers, NULL and infinity are distinct
from values and numbers, inputs have the types of the schema):

- `TypeCorrect`: `Spec => []TypeOK`
- `MirrorCorrect`: `Spec => []TaskMirrorsLastRun`
- `ActiveRunUnique`: `Spec => []SingleActiveRun`

*The inductive invariant.* Neither table property is inductive alone.
`SingleActiveRun` says nothing of *which* run is active, so that a claim could
start a run of a task whose row says it has failed. `TaskMirrorsLastRun` does
not say that run ids not given out yet have no row, so that an insertion could
overwrite one. `IInv` is their conjunction with what types say: `Sound` relates
tasks, runs and `nextRun` (every run row below `nextRun` belongs to a task, the
last run has the state of its task, all others have failed), and `Rest` types
the other tables. `Sound` is stated of tables *passed as arguments*, because
`claim_task` goes through two intermediate tables: the lemmas `CancelSound`,
`FailSound` and `ClaimSound` carry it through the stages of one claim, and are
used again for the calls that make the same changes on their own.
`ActiveIsLast`, that a run that waits or executes is the last run of its task,
then gives `SingleActiveRun` at once.

*Layout.* Lemmas on how rows change (`MoveSound`: the last run and its task move
together; `AppendSound`: a new last run; `TouchSound`: a change that keeps state
and attempt; `DeleteSound`: a task goes with its runs) cover every write of the
stored functions; one lemma per action follows, then `NextIInv`, then the
theorems.

The second half of `AbsurdQueueProofs` adds the other three tables:

- `WakeupCorrect`: `Spec => []NoLostWakeup`
- `OrphanFree`: `Spec => []NoOrphans`

Neither is inductive on top of `IInv`. That a run which sleeps has a wait row for
*its* event with *its* deadline follows only if wait rows agree with the runs they
name (`WaitsAgree`), since `emit_event` and `claim_task` find runs through them;
and a claim may delete a wait row only of a run that it starts, which needs that
the deadline of the row is the one at which the run is due. `Linked` is
`WaitsAgree`, `SleepersWait` (a run that sleeps on an event has a row or is due)
and `CheckpointsOwned` (a checkpoint belongs to a run of its task). Most calls are
*quiet* (`QuietWaits`, `QuietCheckpoints`): the wait rows they keep are of runs they
leave alone, and no run they change sleeps on an event afterwards. `Quiet` proves
`Linked'` once for all of these; `await_event` that suspends is the one call that
is not quiet.

The last part of `AbsurdQueueProofs` is about steps:

- `AttemptsCounted`: `Spec => []AttemptAccounting`
- `FinalityKept`: `Spec => TerminalIsFinal`
- `LifecycleImplemented`: `Spec => ImplementsLifecycle`, the refinement
- `NoneStartsLate`: `Spec => NoStartPastDeadline`
- `CancelledStays`: `Spec => CancelledIsFrozen`
- `CheckpointsMonotone`: `Spec => CheckpointsNeverRegress`

`NextEvolves` shows that a call does one of five things to the rows of a task
(`Evolves`): nothing, a move within an attempt, a next attempt with one more run,
a beginning, or the end by cleanup. A claim goes through three stages, each of
which evolves, and `ClaimEvolves` composes them. Numbering, finality and the
refinement follow from these five cases. `NextOrderly` says the rest of a step, of
single runs and checkpoints: a run that starts is in time, a run that has ended
stays, and a checkpoint is written for an attempt as late as that of the
checkpoint before it. For `emit_event`, which does not compare attempts, this
needs both `WaitsAgree` and `AttemptAccounting`: the run it writes for is the one
that waits, and so that of the last attempt.

The statement-level modules have proofs of their own, from the assumptions that
each module states on its constants:

- `EventRaceProofs`: `WakeupKept` and the refinement `PromiseKept`, both without
  `cleanup_events`, and `LockedReadsStable` with it. The invariant `LockInv` says
  who may hold what: a draft belongs to one open transaction, nobody shares the
  row meanwhile (`ShareExcludes`), a run past its FOR SHARE shares the row or has
  inserted it, so that what it read is still what is committed (`Holding`). The
  commit of an await or of an emission is then a step of the promise, and every
  other statement a stutter. What `cleanup_events` breaks is `Holding`: a run can
  be past its FOR SHARE and hold nothing.
- `CleanupRaceProofs`: `KeyOwnsOneTask` and `SpawnAnswersTask`. While a key is being
  inserted there is no row with it and no other insertion (`KeyFree`), and a locked
  row stays.
- `CheckpointRaceProofs`: `OverrunIsBounded` and `ExtendedCallsCurrent`. Attempts
  are claimed in order, and an admitted call has not been overtaken by a write of
  its own handler.

- `EventRaceProofs` also has `RaceTypeCorrect`, the types of that module, which
  `LockInv` contains.

### Row locks

`RowLocksProofs` proves `LockInvariant`: `Spec => []LockInv`, and from it
`LockOrderKept`: `Spec => []LockOrder`, for any sessions, any number of tasks and
attempts, and any states in which the tasks begin.

*Why the property is not inductive.* A circle of waits has any number of sessions,
and each waits for rows that it found in a state of the tables others are about to
change. The code gives the order (event, runs, task, waits and checkpoints), but a
function keeps to it only because of what it knows of the rows: `fail_run` makes a
new run after it has the task, `retry_task` takes the task without any run, and the
`update` of a task in `claim_task` or `emit_event` comes late. `LockInv` says of each
session

- *where it is* (`Calls`): at every label, what is still to be locked, what is held by
  then, and what may have been written;
- *what it sees* (`Good`, `View`): with its own writes, a task has one active run, the
  last, and none if it has ended, and only a sleeping run has a wait. This is
  `SingleActiveRun` again, here for transactions half-way;
- *what is its own* (`Owner`): if it has written to a task or its runs, or has locked the
  row of the task and looked at it, then it also has, or is about to get, every active
  run of it, so that no other session can make an attempt there. `Looking` are the four
  places where a session locks a task and has yet to look. `Evolves` limits what is
  written: a run is only made after the last one. Together they give that a commit
  keeps `Good` of the table, and `Owner` of all others;
- *the order* (`InOrder`): a row it asks for comes after every row it holds, by task and
  then by `Place` in the task. There are two exceptions. Waits and checkpoints come
  last, and nobody holds one without the task it belongs to (`LastRows`), or else
  waits no more (lemma `HoldCheckpoint`). And a task may be asked for
  while rows of later tasks are held, as `claim_task` does when it fails runs, if
  the session has the active run of that task: then whoever has the row of the task
  asks for that very run, or is one of the exceptions (lemma `HeldTask`).

*The argument.* In a circle without the exceptions of `LockOrder`, every session holds a
row that another one asks for. Lemma `AskedAfterHeld` says that what a session asks
for comes after what it holds; so the rows asked for would climb around the circle.
`NoCircle` takes the highest row that is asked for (tasks and places are bounded;
the library's `WFMin` finds it also where there are infinitely many sessions), and
finds that whoever holds it asks for a higher one. `OrderOfLocks` is about a circle
with an emission. One that has only begun holds nothing while it waits (`EmitStarts`).
One that has gone on has locked the event, so that there is no second one, and without
a claim the other sessions are about one task each (`OneTask`). If it waits for the
task of a run that it wakes, it has the active run, and `HeldTask` applies. If it still
waits for a run, or for a wait past its timeout, it has no row of that task, and those
who do would be a circle without it, which `NoCircle` excludes.
`cleanup_tasks` is outside of all this (`Order` says nothing of it), except that it
deletes ended runs, each with its task (`CleanupFits`), so that its commit keeps what the
others rely on.

`LockAssumption` says only that `Tasks` and `MaxRuns` are numbers and that tasks begin
in states there are. TLC checked `LockInv` itself as an invariant on two small instances
before it was proved.

### Replay

`TaskContextProofs` shows what a handler may rely on when it is executed again, for
any handlers, queues, slots, faults and bounds:

- `ReplaysAgree`: `Spec => []ReplayStable`
- `CallsReturnTheirOwn`: `Spec => []ReturnedIsOwn`
- `PersistedNeverRerun`: `Spec => []CompletedNeverRerun`
- `ReplayTypes`: `Spec => []TypeOK`

*The argument.* The properties speak of what calls returned and steps ran in the
past; `ReplayInv` says of each that it agrees with what is stored *now*. Every
value returned is the one stored under the name of that call (`ReturnedOK`), and
so two values returned by one call are equal. That stands because a stored value
never changes, which needs three facts about executions that may be stalled,
superseded, or resumed by another worker:

- *Names* (`ExecOK`, `NameAt`). `getCheckpointName` counts the calls of one name in an
  execution. `NameAt` gives the name of the p-th call of a handler without reference
  to any execution; every execution is at a position p (`Placed`), has asked for
  the names of the p-1 calls before, and so arrives at `NameAt` again (`NameOfNext`). No
  other call has it (`NameInjective`).
- *Ownership* (`CacheOK`, `StoreOK`). What an execution has cached is stored with the
  same value. It computes a value only for a name that had none when it looked; if
  the name has one by now, a *later* attempt stored it, and the write of this one is
  refused.
- *Timeouts* (`WakeOK`, `WaitOK`). `await_event` answers NULL, and stores nothing, when
  the run was woken by the timeout of the same event. `wake` was read when the
  execution began. It is still that of the row, or the execution has gone on past
  a wait for this event.

`HandlerAssumption` is what the code leaves to the author of a handler. It states
two rules that the library does not check. A step must not be named like the
numbered form of another (`a` twice and `a#2`): `getCheckpointName` does not look,
and one would get the other's value. And a handler that has caught the timeout
of an event must not wait for *that* event again under another name: the second
wait is answered with NULL from the row (`sql/absurd.sql` 1769-1773), nothing is
stored, and a replay in which the event has come returns its payload instead. Without
this rule TLC refutes `ReplayStable` (`NotAnsweredByTimeout` is where the proof uses it). The rest of it says how lists of
calls encode handlers. `ConstantAssumption` bounds attempts by `MostAttempts`, since
`exec` has one entry per attempt; every kind has a limit, which is at most that.

### The TypeScript SDK

`SdkProofs` has one part per module, and composes them. Nothing a step of one
does is read by the other two, so that the type invariant of all three
(`SdkTypeCorrect`, over the `Spec` of `MCSdk`) follows from those of the parts.

- *Worker:* `CapacityIsRespected`, `ClaimsAreKept`, `ClosesClean`,
  `WorkerTypeCorrect`, for any
  tasks, concurrency and batch size. `WorkerInv` has four parts. `Slots` counts a
  claim's slots when it is *sent*: from then on only the loop adds to `executing`,
  and it waits for the answer, so that what is asked for still fits when it is
  answered, whatever has finished meanwhile. `ClaimBounded` says that a claim
  returns no more than was asked. `Held` follows a run from hand to hand: `inflight`,
  `backlog`, `executing`, or known as lost. `Tables` types the rows, and `Closed`
  says that a loop whose `close` has resolved executes nothing. The types need
  more: `Queued` says that the queue of due tasks holds each pending task once, and
  no other, so that what a claim takes are attempts that exist.
- *Poll:* `AwaitTypeCorrect`, `TimesOutInTime`, `LeaseIsKept`, for any
  timeouts, leases and query times. `WithinTimeout` bounds, per step of the poll, how
  far past the timeout it may be: not at all before a fetch or a heartbeat, one
  query more after each of their parts. `LeaseCovers` says the same of the lease: at
  every step it still holds for what may pass until it is extended.
- *Client:* `SpawnsGoWhereRegistered`, `OneTaskPerKey`, `CreatesAsAsked`,
  `ClientTypeCorrect`, for any names, queues, callers, hooks and failures. While a
  spawn is suspended in the hook, or in a query, the registry may change under it.
  `Carries` says that the call still has the queue of the registration found when
  it began, and the key it was given unless the hook replaced it; a row has what
  the call that wrote it carried (`AsAsked`). `HalfMade` is what a `createQueue`
  between its statements relies on: the queue is there, with the storage asked
  for, unless it has been dropped since. `CreatedAsAsked` is an action property, and
  follows from it and from `UpdatedPolicy`, what setting a policy leaves in a row.
  `OneTaskPerKey` covers answers that are lost and spawns that are retried: they are
  further calls, which find the row.

`ClientAssumption` says that a client has a queue and a positive default of
attempts, as its constructor ensures, and that options have the types of
`index.ts`.

### Habitat

`HabitatProofs` is about `MCHabitat`, for any tasks, page sizes, numbers of visits
and retries, presets and radii. The two pages are independent, and have an
invariant each.

- *Page of a task* (`PageInv`): `RunsAreComplete`, `DetailsAreThereOrFailed`,
  `RetriesAreOfThePage`, `RetriedRunIsOnScreen`. Runs are loaded in pages,
  the newest first, while further runs are added, so that each page is cut from a
  longer list than the one before. `Covered` gives the reason that nothing is
  skipped: pages before p, answered when there were n runs or fewer, reach down to
  run n - (p-1)S (`Boundary`, S the page size), and runs that are added move this
  boundary only up. What was known when the load began, and is newer than the boundary,
  is already in the results; when the last page has been answered, the boundary is
  not above 0. `Fetched` relates the batch of requests for details to the runs
  without any: what is missing has been asked for, or has failed. `RetriesFit` says
  that a run added by a retry is known to the load that its refresh starts, and
  that `retryInFlight` stands for one retry at most, so that a second click is
  refused (`Undisturbed` is the exception that section 2 describes).
- *Lists* (`ListInv`): `ListShowsUrl`, `LinksShowWindow`. `Follows` says that
  signals and window are functions of URL and selection; `Requested`, that the
  request under way, or, when there is none, the answer shown, is for
  exactly these; `Linked`, that the URL carries the selection (`Carried`) until
  somebody goes back or forward. Lemma `Reloads` then does the work for a link that
  is opened elsewhere: a selector mounted with the parameters of a selection has
  the window of that selection, for each of its four kinds. The ends of a typed range
  come back as they were because the inputs hold whole minutes (`TypedTimes` are
  even, in units of half a minute: `SelectorAssumption`); "around" with its input
  cleared is the exception of section 2.
- `HabitatTypeCorrect`: the types of both.

`PageAssumption` has one fact of the code in it: a page is opened for a task that
has a run, which `spawn_task` creates with it. `SelectorAssumption` and
`ListAssumption` give the inputs their types and tell apart a parameter that is
absent, empty, or no date.

### What is not proved

- *Liveness.* `Settles`, `DueIsClaimed` and `CloseResolves` are checked by TLC only.
  They rest on fairness, and `ENABLED` is out of the prover's reach.
- *What recursive definitions compute*, for every input: the library's induction
  theorems take an operator as a parameter, which the provers cannot instantiate.
  Positions in a handler (`NameAt`) are defined by counting instead.
- *The runs that expect a violation* show behaviours; there is nothing to prove.

*Only proved:* `LockedReadIsStable`, `RaceTypeCorrect`, and
`WakeupNotLost` without cleanup, which `KeepsPromise` implies in its run.

## 6. Not modelled, and what comes next

- *Python, Go and Java SDKs.* They speak the protocol of `AbsurdQueue`, whose
  callers are unrestricted, so that its properties hold with them. Their own
  state (threads, goroutines, a synchronous and an asynchronous loop) is not that
  of `WorkerLoop`, and would need modules of its own.
- *Queue catalogue, partitions, cron.* `QueueCatalog` (names and policies) and
  `Partitions` (lookahead, detach and drop jobs against inserts) are planned.
- *Other locks.* Locks of `absurd.queues`, and those of tables
  that partitions are attached to and detached from, are not in `RowLocks`.
- *Habitat.* List requests that fail: an errored resource throws in the memos that
  read it, and what then happens is up to the Solid runtime. The overview, the
  queues, the JSON viewer and the server have no state that two events could
  bring apart.
- *`absurdctl`, migrations, documentation.* Single calls of stored functions, text
  and pure I/O.
- *Time.* Daylight saving and clocks that jump are left out everywhere.
- *Proofs.* Next would be that one row per task (`TaskContext`) is what the run table
  of `AbsurdQueue` shows of it, and that the view of a committed transaction in
  `RowLocks` is one of `AbsurdQueue`.
