----------------------------- MODULE WorkerLoop -----------------------------
(***************************************************************************)
(* A worker process of the TypeScript SDK: startWorker or workBatch,       *)
(* executeTask, the lease timers and close, on one queue.  An action is    *)
(* the code between two awaits: JavaScript runs it to its end.  A task row *)
(* stands for its last run too.                                            *)
(*                                                                         *)
(*   row         task -> its state, attempt and lease in the database      *)
(*   due         the pending tasks, by available_at                        *)
(*   up          the process is                                            *)
(*   loop        where startWorker's loop, or workBatch, has got to        *)
(*   ask         toClaim, of the claim in progress                         *)
(*   inflight    claimed runs on their way from the database               *)
(*   backlog     claimed runs that workBatch has not begun                 *)
(*   executing   the set of promises, as <<task, attempt>>                 *)
(*   armed       availabilityPromise and sleepTimer are set                *)
(*   woken       that promise is resolved, the loop not yet resumed        *)
(*   exec        task -> attempt -> how far executeTask has got            *)
(*   timers      executions whose lease timers are set                     *)
(*   beats       execution -> a heartbeat that its handler does not await  *)
(*   closing     close(): not called, waiting for the loop, resolved       *)
(*   lost        claims whose answer, context or turn was lost             *)
(*   budget      BOUND: failures still to come                             *)
(***************************************************************************)
EXTENDS Integers, FiniteSets, Sequences, SequencesExt

CONSTANTS
  Task,
  Registered,     \* task -> "yes", "no", or "elsewhere": for another queue
  Concurrency,    \* slots of the worker
  BatchSize,      \* tasks per claim
  MaxAttempts,    \* task -> its attempts
  Failures,       \* BOUND: failed calls, restarts and lost answers
  Floating        \* tasks whose handlers do not await their heartbeats

ASSUME WorkerAssumption ==
  /\ IsFiniteSet(Task)
  /\ Concurrency \in Nat \ {0} /\ BatchSize \in Nat \ {0} /\ MaxAttempts \in [Task -> Nat \ {0}]
  /\ Failures \in Nat /\ Floating \subseteq Task
  /\ Registered \in [Task -> {"yes", "no", "elsewhere"}]

Run == UNION {{t} \X (1 .. MaxAttempts[t]) : t \in Task}

VARIABLES row, due, up, loop, ask, inflight, backlog, executing, armed, woken,
          exec, timers, beats, closing, lost, budget
process == <<loop, ask, inflight, backlog, executing, armed, woken, closing>>
running == <<exec, timers, beats>>
workerVars == <<row, due, up, loop, ask, inflight, backlog, executing, armed, woken,
                exec, timers, beats, closing, lost, budget>>

WorkerTypeOK ==
  /\ row \in [Task -> [state : {"pending", "running", "sleeping", "ended"},
                       attempt : Nat, lease : {"none", "live", "expired"}]]
  /\ \A t \in Task : <<t, row[t].attempt>> \in Run
  /\ due \in Seq(Task) /\ ToSet(due) = {t \in Task : row[t].state = "pending"}
  /\ up \in BOOLEAN /\ ask \in Nat /\ budget \in Nat
  /\ loop \in {"off", "top", "claiming", "answering", "waiting", "settling", "exited",
               "batch", "batchAnswer", "batchNext", "batchDone"}
  /\ inflight \subseteq Run /\ backlog \subseteq Run /\ executing \subseteq Run
  /\ timers \subseteq Run /\ lost \subseteq Run
  /\ armed \in BOOLEAN /\ woken \in BOOLEAN
  /\ exec \in [Run -> {"off", "creating", "deferring", "handling", "failing"}]
  /\ beats \in [Run -> {"none", "sent", "answered", "late"}]
  /\ closing \in {"no", "waiting", "resolved"}

WorkerInit ==
  /\ row = [t \in Task |-> [state |-> "pending", attempt |-> 1, lease |-> "none"]]
  /\ due \in SetToSeqs(Task)
  /\ up = TRUE /\ loop = "off" /\ ask = 0
  /\ inflight = {} /\ backlog = {} /\ executing = {} /\ timers = {} /\ lost = {}
  /\ armed = FALSE /\ woken = FALSE
  /\ exec = [r \in Run |-> "off"] /\ beats = [r \in Run |-> "none"]
  /\ closing = "no" /\ budget = Failures

Lower(a, b) == IF a < b THEN a ELSE b
Executes(r) == /\ row[r[1]].state = "running" /\ row[r[1]].attempt = r[2]
Leave(t, state) ==
  row' = [row EXCEPT ![t].state = state, ![t].lease = "none"] /\ UNCHANGED due

(* fail_run on the last run of a task.                                     *)
RetriedForever(t) ==  \* a mistake: the attempts are not counted against the maximum
  [state |-> "pending", attempt |-> row[t].attempt + 1, lease |-> "none"]
FailedRow(t) ==
  IF row[t].attempt < MaxAttempts[t]
  THEN [state |-> "pending", attempt |-> row[t].attempt + 1, lease |-> "none"]
  ELSE [state |-> "ended", attempt |-> row[t].attempt, lease |-> "none"]
FailRun(t) ==
  /\ row' = [row EXCEPT ![t] = FailedRow(t)]
  /\ due' = IF FailedRow(t).state = "pending" THEN Append(due, t) ELSE due

-----------------------------------------------------------------------------
(* The loop of startWorker.                                                *)

StartWorker ==
  /\ up /\ loop = "off" /\ loop' = "top"
  /\ UNCHANGED <<row, due, up, ask, inflight, backlog, executing, armed, woken, running, closing, lost, budget>>

(* waitForAvailability: until the poll interval or an execution ends.      *)
WaitForAvailability == /\ loop' = "waiting" /\ armed' = TRUE /\ woken' = FALSE

(* Free capacity, and at most a batch.                                     *)
WholeBatch == BatchSize  \* a mistake: what is executing is not subtracted
ToClaim == Lower(BatchSize, Concurrency - Cardinality(executing))

LoopTop ==
  /\ up /\ loop = "top"
  /\ \/ closing # "no" /\ loop' = "settling" /\ UNCHANGED <<ask, armed, woken>>
     \/ /\ closing = "no" /\ Cardinality(executing) >= Concurrency
        /\ WaitForAvailability /\ UNCHANGED ask
     \/ /\ closing = "no" /\ Cardinality(executing) < Concurrency
        /\ loop' = "claiming" /\ ask' = ToClaim /\ UNCHANGED <<armed, woken>>
  /\ UNCHANGED <<row, due, up, inflight, backlog, executing, running, closing, lost, budget>>

(* claim_task: expired leases fail, then runs are claimed as they became   *)
(* due, both up to the quantity asked for.                                 *)
Takes(S, n) == {T \in SUBSET S : Cardinality(T) = Lower(n, Cardinality(S))}
ClaimTask(n) ==
  \E swept \in Takes({t \in Task : row[t].lease = "expired"}, n) :
    LET left == [t \in Task |-> IF t \in swept THEN FailedRow(t) ELSE row[t]]
    IN \E retried \in SetToSeqs({t \in swept : left[t].state = "pending"}) :
         LET queue == due \o retried
             claimed == {queue[i] : i \in 1 .. Lower(n, Len(queue))}
         IN /\ row' = [t \in Task |-> IF t \in claimed
                                      THEN [left[t] EXCEPT !.state = "running", !.lease = "live"]
                                      ELSE left[t]]
            /\ due' = SubSeq(queue, Lower(n, Len(queue)) + 1, Len(queue))
            /\ inflight' = {<<t, left[t].attempt>> : t \in claimed}

ClaimCommits ==
  /\ up
  /\ \/ loop = "claiming" /\ ClaimTask(ask) /\ loop' = "answering"
     \/ loop = "batch" /\ ClaimTask(BatchSize) /\ loop' = "batchAnswer"
  /\ UNCHANGED <<up, ask, backlog, executing, armed, woken, running, closing, lost, budget>>

(* executeTask begins: TaskContext.create is asked for the checkpoints.    *)
Begin(S) ==
  /\ exec' = [r \in Run |-> IF r \in S THEN "creating" ELSE exec[r]]
  /\ executing' = executing \union S

DropIfClosing(S) ==  \* a mistake: a worker that is being closed leaves what it has claimed
  IF closing = "no" THEN Begin(S) ELSE UNCHANGED <<exec, executing>>
BeginAll(S) == Begin(S)

ClaimAnswered ==
  /\ up /\ loop = "answering" /\ inflight' = {} /\ BeginAll(inflight)
  /\ IF inflight = {} THEN WaitForAvailability ELSE loop' = "top" /\ UNCHANGED <<armed, woken>>
  /\ UNCHANGED <<row, due, up, ask, backlog, timers, beats, closing, lost, budget>>

(* The query fails, before or after its commit; onError is told.           *)
ClaimFails ==
  /\ up /\ loop \in {"claiming", "answering"} /\ budget > 0 /\ budget' = budget - 1
  /\ lost' = lost \union inflight /\ inflight' = {} /\ WaitForAvailability
  /\ UNCHANGED <<row, due, up, ask, backlog, executing, running, closing>>

LoopWakes ==
  /\ up /\ loop = "waiting" /\ woken /\ loop' = "top" /\ woken' = FALSE
  /\ UNCHANGED <<row, due, up, ask, inflight, backlog, executing, armed, running, closing, lost, budget>>

(* sleepTimer, at the end of the poll interval.                            *)
Unresolved ==  \* a mistake: the timer forgets to resolve the promise
  /\ up /\ armed /\ armed' = FALSE
  /\ UNCHANGED <<row, due, up, loop, ask, inflight, backlog, executing, woken, running, closing, lost, budget>>
SleepTimer ==
  /\ up /\ armed /\ armed' = FALSE /\ woken' = TRUE
  /\ UNCHANGED <<row, due, up, loop, ask, inflight, backlog, executing, running, closing, lost, budget>>

-----------------------------------------------------------------------------
(* workBatch: one claim, executed one after the other.                     *)

Batching == loop \in {"batch", "batchAnswer", "batchNext", "batchDone"}

WorkBatch ==
  /\ up /\ loop \in {"off", "batchDone"} /\ closing = "no" /\ loop' = "batch"
  /\ UNCHANGED <<row, due, up, ask, inflight, backlog, executing, armed, woken, running, closing, lost, budget>>

BatchAnswered ==
  /\ up /\ loop = "batchAnswer" /\ loop' = "batchNext" /\ backlog' = inflight /\ inflight' = {}
  /\ UNCHANGED <<row, due, up, ask, executing, armed, woken, running, closing, lost, budget>>

BatchNext ==
  /\ up /\ loop = "batchNext" /\ executing = {}
  /\ IF backlog = {} THEN loop' = "batchDone" /\ UNCHANGED <<backlog, exec, executing>>
     ELSE \E r \in backlog : backlog' = backlog \ {r} /\ Begin({r}) /\ UNCHANGED loop
  /\ UNCHANGED <<row, due, up, ask, inflight, armed, woken, timers, beats, closing, lost, budget>>

-----------------------------------------------------------------------------
(* executeTask.                                                            *)

ScheduleLeaseTimers(r) == timers' = timers \union {r}

(* finally: the timers are cleared; the promise leaves the set, and        *)
(* notifyAvailability resolves the wait, if there is one.                  *)
KeepsPromise(r) ==  \* a mistake: only a notification, the promise stays in the set
  /\ exec' = [exec EXCEPT ![r] = "off"] /\ UNCHANGED executing
  /\ armed' = FALSE /\ woken' = (woken \/ armed) /\ timers' = timers \ {r}
Finish(r) ==
  /\ exec' = [exec EXCEPT ![r] = "off"] /\ executing' = executing \ {r}
  /\ armed' = FALSE /\ woken' = (woken \/ armed) /\ timers' = timers \ {r}

(* The context is there; what follows depends on the registration.         *)
ContextCreated(r) ==
  /\ up /\ exec[r] = "creating" /\ ScheduleLeaseTimers(r)
  /\ exec' = [exec EXCEPT ![r] = CASE Registered[r[1]] = "no" -> "deferring"
                                   [] Registered[r[1]] = "elsewhere" -> "failing"
                                   [] OTHER -> "handling"]
  /\ UNCHANGED <<row, due, up, process, beats, lost, budget>>

(* It cannot be created, or the run cannot be failed: the run stays        *)
(* claimed, and workBatch gives up on the rest of its batch.               *)
CallFails(r) ==
  /\ up /\ exec[r] \in {"creating", "failing"} /\ budget > 0 /\ budget' = budget - 1
  /\ Finish(r) /\ lost' = lost \union {r} \union backlog /\ backlog' = {}
  /\ loop' = IF loop = "batchNext" THEN "batchDone" ELSE loop
  /\ UNCHANGED <<row, due, up, ask, inflight, beats, closing>>

(* A task nobody here knows is deferred, or failed if that fails.          *)
Defer(r) ==
  /\ up /\ exec[r] = "deferring"
  /\ IF Executes(r)
     THEN Leave(r[1], "sleeping") /\ Finish(r)
     ELSE /\ exec' = [exec EXCEPT ![r] = "failing"]
          /\ UNCHANGED <<row, due, executing, armed, woken, timers>>
  /\ UNCHANGED <<up, loop, ask, inflight, backlog, beats, closing, lost, budget>>

(* A checkpoint or an awaited heartbeat: the lease is extended and the     *)
(* timers start anew, or the execution ends with CancelledTask or          *)
(* FailedTask.                                                             *)
Extend(r) ==
  /\ up /\ exec[r] = "handling"
  /\ IF Executes(r)
     THEN /\ row' = [row EXCEPT ![r[1]].lease = "live"] /\ ScheduleLeaseTimers(r)
          /\ UNCHANGED <<exec, executing, armed, woken>>
     ELSE Finish(r) /\ UNCHANGED row
  /\ UNCHANGED <<due, up, loop, ask, inflight, backlog, beats, closing, lost, budget>>

(* The handler returned, or suspended its run; or it threw, or the run     *)
(* could not be completed.                                                 *)
HandlerEnds(r) ==
  /\ up /\ exec[r] = "handling"
  /\ \/ /\ Finish(r)
        /\ IF Executes(r) THEN \E state \in {"ended", "sleeping"} : Leave(r[1], state)
           ELSE UNCHANGED <<row, due>>
     \/ /\ exec' = [exec EXCEPT ![r] = "failing"]
        /\ UNCHANGED <<row, due, executing, armed, woken, timers>>
  /\ UNCHANGED <<up, loop, ask, inflight, backlog, beats, closing, lost, budget>>

(* failTaskRun; that the run has ended already is no error.                *)
FailTaskRun(r) ==
  /\ up /\ exec[r] = "failing" /\ Finish(r)
  /\ IF Executes(r) THEN FailRun(r[1]) ELSE UNCHANGED <<row, due>>
  /\ UNCHANGED <<up, loop, ask, inflight, backlog, beats, closing, lost, budget>>

(* A heartbeat that nobody awaits: sent by the handler, answered by the    *)
(* database, and the answer heard, perhaps when executeTask is over.       *)
FloatingBeat(r) ==
  /\ up /\ r[1] \in Floating
  /\ \/ /\ exec[r] = "handling" /\ beats[r] = "none"
        /\ beats' = [beats EXCEPT ![r] = "sent"] /\ UNCHANGED <<row, timers>>
     \/ /\ beats[r] = "sent" /\ Executes(r) /\ UNCHANGED timers
        /\ row' = [row EXCEPT ![r[1]].lease = "live"] /\ beats' = [beats EXCEPT ![r] = "answered"]
     \/ /\ beats[r] = "answered" /\ ScheduleLeaseTimers(r) /\ UNCHANGED row
        /\ beats' = [beats EXCEPT ![r] = IF exec[r] = "off" THEN "late" ELSE "none"]
  /\ UNCHANGED <<due, up, process, exec, lost, budget>>

-----------------------------------------------------------------------------
(* Time, the end of the process, and close.                                *)

Gone ==  \* what ends with a process
  /\ inflight' = {} /\ backlog' = {} /\ executing' = {} /\ timers' = {}
  /\ exec' = [r \in Run |-> "off"] /\ beats' = [r \in Run |-> "none"]
  /\ armed' = FALSE /\ woken' = FALSE

LeaseExpires(t) ==
  /\ row[t].lease = "live" /\ row' = [row EXCEPT ![t].lease = "expired"]
  /\ UNCHANGED <<due, up, process, running, lost, budget>>

SleepIsOver(t) ==
  /\ row[t].state = "sleeping" /\ row' = [row EXCEPT ![t].state = "pending"]
  /\ due' = Append(due, t)
  /\ UNCHANGED <<up, process, running, lost, budget>>

(* fatalTimer: twice the lease after it was last extended, the process     *)
(* exits; by then the lease is over in the database too.  workBatch sets   *)
(* none.                                                                   *)
FatalTimer(r) ==
  /\ up /\ r \in timers /\ ~Batching /\ ~(Executes(r) /\ row[r[1]].lease = "live")
  /\ up' = FALSE /\ Gone /\ loop' = "exited"
  /\ lost' = {q \in Run : Executes(q)}
  /\ UNCHANGED <<row, due, ask, closing, budget>>

(* The process is started again; nothing of it is left.                    *)
Restart ==
  /\ ~up /\ closing = "no" /\ budget > 0 /\ budget' = budget - 1
  /\ up' = TRUE /\ loop' = "off"
  /\ UNCHANGED <<row, due, ask, inflight, backlog, executing, armed, woken, running, closing, lost>>

(* close: running = false, and the loop's promise is awaited.              *)
Close ==
  /\ up /\ closing = "no" /\ loop \in {"top", "claiming", "answering", "waiting"}
  /\ closing' = "waiting"
  /\ UNCHANGED <<row, due, up, loop, ask, inflight, backlog, executing, armed, woken, running, lost, budget>>

(* Promise.allSettled(executing), and the pool is ended.                   *)
Unsettled == TRUE  \* a mistake: the loop does not wait for what it has begun
Settled == executing = {}
LoopEnds ==
  /\ up /\ loop = "settling" /\ Settled /\ loop' = "exited" /\ closing' = "resolved"
  /\ UNCHANGED <<row, due, up, ask, inflight, backlog, executing, armed, woken, running, lost, budget>>

Loop ==
  \/ LoopTop \/ ClaimCommits \/ ClaimAnswered \/ LoopWakes \/ LoopEnds
  \/ BatchAnswered \/ BatchNext
Executing(r) ==
  \/ ContextCreated(r) \/ Defer(r) \/ HandlerEnds(r) \/ FailTaskRun(r)

WorkerNext ==
  \/ StartWorker \/ WorkBatch \/ Loop \/ SleepTimer \/ ClaimFails \/ Restart \/ Close
  \/ \E r \in Run : Executing(r) \/ Extend(r) \/ CallFails(r) \/ FloatingBeat(r) \/ FatalTimer(r)
  \/ \E t \in Task : LeaseExpires(t) \/ SleepIsOver(t)

WorkerSpec == WorkerInit /\ [][WorkerNext]_workerVars

(* The event loop of the process runs on, its timers fire, leases run out; *)
(* a worker once begun polls, and handlers come to an end.                 *)
WorkerFairness ==
  /\ WF_workerVars(Loop) /\ WF_workerVars(SleepTimer)
  /\ \A r \in Run : WF_workerVars(Executing(r))
  /\ \A t \in Task : WF_workerVars(LeaseExpires(t))

-----------------------------------------------------------------------------
(* Properties.                                                             *)

(* What a worker executes and what it is about to be handed never exceed   *)
(* its concurrency, although runs finish while a claim is in flight.       *)
CapacityRespected ==
  ~Batching => Cardinality(executing) + Cardinality(inflight) <= Concurrency

(* A run that is claimed for a living process is being executed by it, or  *)
(* about to be, also when close is called while the claim is in flight;    *)
(* the exceptions are lost answers, batches given up half-way, and what    *)
(* an earlier process left.                                                *)
NoClaimDropped ==
  up => \A r \in Run :
          Executes(r) => r \in inflight \union backlog \union executing \union lost

(* Once close has resolved, no execution is left that would use the pool.  *)
CloseIsClean ==
  closing = "resolved" => executing = {} /\ inflight = {}

(* A worker that stays up claims every run that is due, in the order of    *)
(* available_at, unless it is closed: no wakeup is missed while it waits   *)
(* for capacity, for a claim or for the poll interval.                     *)
Polling == up /\ closing = "no" /\ loop \in {"top", "claiming", "answering", "waiting"}
DueIsClaimed ==
  \A t \in Task : []<>(row[t].state # "pending" \/ ~Polling)

(* close resolves, if handlers end and the process does not.               *)
CloseResolves == closing = "waiting" ~> closing = "resolved" \/ ~up
=============================================================================
