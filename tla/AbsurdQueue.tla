---------------------------- MODULE AbsurdQueue ----------------------------
(***************************************************************************)
(* One queue of Absurd: the five tables of sql/absurd.sql and the stored   *)
(* functions that read and write them.  Every stored function runs in one  *)
(* transaction, so an action is one committed call; a call that raises is  *)
(* rolled back and is not a step.  Rows that another session has locked    *)
(* appear here only as rows that "skip locked" may pass over.              *)
(*                                                                         *)
(*   task    t_<queue>, by task id        ckpt   c_<queue>, by task, step  *)
(*   run     r_<queue>, by run id         event  e_<queue>, by event name  *)
(*   wait    w_<queue>, a set of rows keyed by run and step                *)
(*   now     absurd.current_time()        nextRun   the next unused run id *)
(***************************************************************************)
EXTENDS Integers, FiniteSets

CONSTANTS
  Task,           \* task ids
  Step,           \* checkpoint names
  Event,          \* event names
  Value,          \* JSON values: checkpoint states and event payloads
  Policy,         \* spawn options: max_attempts, retry strategy, cancellation
  Key,            \* idempotency keys
  MaxRuns,        \* BOUND: run rows ever inserted
  MaxTime,        \* BOUND: the last instant of the clock
  Qty,            \* p_qty of claim_task, after greatest(p_qty, 1)
  Lease,          \* p_claim_timeout and p_extend_claim_by; 0 is "none"
  Delay,          \* seconds ahead of now that callers ask to sleep or retry
  Timeout,        \* p_timeout of await_event; Null waits forever
  MaxAttempts,    \* p_options.max_attempts of retry_task; Null is "not given"
  Ttl,            \* p_ttl_seconds of the cleanup functions
  CleanupLimit,   \* p_limit of the cleanup functions
  Null,           \* SQL NULL
  Infinity        \* 'infinity'::timestamptz

RunId == 1 .. MaxRuns
OrNull(S) == S \union {Null}

(* The retry strategy of a policy is a function from the attempt that      *)
(* failed to a delay in seconds.                                           *)
PolicyType == [max_attempts : OrNull(Nat \ {0}), delay : [RunId -> Nat],
               max_delay : OrNull(Nat), max_duration : OrNull(Nat)]

ASSUME BoundsAssumption == MaxRuns \in Nat /\ MaxTime \in Nat /\ CleanupLimit \in Nat
ASSUME NullAssumption ==
  /\ Null \notin Nat /\ Infinity \notin Nat /\ Null # Infinity
  /\ Null \notin Task \union Event \union Value \union Key
ASSUME InputAssumption ==
  /\ \A p \in Policy : p \in PolicyType
  /\ Qty \subseteq Nat \ {0} /\ Lease \subseteq Nat /\ Delay \subseteq Nat /\ Ttl \subseteq Nat
  /\ Timeout \subseteq OrNull(Nat) /\ MaxAttempts \subseteq OrNull(Nat \ {0})

VARIABLES task, run, ckpt, event, wait, now, nextRun
vars == <<task, run, ckpt, event, wait, now, nextRun>>

-----------------------------------------------------------------------------
(* Rows.                                                                   *)

Active == {"pending", "running", "sleeping"}
Terminal == {"completed", "failed", "cancelled"}
State == Active \union Terminal

(* "absent" is a row not inserted yet, "deleted" a task that cleanup        *)
(* removed: task ids are UUIDs and never come back.                        *)
TaskRow == [state : State, policy : PolicyType, max_attempts : OrNull(Nat \ {0}),
            key : OrNull(Key), attempts : Nat, last_attempt_run : RunId,
            enqueue_at : Nat, first_started_at : OrNull(Nat), cancelled_at : OrNull(Nat)]
NoTask == [state |-> "absent"]
GoneTask == [state |-> "deleted"]

(* ended_at stands for completed_at and failed_at.                         *)
RunRow == [state : State, task : Task, attempt : Nat,
           available_at : Nat \union {Infinity}, claim_expires_at : OrNull(Nat),
           wake_event : OrNull(Event), event_payload : OrNull(Value), ended_at : OrNull(Nat)]
NoRun == [state |-> "absent"]

Checkpoint == [value : Value, owner : RunId]
EventRow == [payload : OrNull(Value), emitted_at : Nat]
Sentinel == [payload |-> Null, emitted_at |-> 0]
WaitRow == [run : RunId, task : Task, step : Step, event : Event, timeout_at : OrNull(Nat)]

TypeOK ==
  /\ task \in [Task -> TaskRow \union {NoTask, GoneTask}]
  /\ run \in [RunId -> RunRow \union {NoRun}]
  /\ ckpt \in [Task -> [Step -> Checkpoint \union {Null}]]
  /\ event \in [Event -> EventRow \union {Null}]
  /\ wait \subseteq WaitRow
  /\ now \in Nat
  /\ nextRun \in 1 .. MaxRuns + 1

Exists(t) == task[t].state \in State

NewTask(p, max, k, r) ==
  [state |-> "pending", policy |-> p, max_attempts |-> max, key |-> k,
   attempts |-> 1, last_attempt_run |-> r, enqueue_at |-> now,
   first_started_at |-> Null, cancelled_at |-> Null]

NewRun(t, attempt, state, at) ==
  [state |-> state, task |-> t, attempt |-> attempt, available_at |-> at,
   claim_expires_at |-> Null, wake_event |-> Null, event_payload |-> Null,
   ended_at |-> Null]

Later(a, b) == IF a < b THEN b ELSE a
Coalesce(a, b) == IF a = Null THEN b ELSE a
Due(at) == at \notin {Null, Infinity} /\ at <= now
NoCkpt == [s \in Step |-> Null]

Init ==
  /\ task = [t \in Task |-> NoTask]
  /\ run = [r \in RunId |-> NoRun]
  /\ ckpt = [t \in Task |-> NoCkpt]
  /\ event = [e \in Event |-> Null]
  /\ wait = {}
  /\ now = 0
  /\ nextRun = 1

-----------------------------------------------------------------------------
(* The calls that several stored functions make, as operators from the     *)
(* tables before to the tables after (tk, rn: the t_ and r_ tables).       *)

RunsOf(rn, t) == {r \in RunId : rn[r].state \in State /\ rn[r].task = t}
RunIn(rn, S, t) == CHOOSE r \in S : rn[r].task = t

(* cancel_task on every task of S, none of them terminal.                  *)
CancelTasks(tk, S) ==
  [t \in Task |-> IF t \in S
                  THEN [tk[t] EXCEPT !.state = "cancelled", !.cancelled_at = Coalesce(@, now)]
                  ELSE tk[t]]
CancelRunsSkipsSleepers(rn, S) ==  \* a mistake: only executing runs are cancelled
  [r \in RunId |-> IF rn[r].state = "running" /\ rn[r].task \in S
                   THEN [rn[r] EXCEPT !.state = "cancelled", !.claim_expires_at = Null]
                   ELSE rn[r]]
CancelRuns(rn, S) ==
  [r \in RunId |-> IF rn[r].state \in Active /\ rn[r].task \in S
                   THEN [rn[r] EXCEPT !.state = "cancelled", !.claim_expires_at = Null]
                   ELSE rn[r]]

(* fail_run on every run of E, at most one run per task; retryAt is        *)
(* p_retry_at.                                                             *)
NextAvailable(tk, rn, r, retryAt) ==
  Later(now, Coalesce(retryAt, now + tk[rn[r].task].policy.delay[rn[r].attempt]))
AttemptsLeftOneMore(tk, rn, r) ==  \* a mistake: compares the attempt that failed
  LET max == tk[rn[r].task].max_attempts IN max = Null \/ rn[r].attempt <= max
AttemptsLeft(tk, rn, r) ==
  LET max == tk[rn[r].task].max_attempts IN max = Null \/ rn[r].attempt + 1 <= max
OverDuration(tk, rn, r, retryAt) ==
  LET t == tk[rn[r].task] IN
  /\ t.policy.max_duration # Null
  /\ t.first_started_at # Null
  /\ NextAvailable(tk, rn, r, retryAt) - t.first_started_at >= t.policy.max_duration
Retried(tk, rn, E, retryAt) ==
  {r \in E : AttemptsLeft(tk, rn, r) /\ ~OverDuration(tk, rn, r, retryAt)}
RetryState(at) == IF at > now THEN "sleeping" ELSE "pending"

(* The ways to give the next unused ids to the runs that replace those of  *)
(* R: uuidv7 ids grow with time and are random within an instant.          *)
FreshIds(R) ==
  {id \in [R -> nextRun .. nextRun + Cardinality(R) - 1] :
     \A q, r \in R : id[q] = id[r] => q = r}

FailTasks(tk, rn, E, retryAt, id) ==
  [t \in Task |->
     IF \A r \in E : rn[r].task # t THEN tk[t]
     ELSE LET r == RunIn(rn, E, t) IN
          IF r \in DOMAIN id
          THEN [tk[t] EXCEPT !.state = RetryState(NextAvailable(tk, rn, r, retryAt)),
                             !.attempts = Later(@, rn[r].attempt + 1),
                             !.last_attempt_run = id[r]]
          ELSE LET over == AttemptsLeft(tk, rn, r) IN
               [tk[t] EXCEPT !.state = IF over THEN "cancelled" ELSE "failed",
                             !.attempts = Later(@, rn[r].attempt),
                             !.last_attempt_run = r,
                             !.cancelled_at = IF over THEN Coalesce(@, now) ELSE @]]
FailRuns(tk, rn, E, retryAt, id) ==
  [r \in RunId |->
     IF r \in E
     THEN [rn[r] EXCEPT !.state = "failed", !.wake_event = Null, !.ended_at = now]
     ELSE IF \E q \in DOMAIN id : id[q] = r
     THEN LET q == CHOOSE q \in DOMAIN id : id[q] = r
              at == NextAvailable(tk, rn, q, retryAt) IN
          NewRun(rn[q].task, rn[q].attempt + 1, RetryState(at), at)
     ELSE rn[r]]

-----------------------------------------------------------------------------
(* claim_task.                                                             *)

PastDeadline(t) ==
  \/ /\ t.policy.max_delay # Null /\ t.first_started_at = Null
     /\ now - t.enqueue_at >= t.policy.max_delay
  \/ /\ t.policy.max_duration # Null /\ t.first_started_at # Null
     /\ now - t.first_started_at >= t.policy.max_duration
DueUnlessSleeping ==  \* a mistake: the scan of claim_task forgets sleeping tasks
  {t \in Task : task[t].state \in {"pending", "running"} /\ PastDeadline(task[t])}
DueForCancel == {t \in Task : task[t].state \in Active /\ PastDeadline(task[t])}

Expired(rn) == {r \in RunId : rn[r].state = "running" /\ Due(rn[r].claim_expires_at)}
Candidates(tk, rn) ==
  {r \in RunId : /\ rn[r].state \in {"pending", "sleeping"}
                 /\ tk[rn[r].task].state \in Active
                 /\ Due(rn[r].available_at)}

(* "order by ... limit qty for update skip locked": other sessions may hold *)
(* the first rows, so that any qty rows, or fewer, can be the batch.        *)
Batches(S, qty) == {B \in SUBSET S : Cardinality(B) <= qty}

(* The wait rows of the claimed runs that a claim deletes.                 *)
NoWaits(C) == {}  \* a mistake: a claim leaves the wait row that timed out
TimedOutWaits(C) == {w \in wait : w.run \in C /\ Due(w.timeout_at)}

ClaimTasks(tk, rn, C) ==
  [t \in Task |->
     IF \A r \in C : rn[r].task # t THEN tk[t]
     ELSE LET r == RunIn(rn, C, t) IN
          [tk[t] EXCEPT !.state = "running", !.attempts = Later(@, rn[r].attempt),
                        !.first_started_at = Coalesce(@, now), !.last_attempt_run = r]]
ClaimRuns(rn, C, lease) ==
  [r \in RunId |->
     IF r \in C
     THEN [rn[r] EXCEPT !.state = "running", !.available_at = now,
                        !.claim_expires_at = IF lease > 0 THEN now + lease ELSE Null]
     ELSE rn[r]]

(* Cancel what is past its deadline, fail up to qty runs whose lease has   *)
(* expired, then hand out up to qty runs.                                  *)
ClaimTask(qty, lease) ==
  LET tk1 == CancelTasks(task, DueForCancel)
      rn1 == CancelRuns(run, DueForCancel)
  IN \E E \in Batches(Expired(rn1), qty) :
       LET R == Retried(tk1, rn1, E, Null)
       IN /\ nextRun + Cardinality(R) <= MaxRuns + 1
          /\ nextRun' = nextRun + Cardinality(R)
          /\ \E id \in FreshIds(R) :
               LET tk2 == FailTasks(tk1, rn1, E, Null, id)
                   rn2 == FailRuns(tk1, rn1, E, Null, id)
               IN \E C \in Batches(Candidates(tk2, rn2), qty) :
                    /\ task' = ClaimTasks(tk2, rn2, C)
                    /\ run' = ClaimRuns(rn2, C, lease)
                    /\ wait' = {w \in wait \ TimedOutWaits(C) :
                                  w.task \notin DueForCancel /\ w.run \notin E}
          /\ UNCHANGED <<ckpt, event, now>>

-----------------------------------------------------------------------------
(* The other stored functions.                                             *)

(* spawn_task that creates a row; with a key another task holds, it only   *)
(* returns that task.                                                      *)
SpawnTask(t, p, max, k) ==
  /\ task[t].state = "absent"
  /\ nextRun \in RunId
  /\ k = Null \/ \A u \in Task : Exists(u) => task[u].key # k
  /\ task' = [task EXCEPT ![t] = NewTask(p, max, k, nextRun)]
  /\ run' = [run EXCEPT ![nextRun] = NewRun(t, 1, "pending", now)]
  /\ nextRun' = nextRun + 1
  /\ UNCHANGED <<ckpt, event, wait, now>>

CompleteRun(r) ==
  /\ run[r].state = "running"
  /\ run' = [run EXCEPT ![r].state = "completed", ![r].ended_at = now]
  /\ task' = [task EXCEPT ![run[r].task].state = "completed",
                          ![run[r].task].last_attempt_run = r]
  /\ wait' = {w \in wait : w.run # r}
  /\ UNCHANGED <<ckpt, event, now, nextRun>>

ScheduleRun(r, wakeAt) ==
  /\ run[r].state = "running"
  /\ run' = [run EXCEPT ![r].state = "sleeping", ![r].claim_expires_at = Null,
                        ![r].available_at = wakeAt, ![r].wake_event = Null]
  /\ task' = [task EXCEPT ![run[r].task].state = "sleeping"]
  /\ UNCHANGED <<ckpt, event, wait, now, nextRun>>

FailableIfNotFailed(r) ==  \* a mistake: only AB001 and AB002 are raised
  run[r].state \notin {"absent", "failed", "cancelled"}
Failable(r) == run[r].state \in {"running", "sleeping"}

FailRun(r, retryAt) ==
  /\ Failable(r)
  /\ LET R == Retried(task, run, {r}, retryAt)
     IN /\ nextRun + Cardinality(R) <= MaxRuns + 1
        /\ nextRun' = nextRun + Cardinality(R)
        /\ \E id \in FreshIds(R) :
             /\ task' = FailTasks(task, run, {r}, retryAt, id)
             /\ run' = FailRuns(task, run, {r}, retryAt, id)
  /\ wait' = {w \in wait : w.run # r}
  /\ UNCHANGED <<ckpt, event, now>>

RetriableIfNotEnded(t) ==  \* a mistake: a task that still waits may be retried
  task[t].state \in {"failed", "pending", "sleeping"}
Retriable(t) == task[t].state = "failed"

(* retry_task in place: one more run of a failed task.                     *)
RetryTask(t, requested) ==
  LET max == Coalesce(requested, Coalesce(task[t].max_attempts, task[t].attempts) + 1)
      attempt == task[t].attempts + 1
  IN /\ Retriable(t)
     /\ max > task[t].attempts
     /\ nextRun \in RunId
     /\ run' = [run EXCEPT ![nextRun] = NewRun(t, attempt, "pending", now)]
     /\ task' = [task EXCEPT ![t] = [@ EXCEPT !.state = "pending", !.attempts = attempt,
                                              !.max_attempts = max, !.cancelled_at = Null,
                                              !.last_attempt_run = nextRun]]
     /\ nextRun' = nextRun + 1
     /\ UNCHANGED <<ckpt, event, wait, now>>

(* retry_task with spawn_new: a new task from the inputs of a failed one.  *)
RetryAsNew(t, u, requested) ==
  /\ Retriable(t)
  /\ SpawnTask(u, task[t].policy, Coalesce(requested, task[t].max_attempts), Null)

(* The owner of a checkpoint row may be gone, and any attempt may then     *)
(* write; otherwise only the attempt that wrote it or a later one.         *)
MayWrite(r, c) ==
  c = Null \/ run[c.owner].state = "absent" \/ run[r].attempt >= run[c.owner].attempt

OwnerNotFailed(r) ==  \* a mistake: AB001 is not raised
  run[r].state \notin {"absent", "failed"}
MayCheckpoint(r) ==
  /\ run[r].state \notin {"absent", "failed"}
  /\ task[run[r].task].state # "cancelled"

UnfencedCheckpoint(r, s, v, extendBy) ==  \* a mistake: any attempt may write
  /\ run[r].state # "absent"
  /\ ckpt' = [ckpt EXCEPT ![run[r].task][s] = [value |-> v, owner |-> r]]
  /\ UNCHANGED <<task, run, event, wait, now, nextRun>>
SetTaskCheckpointState(r, s, v, extendBy) ==
  /\ MayCheckpoint(r)
  /\ run' = IF extendBy > 0 /\ run[r].state = "running" /\ run[r].claim_expires_at # Null
            THEN [run EXCEPT ![r].claim_expires_at = now + extendBy]
            ELSE run
  /\ ckpt' = IF MayWrite(r, ckpt[run[r].task][s])
             THEN [ckpt EXCEPT ![run[r].task][s] = [value |-> v, owner |-> r]]
             ELSE ckpt
  /\ UNCHANGED <<task, event, wait, now, nextRun>>

ExtendClaim(r, extendBy) ==
  /\ extendBy > 0
  /\ run[r].state = "running"
  /\ task[run[r].task].state # "cancelled"
  /\ run[r].claim_expires_at # Null
  /\ run' = [run EXCEPT ![r].claim_expires_at = now + extendBy]
  /\ UNCHANGED <<task, ckpt, event, wait, now, nextRun>>

-----------------------------------------------------------------------------
(* Events.                                                                 *)

Payload(e) == IF event[e] = Null THEN Null ELSE event[e].payload

(* What the three outcomes of await_event share: the step has no           *)
(* checkpoint yet, the run is running, and the event gets a row.           *)
Awaiting(r, s, e) ==
  /\ run[r].state = "running"
  /\ task[run[r].task].state # "cancelled"
  /\ ckpt[run[r].task][s] = Null
  /\ event' = [event EXCEPT ![e] = IF @ = Null THEN Sentinel ELSE @]
  /\ UNCHANGED <<now, nextRun>>

AwaitResolved(r, s, e) ==
  /\ Awaiting(r, s, e)
  /\ Payload(e) # Null
  /\ run' = [run EXCEPT ![r].event_payload = Null]
  /\ ckpt' = [ckpt EXCEPT ![run[r].task][s] = [value |-> Payload(e), owner |-> r]]
  /\ UNCHANGED <<task, wait>>

WakeTimeAsIs(timeoutAt) == timeoutAt  \* a mistake: no 'infinity' without a timeout
WakeTime(timeoutAt) == Coalesce(timeoutAt, Infinity)

ResumedByTimeout(r, e) == run[r].wake_event = e /\ run[r].event_payload = Null

AwaitTimedOut(r, s, e) ==
  /\ Awaiting(r, s, e)
  /\ Payload(e) = Null
  /\ ResumedByTimeout(r, e)
  /\ run' = [run EXCEPT ![r].wake_event = Null]
  /\ UNCHANGED <<task, ckpt, wait>>

AwaitSuspended(r, s, e, timeout) ==
  LET timeoutAt == IF timeout = Null THEN Null ELSE now + timeout
  IN /\ Awaiting(r, s, e)
     /\ Payload(e) = Null
     /\ ~ResumedByTimeout(r, e)
     /\ wait' = {w \in wait : ~(w.run = r /\ w.step = s)} \union
                {[run |-> r, task |-> run[r].task, step |-> s, event |-> e,
                  timeout_at |-> timeoutAt]}
     /\ run' = [run EXCEPT ![r].state = "sleeping", ![r].claim_expires_at = Null,
                           ![r].available_at = WakeTime(timeoutAt),
                           ![r].wake_event = e, ![r].event_payload = Null]
     /\ task' = [task EXCEPT ![run[r].task].state = "sleeping"]
     /\ UNCHANGED ckpt

(* The waits that an emission answers.                                     *)
Affected(e) == {w \in wait : w.event = e /\ ~Due(w.timeout_at)}

(* emit_event on an event not emitted yet; a later one changes nothing.    *)
EmitEvent(e, v) ==
  LET affected == Affected(e)
      woken == {r \in RunId : run[r].state = "sleeping" /\ \E w \in affected : w.run = r}
      stepsOf(t) == {w \in affected : w.task = t /\ w.run \in woken}
  IN /\ Payload(e) = Null
     /\ event' = [event EXCEPT ![e] = [payload |-> v, emitted_at |-> now]]
     /\ run' = [r \in RunId |->
                  IF r \in woken
                  THEN [run[r] EXCEPT !.state = "pending", !.available_at = now,
                                      !.wake_event = Null, !.event_payload = v,
                                      !.claim_expires_at = Null]
                  ELSE run[r]]
     /\ ckpt' = [t \in Task |-> [s \in Step |->
                  IF \E w \in stepsOf(t) : w.step = s
                  THEN [value |-> v, owner |-> (CHOOSE w \in stepsOf(t) : w.step = s).run]
                  ELSE ckpt[t][s]]]
     /\ task' = [t \in Task |-> IF \E r \in woken : run[r].task = t
                                THEN [task[t] EXCEPT !.state = "pending"]
                                ELSE task[t]]
     /\ wait' = {w \in wait : w.event = e => /\ ~Due(w.timeout_at)
                                             /\ w.run \notin woken}
     /\ UNCHANGED <<now, nextRun>>

-----------------------------------------------------------------------------
(* Cancellation and cleanup.                                               *)

CancellableIfFailed(t) ==  \* a mistake: a failed task can be cancelled
  task[t].state \in Active \union {"failed"}
Cancellable(t) == task[t].state \in Active

CancelTask(t) ==
  /\ Cancellable(t)
  /\ task' = CancelTasks(task, {t})
  /\ run' = CancelRuns(run, {t})
  /\ wait' = {w \in wait : w.task # t}
  /\ UNCHANGED <<ckpt, event, now, nextRun>>

TerminalAt(t) == IF task[t].state = "cancelled" THEN task[t].cancelled_at
                 ELSE run[task[t].last_attempt_run].ended_at

(* "order by ... limit p_limit": the oldest rows of S by time at.          *)
OldestBatches(S, at) ==
  {B \in SUBSET S : /\ Cardinality(B) <= CleanupLimit
                    /\ B = S \/ Cardinality(B) = CleanupLimit
                    /\ \A b \in B, x \in S \ B : at[b] <= at[x]}

KeepCheckpoints(D) == ckpt  \* a mistake: cleanup_tasks forgets the c_ table
DeleteCheckpoints(D) == [t \in Task |-> IF t \in D THEN NoCkpt ELSE ckpt[t]]

CleanupTasks(ttl) ==
  LET eligible == {t \in Task : /\ task[t].state \in Terminal
                                /\ TerminalAt(t) # Null
                                /\ TerminalAt(t) < now - ttl}
  IN \E D \in OldestBatches(eligible, [t \in eligible |-> TerminalAt(t)]) :
       /\ task' = [t \in Task |-> IF t \in D THEN GoneTask ELSE task[t]]
       /\ run' = [r \in RunId |-> IF run[r].state \in State /\ run[r].task \in D
                                  THEN NoRun ELSE run[r]]
       /\ ckpt' = DeleteCheckpoints(D)
       /\ wait' = {w \in wait : w.task \notin D}
       /\ UNCHANGED <<event, now, nextRun>>

(* A sentinel carries the epoch: it is older than every cutoff.            *)
CleanupEvents(ttl) ==
  LET eligible == {e \in Event : /\ event[e] # Null
                                 /\ event[e] = Sentinel \/ event[e].emitted_at < now - ttl}
  IN \E D \in OldestBatches(eligible, [e \in eligible |-> event[e].emitted_at]) :
       /\ event' = [e \in Event |-> IF e \in D THEN Null ELSE event[e]]
       /\ UNCHANGED <<task, run, ckpt, wait, now, nextRun>>

Tick ==
  /\ now < MaxTime
  /\ now' = now + 1
  /\ UNCHANGED <<task, run, ckpt, event, wait, nextRun>>

-----------------------------------------------------------------------------
Next ==
  \/ \E t \in Task, p \in Policy, k \in OrNull(Key) : SpawnTask(t, p, p.max_attempts, k)
  \/ \E qty \in Qty, lease \in Lease : ClaimTask(qty, lease)
  \/ \E r \in RunId : CompleteRun(r)
  \/ \E r \in RunId, d \in Delay : ScheduleRun(r, now + d)
  \/ \E r \in RunId, at \in {Null} \union {now + d : d \in Delay} : FailRun(r, at)
  \/ \E t \in Task, m \in MaxAttempts : RetryTask(t, m)
  \/ \E t, u \in Task, m \in MaxAttempts : RetryAsNew(t, u, m)
  \/ \E r \in RunId, s \in Step, v \in Value, x \in Lease : SetTaskCheckpointState(r, s, v, x)
  \/ \E r \in RunId, x \in Lease : ExtendClaim(r, x)
  \/ \E r \in RunId, s \in Step, e \in Event : AwaitResolved(r, s, e)
  \/ \E r \in RunId, s \in Step, e \in Event : AwaitTimedOut(r, s, e)
  \/ \E r \in RunId, s \in Step, e \in Event, x \in Timeout : AwaitSuspended(r, s, e, x)
  \/ \E e \in Event, v \in Value : EmitEvent(e, v)
  \/ \E t \in Task : CancelTask(t)
  \/ \E ttl \in Ttl : CleanupTasks(ttl)
  \/ \E ttl \in Ttl : CleanupEvents(ttl)
  \/ Tick

Spec == Init /\ [][Next]_vars
-----------------------------------------------------------------------------
(* Properties.                                                             *)

(* A task has at most one run that is waiting or executing, so that no two *)
(* workers execute the same task under live claims: fail_run, retry_task   *)
(* and claim_task each add or start a run, and none of them looks at the   *)
(* other runs of the task.                                                 *)
SingleActiveRun ==
  \A t \in Task : \A q, r \in RunsOf(run, t) :
    run[q].state \in Active /\ run[r].state \in Active => q = r

(* The two tables agree although no function reads both before it writes:  *)
(* the task row shows the state and attempt of its last run, and every     *)
(* earlier run has failed.  The one exception is a task that fail_run      *)
(* cancels because its next attempt would exceed max_duration.             *)
TaskMirrorsLastRun ==
  \A t \in Task : Exists(t) =>
    LET last == task[t].last_attempt_run IN
    /\ last \in RunsOf(run, t)
    /\ run[last].attempt = task[t].attempts
    /\ \/ run[last].state = task[t].state
       \/ run[last].state = "failed" /\ task[t].state = "cancelled"
    /\ \A r \in RunsOf(run, t) \ {last} : run[r].state = "failed"

(* No attempt is skipped, repeated or beyond max_attempts, whichever of    *)
(* spawn_task, fail_run and retry_task numbered it.                        *)
AttemptAccounting ==
  \A t \in Task : Exists(t) =>
    /\ {run[r].attempt : r \in RunsOf(run, t)} = 1 .. task[t].attempts
    /\ \A q, r \in RunsOf(run, t) : run[q].attempt = run[r].attempt => q = r
    /\ task[t].max_attempts = Null \/ task[t].attempts <= task[t].max_attempts

(* Nothing outlives its task: cleanup_tasks and the calls of late workers  *)
(* leave no run, checkpoint or wait row without the task it belongs to.    *)
NoOrphans ==
  /\ \A r \in RunId : run[r].state \in State => Exists(run[r].task)
  /\ \A t \in Task, s \in Step : ckpt[t][s] # Null =>
       Exists(t) /\ ckpt[t][s].owner \in RunsOf(run, t)
  /\ \A w \in wait : Exists(w.task)

(* Wait rows and sleeping runs agree: a wait row belongs to a run that     *)
(* sleeps on that event.                                                   *)
(* No wakeup is lost: an event that has a waiter has not been emitted, and *)
(* a run that sleeps on an event has its wait row, or is due for a claim.  *)
NoLostWakeup ==
  /\ \A w \in wait : /\ run[w.run].state = "sleeping" /\ run[w.run].task = w.task
                     /\ run[w.run].wake_event = w.event
                     /\ Payload(w.event) = Null
  /\ \A r \in RunId : run[r].state = "sleeping" /\ run[r].wake_event # Null =>
       \/ Due(run[r].available_at)
       \/ \E w \in wait : /\ w.run = r /\ w.event = run[r].wake_event
                          /\ Coalesce(w.timeout_at, Infinity) = run[r].available_at

(* A finished task stays finished: only cleanup removes a completed or a   *)
(* cancelled task, whatever calls its late workers make, and a failed one  *)
(* comes back only for an attempt beyond those it has had.                 *)
TerminalIsFinal ==
  [][\A t \in Task : task[t].state \in Terminal =>
       \/ task'[t] \in {task[t], GoneTask}
       \/ /\ task[t].state = "failed" /\ task'[t].state = "pending"
          /\ task'[t].attempts = task[t].attempts + 1
          /\ task'[t].attempts <= task'[t].max_attempts]_vars

(* cancel_task "prevents any future runs": a cancelled task gains no run   *)
(* and no checkpoint, although a worker may still be executing its code.   *)
CancelledIsFrozen ==
  [][\A t \in Task : task[t].state = "cancelled" =>
       \/ task'[t] = GoneTask
       \/ /\ ckpt'[t] = ckpt[t]
          /\ RunsOf(run', t) = RunsOf(run, t)
          /\ \A r \in RunsOf(run, t) : run'[r] = run[r]]_vars

(* claim_task never starts a run of a task whose max_delay or max_duration *)
(* has run out, not even the retry it has itself just created.             *)
NoStartPastDeadline ==
  [][\A r \in RunId : run'[r].state = "running" /\ run[r].state # "running" =>
       ~PastDeadline(task[run'[r].task])]_vars

(* A task that has not written a checkpoint for max_delay seconds is       *)
(* cancelled (docs/concepts.md, Cancellation): no run of it starts.        *)
MaxDelayCountsFromCheckpoint ==
  [][\A r \in RunId : run'[r].state = "running" /\ run[r].state # "running" =>
       LET t == run'[r].task IN
       (task[t].policy.max_delay # Null /\ \A s \in Step : ckpt[t][s] = Null) =>
         now - task[t].enqueue_at < task[t].policy.max_delay]_vars

(* A checkpoint never goes back to the value of an earlier attempt, by     *)
(* set_task_checkpoint_state, which compares attempts, or by await_event   *)
(* and emit_event, which do not.                                           *)
CheckpointsNeverRegress ==
  [][\A t \in Task, s \in Step : ckpt[t][s] # Null /\ ckpt'[t][s] # Null =>
       run[ckpt[t][s].owner].attempt <= run'[ckpt'[t][s].owner].attempt]_vars

(* The tables implement the lifecycle of a task.                           *)
Phase(t) ==
  CASE task[t].state \in {"pending", "sleeping"} -> "waiting"
    [] task[t].state = "running"                 -> "executing"
    [] OTHER                                     -> task[t].state
Attempt(t) == IF Exists(t) THEN task[t].attempts ELSE 0
Lifecycle == INSTANCE TaskLifecycle WITH phase <- [t \in Task |-> Phase(t)],
                                         attempt <- [t \in Task |-> Attempt(t)]

(* Every call moves each task along TaskLifecycle: it never skips or       *)
(* repeats an attempt, never starts one of a finished task, never finishes *)
(* a task twice.                                                           *)
ImplementsLifecycle == Lifecycle!Spec
=============================================================================
