---------------------------- MODULE TaskContext ----------------------------
(***************************************************************************)
(* The TaskContext of the TypeScript SDK: how the handler of a task is     *)
(* executed, suspended and replayed from its checkpoints, attempt after    *)
(* attempt, by a worker that may stall or be lost.  The handler's calls    *)
(* are data (Handler); the stored functions are one step each, as in       *)
(* AbsurdQueue, on a task row that stands for its last run too: earlier    *)
(* runs have failed (TaskMirrorsLastRun).                                  *)
(*                                                                         *)
(*   task      the row of each task and of its last run                    *)
(*   ckpt      task -> checkpoint name -> value and owner                  *)
(*   event     event -> payload, or NoValue                                *)
(*   exec      task -> attempt -> the execution of its handler             *)
(*   past      <<task, call>> whose wake time the worker's clock has passed *)
(*   tries     executions a worker process remembers, counted to Outage + 1  *)
(*   faults    BOUND: stalls, lost workers and cancellations still to come *)
(*   returned  task -> <<position, value>> of every call that returned     *)
(*   ran       task -> <<checkpoint name, attempt>> of the step functions  *)
(*   timedOut  <<task, attempt, checkpoint name>> of waits that timed out  *)
(***************************************************************************)
EXTENDS Integers, Sequences, FiniteSets

CONSTANTS
  Handler,      \* kind of task -> the calls of its handler
  QueueOf,      \* kind of task -> its queue
  MaxAttempts,  \* kind of task -> max_attempts
  Slots,        \* queue -> concurrency of its worker
  Workflow,     \* [root : kind, emits : SUBSET Event, faults : Nat, cancels : BOOLEAN]
  Event,
  Outage,       \* executions per process that may throw on a low roll
  MostAttempts, \* the largest of them; by default max_attempts is 5
  MaxTasks,     \* BOUND: tasks ever spawned
  MaxTurns,     \* BOUND: turns of a loop
  None

TaskId == 1 .. MaxTasks
Kind == DOMAIN Handler
Attempt == 1 .. MostAttempts
Ended == {"completed", "failed", "cancelled"}

ASSUME ConstantAssumption ==
  /\ MaxTasks \in Nat /\ MaxTurns \in Nat /\ MostAttempts \in Nat /\ None \notin Kind \union Event
  /\ \A k \in Kind : MaxAttempts[k] \in Attempt /\ QueueOf[k] \in DOMAIN Slots
  /\ \A w \in Workflow : w.root \in Kind /\ w.faults \in Nat

(* A call of a handler, as ExampleHandlers writes it.                      *)
CallShape == [do : {"step", "sleep", "await", "throwIf"},
              name : Seq(STRING),
              body : {"pure", "spawn", "emit", "result"},
              arg : Kind \union Event \union {None},
              opts : SUBSET {"flaky", "rolls", "again", "throws", "unlessPast",
                             "timeout", "returns", "continues"}]

(* What the code leaves to the author of a handler.  A name must not be a  *)
(* numbered form of another (getCheckpointName does not look), and who     *)
(* goes on after the timeout of an event must not wait for it once more:   *)
(* await_event answers NULL to that, from a row that the replay lacks.     *)
WaitsAgain(c, d) == "continues" \in c.opts /\ c.do = "await" /\ d.do = "await" /\ c.arg = d.arg
ASSUME HandlerAssumption ==
  \A k \in Kind :
    /\ Handler[k] \in Seq(CallShape)
    /\ \A i \in DOMAIN Handler[k] :
         LET c == Handler[k][i]
         IN /\ "again" \in c.opts => i = Len(Handler[k])  \* a loop is the handler's last call
            /\ c.do = "await" => c.body = "pure"
            /\ c.do = "await" \/ c.body = "emit" => c.arg \in Event
            /\ c.body = "spawn" => c.arg \in Kind
            /\ \A j \in DOMAIN Handler[k] :
                 LET d == Handler[k][j]
                 IN /\ SubSeq(d.name, 1, Len(d.name) - 1) # c.name
                    /\ i < j => ~WaitsAgain(c, d)

VARIABLES task, ckpt, event, exec, past, tries, faults, returned, ran, timedOut
tables == <<task, ckpt, event>>
history == <<returned, ran, timedOut>>
vars == <<task, ckpt, event, exec, past, tries, faults, returned, ran, timedOut>>

-----------------------------------------------------------------------------
(* Rows and executions.                                                    *)

(* due: available_at has come, will come, or is 'infinity'.  wait: the     *)
(* checkpoint name of the run's row in w_<queue>.                          *)
NoName == <<>>
Value(n, e, a, b) == [call |-> n, event |-> e, by |-> a, flag |-> b]
NoValue == Value(0, None, 0, FALSE)

NewTask(k) == [kind |-> k, attempt |-> 1, state |-> "pending", due |-> "now",
               wake |-> None, wait |-> NoName]
NoTask == [kind |-> None, attempt |-> 0, state |-> "absent", due |-> "never",
           wake |-> None, wait |-> NoName]

(* An execution: the call it is at, the names it has asked for so far, the *)
(* checkpoint cache, wake_event of the claimed row, and the last value.    *)
Idle == [mode |-> "idle"]
Claimed(t) == [mode |-> "create", pc |-> 1, called |-> <<>>, cache |-> <<>>,
               wake |-> task[t].wake, value |-> NoValue]

TypeOK ==
  /\ \A t \in TaskId :
       /\ task[t].kind \in Kind \union {None} /\ task[t].attempt \in Attempt \union {0}
       /\ task[t].state \in {"absent", "pending", "running", "sleeping"} \union Ended
       /\ task[t].due \in {"now", "later", "never"}
       /\ task[t].wake \in Event \union {None}
       /\ task[t].wait # NoName => task[t].state = "sleeping" /\ task[t].wake # None
       /\ \A a \in Attempt :
            exec[t][a].mode \in {"idle", "create", "run", "body", "persist", "sleep", "await", "fail"}
  /\ faults \in Nat

Init ==
  \E w \in Workflow :
    /\ task = [t \in TaskId |-> IF t = 1 THEN NewTask(w.root) ELSE NoTask]
    /\ event = [e \in Event |-> NoValue]
    /\ faults = w.faults
    /\ ckpt = [t \in TaskId |-> <<>>]
    /\ exec = [t \in TaskId |-> [a \in Attempt |-> Idle]]
    /\ past = {} /\ tries = [t \in TaskId |-> 0]
    /\ returned = [t \in TaskId |-> {}] /\ ran = [t \in TaskId |-> {}] /\ timedOut = {}

Live(t, a) == exec[t][a].mode # "idle"
Calls(t) == Handler[task[t].kind]
CallOf(t, a) == Calls(t)[exec[t][a].pc]
AtCall(t, a) == exec[t][a].mode = "run" /\ exec[t][a].pc <= Len(Calls(t))
Position(x) == Len(x.called)
RunState(t, a) == IF a < task[t].attempt THEN "failed" ELSE task[t].state

Become(t, a, x) == exec' = [exec EXCEPT ![t][a] = x]
Quit(t, a) == Become(t, a, Idle)
SetTask(t, row) == task' = [task EXCEPT ![t] = row]

(* A call returns v to the handler, which goes on.                         *)
Goes(t, x, v) ==
  LET c == Calls(t)[x.pc]
      repeats == "again" \in c.opts /\ v.flag
  IN [x EXCEPT !.mode = IF "throws" \in c.opts /\ x.mode = "persist" THEN "fail" ELSE "run",
               !.pc = IF repeats THEN @ ELSE @ + 1, !.value = v]
Returns(t, a, x, v) ==
  /\ Become(t, a, Goes(t, x, v))
  /\ returned' = [returned EXCEPT ![t] = @ \union {<<Position(x), v>>}]

-----------------------------------------------------------------------------
(* Checkpoint names and lookups.                                           *)

(* getCheckpointName: the second call of a name is name#2, and so on.      *)
CheckpointNameUncounted(x, name) == name  \* a mistake: one name, one checkpoint
CheckpointName(x, name) ==
  LET count == Cardinality({i \in DOMAIN x.called : x.called[i] = name}) + 1
  IN IF count = 1 THEN name ELSE Append(name, count)

Called(x, name) == [x EXCEPT !.called = Append(@, name)]

(* The name that the call in progress was given.                           *)
CurrentName(x) ==
  CheckpointName([x EXCEPT !.called = SubSeq(@, 1, Len(@) - 1)], x.called[Len(x.called)])

(* get_task_checkpoint_states: those of later attempts are hidden.         *)
Visible(t, a) ==
  LET names == {n \in DOMAIN ckpt[t] : ckpt[t][n].owner <= a}
  IN [n \in names |-> ckpt[t][n].value]

(* f with v at n.                                                          *)
Put(f, n, v) == [m \in DOMAIN f \union {n} |-> IF m = n THEN v ELSE f[m]]

Cache(x, n, v) == [x EXCEPT !.cache = Put(@, n, v)]

(* lookupCheckpoint: the cache, else get_task_checkpoint_state.            *)
LookupFalsy(t, x, n) ==  \* a mistake: a falsy value is taken for a missing checkpoint
  IF n \in DOMAIN x.cache /\ x.cache[n].flag THEN x.cache[n] ELSE NoValue
LookupCheckpoint(t, x, n) ==
  IF n \in DOMAIN x.cache THEN x.cache[n]
  ELSE IF n \in DOMAIN ckpt[t] THEN ckpt[t][n].value ELSE NoValue

-----------------------------------------------------------------------------
(* The stored functions.                                                   *)

(* fail_run, and what claim_task does with an expired lease.               *)
Failed(row) ==
  IF row.attempt < MaxAttempts[row.kind]
  THEN [row EXCEPT !.attempt = @ + 1, !.state = "pending", !.due = "now",
                   !.wake = None, !.wait = NoName]
  ELSE [row EXCEPT !.state = "failed", !.wake = None, !.wait = NoName]

(* set_task_checkpoint_state raises AB001 or AB002, and mapTaskStateError  *)
(* makes them CancelledTask and FailedTask.                                *)
Refused(t, a) == task[t].state = "cancelled" \/ RunState(t, a) = "failed"

MayWrite(t, a, n) == n \notin DOMAIN ckpt[t] \/ ckpt[t][n].owner <= a
WriteCheckpoint(t, a, n, v) ==
  ckpt' = [ckpt EXCEPT ![t] = Put(@, n, [value |-> v, owner |-> a])]

(* emit_event: first payload wins; every wait whose timeout has not passed *)
(* is answered, its checkpoint written and its run made pending.           *)
Woken(e) == {t \in TaskId : task[t].wait # NoName /\ task[t].wake = e /\ task[t].due # "now"}
EmitEvent(e, v) ==
  IF event[e] # NoValue THEN UNCHANGED tables
  ELSE /\ event' = [event EXCEPT ![e] = v]
       /\ task' = [t \in TaskId |->
                     IF t \in Woken(e)
                     THEN [task[t] EXCEPT !.state = "pending", !.due = "now", !.wake = None, !.wait = NoName]
                     ELSE IF task[t].wake = e THEN [task[t] EXCEPT !.wait = NoName] ELSE task[t]]
       /\ ckpt' = [t \in TaskId |->
                     IF t \in Woken(e)
                     THEN Put(ckpt[t], task[t].wait, [value |-> v, owner |-> task[t].attempt])
                     ELSE ckpt[t]]

Unused == {t \in TaskId : task[t].kind = None}
FirstUnused == CHOOSE t \in Unused : \A u \in Unused : t <= u
SpawnTask(k) ==
  /\ Unused # {} /\ SetTask(FirstUnused, NewTask(k))
  /\ UNCHANGED <<ckpt, event>>

-----------------------------------------------------------------------------
(* Claiming, and the context of the claimed run.                           *)

Busy(q) == {t \in TaskId : task[t].kind # None /\ QueueOf[task[t].kind] = q /\ \E a \in Attempt : Live(t, a)}

(* A worker with a free slot claims a run that is due; a wait that timed   *)
(* out is over, and the row still names its event.                         *)
Claim(t) ==
  LET row == task[t]
  IN /\ row.state \in {"pending", "sleeping"} /\ row.due = "now" /\ ~Live(t, row.attempt)
     /\ Cardinality(Busy(QueueOf[row.kind])) < Slots[QueueOf[row.kind]]
     /\ SetTask(t, [row EXCEPT !.state = "running", !.wait = NoName])
     /\ Become(t, row.attempt, Claimed(t))
     /\ UNCHANGED <<ckpt, event, past, tries, faults, history>>

(* TaskContext.create, and the handler starts.                             *)
Create(t, a) ==
  /\ exec[t][a].mode = "create"
  /\ Become(t, a, [exec[t][a] EXCEPT !.mode = "run", !.cache = Visible(t, a)])
  /\ tries' = [tries EXCEPT ![t] = IF @ > Outage THEN @ ELSE @ + 1]
  /\ UNCHANGED <<tables, past, faults, history>>

-----------------------------------------------------------------------------
(* step: beginStep, the function, completeStep.                            *)

BeginStep(t, a) ==
  /\ AtCall(t, a) /\ CallOf(t, a).do = "step"
  /\ LET name == CallOf(t, a).name
         n == CheckpointName(exec[t][a], name)
         x == Called(exec[t][a], name)
         found == LookupCheckpoint(t, exec[t][a], n)
     IN IF found # NoValue
        THEN Returns(t, a, Cache(x, n, found), found)
        ELSE /\ Become(t, a, [x EXCEPT !.mode = "body"]) /\ UNCHANGED returned
  /\ UNCHANGED <<tables, past, tries, faults, ran, timedOut>>

(* awaitTaskResult refuses the task's own queue, where the two could hold  *)
(* and want the same slot.                                                 *)
SameQueueUnchecked(t, k) == FALSE  \* a mistake: it waits on its own queue too
SameQueue(t, k) == QueueOf[k] = QueueOf[task[t].kind]

ChildEnded(t, k) == \E u \in TaskId : u > t /\ task[u].kind = k /\ task[u].state \in Ended

Bits(t, a) ==
  LET c == CallOf(t, a)
  IN IF "rolls" \notin c.opts \/ ("again" \in c.opts /\ Position(exec[t][a]) > MaxTurns)
     THEN {FALSE} ELSE BOOLEAN

(* The function of a step runs to its end, with what it spawns or emits.   *)
RunBody(t, a) ==
  LET c == CallOf(t, a)
      x == exec[t][a]
  IN /\ x.mode = "body"
     /\ CASE c.body = "spawn" -> SpawnTask(c.arg)
          [] c.body = "emit" -> EmitEvent(c.arg, Value(0, c.arg, t, FALSE))
          [] c.body = "result" -> /\ ~SameQueue(t, c.arg) /\ ChildEnded(t, c.arg) /\ UNCHANGED tables
          [] OTHER -> UNCHANGED tables
     /\ \E b \in Bits(t, a) :
          Become(t, a, [x EXCEPT !.mode = "persist",
                                 !.value = Value(Position(x), None, a, b)])
     /\ ran' = [ran EXCEPT ![t] = @ \union {<<CurrentName(x), a>>}]
     /\ UNCHANGED <<past, tries, faults, returned, timedOut>>

(* The function, or awaitTaskResult before it, throws.                     *)
BodyThrows(t, a) ==
  LET c == CallOf(t, a)
  IN /\ exec[t][a].mode = "body"
     /\ "flaky" \in c.opts \/ (c.body = "result" /\ SameQueue(t, c.arg))
     /\ Become(t, a, [exec[t][a] EXCEPT !.mode = "fail"])
     /\ ran' = [ran EXCEPT ![t] = @ \union {<<CurrentName(exec[t][a]), a>>}]
     /\ UNCHANGED <<tables, past, tries, faults, returned, timedOut>>

(* persistCheckpoint; a refused execution ends, neither completed nor      *)
(* failed.  A sleep goes on to compare its wake time.                      *)
PersistRegardless(t, a) ==  \* a mistake: a refused value is handed to the handler all the same
  LET x == exec[t][a]
  IN /\ x.mode = "persist" /\ CallOf(t, a).do = "step"
     /\ IF Refused(t, a) THEN UNCHANGED ckpt ELSE WriteCheckpoint(t, a, CurrentName(x), x.value)
     /\ Returns(t, a, Cache(x, CurrentName(x), x.value), x.value)
     /\ UNCHANGED <<task, event, past, tries, faults, ran, timedOut>>
PersistCheckpoint(t, a) ==
  LET x == exec[t][a]
      n == CurrentName(x)
      y == Cache(x, n, x.value)
  IN /\ x.mode = "persist"
     /\ IF Refused(t, a) THEN Quit(t, a) /\ UNCHANGED <<ckpt, returned>>
        ELSE /\ IF MayWrite(t, a, n) THEN WriteCheckpoint(t, a, n, x.value) ELSE UNCHANGED ckpt
             /\ IF CallOf(t, a).do = "sleep"
                THEN Become(t, a, [y EXCEPT !.mode = "sleep"]) /\ UNCHANGED returned
                ELSE Returns(t, a, y, x.value)
     /\ UNCHANGED <<task, event, past, tries, faults, ran, timedOut>>

-----------------------------------------------------------------------------
(* sleepFor and sleepUntil.                                                *)

BeginSleep(t, a) ==
  /\ AtCall(t, a) /\ CallOf(t, a).do = "sleep"
  /\ LET c == CallOf(t, a)
         n == CheckpointName(exec[t][a], c.name)
         x == Called(exec[t][a], c.name)
         found == LookupCheckpoint(t, exec[t][a], n)
     IN IF "unlessPast" \in c.opts /\ <<t, exec[t][a].pc>> \in past
        THEN Become(t, a, [x EXCEPT !.pc = @ + 1])
        ELSE IF found # NoValue
        THEN Become(t, a, [Cache(x, n, found) EXCEPT !.mode = "sleep", !.value = found])
        ELSE Become(t, a, [x EXCEPT !.mode = "persist",
                                    !.value = Value(Position(x), None, a, FALSE)])
  /\ UNCHANGED <<tables, past, tries, faults, history>>

(* The wake time has passed, or schedule_run suspends the run; it raises   *)
(* if the run is not executing any more, and that error fails the task.    *)
SleepUntil(t, a) ==
  LET x == exec[t][a]
  IN /\ x.mode = "sleep"
     /\ IF <<t, x.pc>> \in past
        THEN Returns(t, a, x, x.value) /\ UNCHANGED task
        ELSE /\ UNCHANGED returned
             /\ IF RunState(t, a) = "running"
                THEN /\ Quit(t, a)
                     /\ SetTask(t, [task[t] EXCEPT !.state = "sleeping", !.due = "later", !.wake = None])
                ELSE Become(t, a, [x EXCEPT !.mode = "fail"]) /\ UNCHANGED task
     /\ UNCHANGED <<ckpt, event, past, tries, faults, ran, timedOut>>

-----------------------------------------------------------------------------
(* awaitEvent.                                                             *)

NullPayload == Value(0, None, 0, TRUE)

(* What the handler does about a TimeoutError.                             *)
CatchTimeout(t, a, x) ==
  LET opts == CallOf(t, a).opts
  IN Become(t, a, IF "continues" \in opts THEN [x EXCEPT !.pc = @ + 1, !.wake = None]
                  ELSE IF "returns" \in opts THEN [x EXCEPT !.pc = Len(Calls(t)) + 1, !.wake = None]
                  ELSE [x EXCEPT !.mode = "fail", !.wake = None])

BeginAwait(t, a) ==
  /\ AtCall(t, a) /\ CallOf(t, a).do = "await"
  /\ LET c == CallOf(t, a)
         n == CheckpointName(exec[t][a], c.name)
         x == Called(exec[t][a], c.name)
         found == LookupCheckpoint(t, exec[t][a], n)
     IN IF found # NoValue
        THEN Returns(t, a, Cache(x, n, found), found) /\ UNCHANGED timedOut
        ELSE IF x.wake = c.arg
        THEN /\ CatchTimeout(t, a, x) /\ UNCHANGED returned
             /\ timedOut' = timedOut \union {<<t, a, n>>}
        ELSE Become(t, a, [x EXCEPT !.mode = "await"]) /\ UNCHANGED <<returned, timedOut>>
  /\ UNCHANGED <<tables, past, tries, faults, ran>>

(* await_event, and what the SDK makes of its answer: the payload of a     *)
(* checkpoint or of the event, NULL if the run was resumed by a timeout of *)
(* this event, or suspension.                                              *)
Suspended(t, n) ==
  LET c == CallOf(t, task[t].attempt)
  IN [task[t] EXCEPT !.state = "sleeping", !.wait = n, !.wake = c.arg,
                     !.due = IF "timeout" \in c.opts THEN "later" ELSE "never"]

Await(t, a) ==
  LET x == exec[t][a]
      c == CallOf(t, a)
      n == CurrentName(x)
  IN /\ x.mode = "await"
     /\ IF task[t].state = "cancelled" THEN Quit(t, a) /\ UNCHANGED <<task, ckpt, returned>>
        ELSE IF RunState(t, a) # "running"
        THEN Become(t, a, [x EXCEPT !.mode = "fail"]) /\ UNCHANGED <<task, ckpt, returned>>
        ELSE IF event[c.arg] # NoValue
        THEN /\ WriteCheckpoint(t, a, n, event[c.arg]) /\ UNCHANGED task
             /\ Returns(t, a, Cache(x, n, event[c.arg]), event[c.arg])
        ELSE IF task[t].wake = c.arg
        THEN /\ SetTask(t, [task[t] EXCEPT !.wake = None]) /\ UNCHANGED ckpt
             /\ Returns(t, a, Cache(x, n, NullPayload), NullPayload)
        ELSE Quit(t, a) /\ SetTask(t, Suspended(t, n)) /\ UNCHANGED <<ckpt, returned>>
     /\ UNCHANGED <<event, past, tries, faults, ran, timedOut>>

-----------------------------------------------------------------------------
(* The end of an execution.                                                *)

(* Code between two calls that throws while an earlier value says so.      *)
ThrowIf(t, a) ==
  LET x == exec[t][a]
  IN /\ AtCall(t, a) /\ CallOf(t, a).do = "throwIf"
     /\ Become(t, a, IF x.value.flag /\ tries[t] <= Outage
                     THEN [x EXCEPT !.mode = "fail"]
                     ELSE [Called(x, CallOf(t, a).name) EXCEPT !.pc = @ + 1])
     /\ UNCHANGED <<tables, past, tries, faults, history>>

(* The handler returned: complete_run, or AB001 or AB002, which end the    *)
(* execution too.                                                          *)
CompleteRun(t, a) ==
  /\ exec[t][a].mode = "run" /\ exec[t][a].pc > Len(Calls(t))
  /\ Quit(t, a)
  /\ IF RunState(t, a) = "running"
     THEN SetTask(t, [task[t] EXCEPT !.state = "completed"]) ELSE UNCHANGED task
  /\ UNCHANGED <<ckpt, event, past, tries, faults, history>>

(* The handler threw: fail_run, or AB001 or AB002, which are dropped.      *)
FailRun(t, a) ==
  /\ exec[t][a].mode = "fail"
  /\ Quit(t, a)
  /\ IF RunState(t, a) = "running" THEN SetTask(t, Failed(task[t])) ELSE UNCHANGED task
  /\ UNCHANGED <<ckpt, event, past, tries, faults, history>>

Execute(t, a) ==
  \/ Create(t, a) \/ BeginStep(t, a) \/ RunBody(t, a) \/ BodyThrows(t, a)
  \/ PersistCheckpoint(t, a) \/ BeginSleep(t, a) \/ SleepUntil(t, a)
  \/ BeginAwait(t, a) \/ Await(t, a) \/ ThrowIf(t, a) \/ CompleteRun(t, a) \/ FailRun(t, a)

-----------------------------------------------------------------------------
(* Clocks, faults and the outside.                                         *)

(* The database's clock reaches available_at, the worker's clock the wake   *)
(* time of a sleep that is about to be called or has been persisted;       *)
(* neither waits for the other.                                            *)
DatabaseClock(t) ==
  /\ task[t].state = "sleeping" /\ task[t].due = "later"
  /\ SetTask(t, [task[t] EXCEPT !.due = "now"])
  /\ UNCHANGED <<ckpt, event, exec, past, tries, faults, history>>

WorkerClock(t) ==
  /\ task[t].kind # None
  /\ \E i \in DOMAIN Calls(t) :
       /\ Calls(t)[i].do = "sleep" /\ <<t, i>> \notin past
       /\ \/ Calls(t)[i].name \in DOMAIN ckpt[t]
          \/ \E a \in Attempt : AtCall(t, a) /\ exec[t][a].pc = i
       /\ past' = past \union {<<t, i>>}
  /\ UNCHANGED <<tables, exec, tries, faults, history>>

(* The process of an execution is gone, or its TaskContext could not be    *)
(* created: the run stays claimed.  A new process remembers no tries.      *)
WorkerLost(t, a) ==
  /\ Live(t, a) /\ faults > 0 /\ faults' = faults - 1
  /\ Quit(t, a) /\ tries' = [tries EXCEPT ![t] = 0]
  /\ UNCHANGED <<tables, past, history>>

(* claim_task fails a run whose lease has expired, whether its execution   *)
(* is gone or has only stalled.                                            *)
LeaseExpires(t) ==
  LET row == task[t]
      stalled == Live(t, row.attempt)
  IN /\ row.state = "running" /\ (stalled => faults > 0)
     /\ SetTask(t, Failed(row))
     /\ faults' = IF stalled THEN faults - 1 ELSE faults
     /\ UNCHANGED <<ckpt, event, exec, past, tries, history>>

CancelKeepsWait(t) ==  \* a mistake: the wait of a cancelled run stays registered
  /\ \E w \in Workflow : w.root = task[1].kind /\ w.cancels
  /\ task[t].state \in {"pending", "running", "sleeping"} /\ faults > 0 /\ faults' = faults - 1
  /\ SetTask(t, [task[t] EXCEPT !.state = "cancelled"])
  /\ UNCHANGED <<ckpt, event, exec, past, tries, history>>
CancelTask(t) ==
  /\ \E w \in Workflow : w.root = task[1].kind /\ w.cancels
  /\ task[t].state \in {"pending", "running", "sleeping"} /\ faults > 0 /\ faults' = faults - 1
  /\ SetTask(t, [task[t] EXCEPT !.state = "cancelled", !.wait = NoName])
  /\ UNCHANGED <<ckpt, event, exec, past, tries, history>>

(* Someone else emits an event that the workflow leaves to the outside.    *)
EmitOutside(e) ==
  /\ \E w \in Workflow : w.root = task[1].kind /\ e \in w.emits
  /\ event[e] = NoValue /\ EmitEvent(e, Value(0, e, 0, FALSE))
  /\ UNCHANGED <<exec, past, tries, faults, history>>

Next ==
  \/ \E t \in TaskId : \/ Claim(t) \/ DatabaseClock(t) \/ WorkerClock(t)
                       \/ LeaseExpires(t) \/ CancelTask(t)
                       \/ \E a \in Attempt : Execute(t, a) \/ WorkerLost(t, a)
  \/ \E e \in Event : EmitOutside(e)

(* Workers poll, handlers run on, clocks advance and leases of lost        *)
(* workers expire; nobody has to stall, to cancel or to emit.              *)
Fairness ==
  \A t \in TaskId :
    /\ WF_vars(Claim(t)) /\ WF_vars(DatabaseClock(t)) /\ WF_vars(WorkerClock(t))
    /\ WF_vars(LeaseExpires(t) /\ faults' = faults)
    /\ \A a \in Attempt : WF_vars(Execute(t, a))

Spec == Init /\ [][Next]_vars /\ Fairness

-----------------------------------------------------------------------------
(* Properties.                                                             *)

CallAt(t, n) == LET calls == Calls(t) IN IF n <= Len(calls) THEN calls[n] ELSE calls[Len(calls)]

(* What a call of a handler returns is what this very call computed, or a  *)
(* payload of the event it waits for, never the result of another call of  *)
(* the same name (getCheckpointName numbers them).                         *)
ReturnedIsOwn ==
  \A t \in TaskId : \A r \in returned[t] :
    IF CallAt(t, r[1]).do = "await" THEN r[2].event = CallAt(t, r[1]).arg ELSE r[2].call = r[1]

(* A handler that is replayed sees, at every call, the value it saw there  *)
(* in every earlier execution and attempt, stalled executions included.    *)
ReplayStable ==
  \A t \in TaskId : \A r, s \in returned[t] : r[1] = s[1] => r[2] = s[2]

(* The function of a step never runs in an attempt later than the one that *)
(* persisted its result.                                                   *)
CompletedNeverRerun ==
  \A t \in TaskId : \A r \in ran[t] :
    r[1] \in DOMAIN ckpt[t] => r[2] <= ckpt[t][r[1]].owner

(* Every task ends, unless it waits without timeout for an event that      *)
(* nobody emits: no suspension, lost worker, clock, timeout or poll for    *)
(* another task leaves one behind.                                         *)
WaitsForever(t) ==
  /\ task[t].wait # NoName /\ event[task[t].wake] = NoValue
  /\ \E i \in DOMAIN Calls(t) : Calls(t)[i].arg = task[t].wake /\ "timeout" \notin Calls(t)[i].opts
Settles ==
  <>[](\A t \in TaskId : task[t].kind # None => task[t].state \in Ended \/ WaitsForever(t))

(* A wait that has timed out is not registered again by its execution's    *)
(* attempt: "timeouts on events do not re-trigger the event awaiting".     *)
TimeoutsNotRetriggered ==
  \A t \in TaskId : task[t].wait # NoName => <<t, task[t].attempt, task[t].wait>> \notin timedOut
=============================================================================
