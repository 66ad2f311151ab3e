---------------------------- MODULE CleanupRace ----------------------------
(***************************************************************************)
(* cleanup_tasks, statement by statement, beside the two calls that meet   *)
(* it on a task row: retry_task, which locks the row, and spawn_task with  *)
(* an idempotency key, which finds the row by that key.  All tasks here    *)
(* are spawned with one key, so that at most one of them exists at a time. *)
(*                                                                         *)
(* cleanup_tasks is one statement: it chooses tasks and sees their runs in *)
(* a snapshot, waits for the lock of a task row, compares only the task id *)
(* again, and deletes.  In a partitioned queue the key is a row of a table *)
(* of its own, written and deleted with the task.                          *)
(***************************************************************************)
EXTENDS Integers

CONSTANTS
  Caller,       \* clients that spawn a task with the key
  MaxTasks,     \* BOUND: task rows ever inserted
  MaxAttempts,  \* BOUND: attempts of one task
  None          \* SQL NULL, and no transaction

TaskId == 1 .. MaxTasks
Attempt == 1 .. MaxAttempts
Ended == {"completed", "failed"}

ASSUME BoundsAssumption ==
  MaxTasks \in Nat /\ MaxAttempts \in Nat /\ None \notin Caller \union TaskId

VARIABLES
  partitioned, \* storage_mode of the queue, which never changes
  task,       \* task id -> state of its row, absent before and deleted after
  runs,       \* task id -> attempts that have a run row
  inserting,  \* callers that have inserted the key and not committed
  retrying,   \* the task row that a retry_task has locked
  chosen,     \* the task in the snapshot of a cleanup_tasks, and its runs then
  at,         \* where each caller stands in spawn_task
  answer      \* what spawn_task returned to the caller
spawnVars == <<inserting, at, answer>>
taskVars == <<task, runs, retrying, chosen, partitioned>>
vars == <<partitioned, task, runs, inserting, retrying, chosen, at, answer>>

Existing == {t \in TaskId : task[t] \in {"open"} \union Ended}
Unused == {t \in TaskId : task[t] = "absent"}

(* task_id and created of a result row.                                    *)
Result(t, created) == [task |-> t, created |-> created]
LastAttempt(t) == CHOOSE a \in runs[t] : \A b \in runs[t] : b <= a

Init ==
  /\ partitioned \in BOOLEAN
  /\ task = [t \in TaskId |-> "absent"]
  /\ runs = [t \in TaskId |-> {}]
  /\ inserting = {} /\ retrying = None /\ chosen = None
  /\ at = [c \in Caller |-> "idle"]
  /\ answer = [c \in Caller |-> None]

-----------------------------------------------------------------------------
(* spawn_task with the key.                                                *)

(* insert ... on conflict do nothing: the key is new, or there is a row.   *)
InsertKey(c) ==
  \/ /\ Existing = {} /\ Unused # {}
     /\ inserting' = inserting \union {c} /\ at' = [at EXCEPT ![c] = "inserted"]
  \/ /\ Existing # {}
     /\ at' = [at EXCEPT ![c] = "conflict"] /\ UNCHANGED inserting

(* A mistake: look for the key instead of letting the index decide.        *)
SpawnIfUnseen(c) ==
  /\ at[c] = "idle" /\ InsertKey(c)
  /\ UNCHANGED <<taskVars, answer>>

(* The index makes the insertion wait for one that is not committed.       *)
SpawnInsert(c) ==
  /\ at[c] = "idle" /\ inserting = {} /\ InsertKey(c)
  /\ UNCHANGED <<taskVars, answer>>

(* The rows of the task and its first run, committed with the key.         *)
SpawnCommit(c) ==
  /\ c \in inserting
  /\ \E t \in Unused :
       /\ task' = [task EXCEPT ![t] = "open"]
       /\ runs' = [runs EXCEPT ![t] = {1}]
       /\ answer' = [answer EXCEPT ![c] = Result(t, TRUE)]
  /\ inserting' = inserting \ {c} /\ at' = [at EXCEPT ![c] = "done"]
  /\ UNCHANGED <<retrying, chosen, partitioned>>
SpawnAbort(c) ==
  /\ c \in inserting
  /\ inserting' = inserting \ {c} /\ at' = [at EXCEPT ![c] = "idle"]
  /\ UNCHANGED <<taskVars, answer>>

(* select of the row that was in the way.  If it is gone, a partitioned    *)
(* queue raises 40001, and the caller may call again; an unpartitioned one *)
(* returns what it has not found.                                          *)
Found(t) == Result(t, FALSE)
NotFound == Result(None, FALSE)
Answer(c, a) ==
  /\ answer' = [answer EXCEPT ![c] = a]
  /\ at' = [at EXCEPT ![c] = "done"]
(* A mistake: return the empty result instead of raising.                  *)
SpawnLookupUnchecked(c) ==
  /\ at[c] = "conflict"
  /\ \/ \E t \in Existing : Answer(c, Found(t))
     \/ Existing = {} /\ Answer(c, NotFound)
  /\ UNCHANGED <<taskVars, inserting>>

SpawnLookup(c) ==
  /\ at[c] = "conflict"
  /\ \/ \E t \in Existing : Answer(c, Found(t))
     \/ /\ Existing = {} /\ ~partitioned
        /\ Answer(c, NotFound)
     \/ /\ Existing = {} /\ partitioned
        /\ at' = [at EXCEPT ![c] = "idle"] /\ UNCHANGED answer
  /\ UNCHANGED <<taskVars, inserting>>

-----------------------------------------------------------------------------
(* complete_run and fail_run end a task, in one transaction each.          *)
TaskEnds(t) ==
  /\ task[t] = "open"
  /\ \E s \in Ended : task' = [task EXCEPT ![t] = s]
  /\ UNCHANGED <<runs, retrying, chosen, spawnVars, partitioned>>

(* retry_task: select ... for update, then the new run and the task.       *)
RetryLock(t) ==
  /\ retrying = None /\ task[t] = "failed" /\ runs[t] # Attempt
  /\ retrying' = t
  /\ UNCHANGED <<task, runs, chosen, spawnVars, partitioned>>
RetryCommit ==
  /\ retrying # None
  /\ task' = [task EXCEPT ![retrying] = "open"]
  /\ runs' = [runs EXCEPT ![retrying] = @ \union {LastAttempt(retrying) + 1}]
  /\ retrying' = None
  /\ UNCHANGED <<chosen, spawnVars, partitioned>>
RetryAbort ==
  /\ retrying # None /\ retrying' = None
  /\ UNCHANGED <<task, runs, chosen, spawnVars, partitioned>>

(* cleanup_tasks: the snapshot, then the deletion of what is in it.        *)
CleanupChoose(t) ==
  /\ chosen = None /\ task[t] \in Ended
  /\ chosen' = [task |-> t, runs |-> runs[t]]
  /\ UNCHANGED <<task, runs, retrying, spawnVars, partitioned>>
CleanupDelete ==
  /\ chosen # None /\ retrying # chosen.task
  /\ task' = [task EXCEPT ![chosen.task] = "deleted"]
  /\ runs' = [runs EXCEPT ![chosen.task] = @ \ chosen.runs]
  /\ chosen' = None
  /\ UNCHANGED <<retrying, spawnVars, partitioned>>

SpawnTask(c) == SpawnInsert(c) \/ SpawnCommit(c) \/ SpawnAbort(c) \/ SpawnLookup(c)
Next ==
  \/ \E c \in Caller : SpawnTask(c)
  \/ \E t \in TaskId : TaskEnds(t) \/ RetryLock(t) \/ CleanupChoose(t)
  \/ RetryCommit \/ RetryAbort \/ CleanupDelete
Spec == Init /\ [][Next]_vars

-----------------------------------------------------------------------------
(* Properties.                                                             *)

(* The key is one task: callers that overlap with each other, with         *)
(* retry_task and with cleanup_tasks never leave two tasks with it, nor    *)
(* are two of them told that they created the same one.                    *)
KeyIsOneTask ==
  /\ \A t, u \in Existing : t = u
  /\ \A c, d \in Caller :
       c # d /\ answer[c] # None /\ answer[d] # None /\ answer[c].created /\ answer[d].created
         => answer[c].task # answer[d].task

(* spawn_task with a key returns the task of that key, new or existing     *)
(* (sql/absurd.sql, comment of spawn_task), also when cleanup_tasks        *)
(* deletes it between the insertion and the look.                          *)
SpawnFindsTask == \A c \in Caller : answer[c] # None => answer[c].task # None

(* What is left of it: a partitioned queue raises 40001 rather than answer *)
(* with a task that it has not found.                                      *)
SpawnFindsTaskIfPartitioned == partitioned => SpawnFindsTask

(* cleanup_tasks deletes tasks that have ended, with all that belongs to   *)
(* them (sql/absurd.sql, comment of cleanup_tasks).                        *)
NoOrphanRuns == \A t \in TaskId : task[t] = "deleted" => runs[t] = {}
=============================================================================
