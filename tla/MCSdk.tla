------------------------------- MODULE MCSdk -------------------------------
(***************************************************************************)
(* Instances of WorkerLoop, Client and AwaitResult for TLC.  The three     *)
(* share no state but the database, which each has its own view of: a      *)
(* behaviour here is one of any of them, chosen by the initial state.      *)
(***************************************************************************)
EXTENDS WorkerLoop, Client, AwaitResult

VARIABLE component
sdkVars == <<workerVars, clientVars, awaitVars, component>>

CONSTANTS c1, c2, q1, q2, n1   \* callers, queues and a task name

(* t1 is known to the worker, t3 is not, t4 is registered for another      *)
(* queue.                                                                  *)
Registry == [t \in Task |-> CASE t = "t1" -> "yes" [] t = "t3" -> "no" [] t = "t4" -> "elsewhere"]
Attempts == [t \in Task |-> IF t = "t4" THEN 2 ELSE 1]

SomeRegistrations ==
  { [queue |-> undefined, defaultMaxAttempts |-> 3, defaultCancellation |-> "policy"],
    [queue |-> q2, defaultMaxAttempts |-> undefined, defaultCancellation |-> undefined],
    [queue |-> undefined, defaultMaxAttempts |-> 0, defaultCancellation |-> undefined] }
SomeCreations ==
  { [storageMode |-> "unpartitioned", policy |-> <<>>],
    [storageMode |-> "unpartitioned", policy |-> [cleanupLimit |-> 0]],
    [storageMode |-> "partitioned", policy |-> [detachMode |-> "empty"]] }
SomeSpawnings ==
  { [queue |-> undefined, maxAttempts |-> undefined, cancellation |-> undefined, idempotencyKey |-> "key"],
    [queue |-> q1, maxAttempts |-> 2, cancellation |-> undefined, idempotencyKey |-> "key"],
    [queue |-> "invalid", maxAttempts |-> 2, cancellation |-> undefined, idempotencyKey |-> undefined] }
NewQueuePolicy == [cleanupLimit |-> 1000, detachMode |-> "none"]

WorkerOff == WorkerInit /\ due = SetToSeq(Task)
ClientOff == ClientInit /\ hook = "none"
AwaitOff == /\ AwaitInit /\ within = FALSE /\ claim = CHOOSE c \in ClaimTimeouts : TRUE
            /\ timeout = Infinity /\ slack = claim

SdkInit ==
  \/ component = "worker" /\ WorkerInit /\ ClientOff /\ AwaitOff
  \/ component = "client" /\ WorkerOff /\ ClientInit /\ AwaitOff
  \/ component = "await" /\ WorkerOff /\ ClientOff /\ AwaitInit
SdkNext ==
  \/ component = "worker" /\ WorkerNext /\ UNCHANGED <<clientVars, awaitVars, component>>
  \/ component = "client" /\ ClientNext /\ UNCHANGED <<workerVars, awaitVars, component>>
  \/ component = "await" /\ AwaitNext /\ UNCHANGED <<workerVars, clientVars, component>>
Spec == SdkInit /\ [][SdkNext]_sdkVars /\ WorkerFairness

(* The variables of the three have their types; of the worker, also: due   *)
(* lists the tasks that are pending, and no task exceeds its attempts.     *)
SdkTypeOK == WorkerTypeOK /\ ClientTypeOK /\ AwaitTypeOK
=============================================================================
