------------------------------- MODULE Client -------------------------------
(***************************************************************************)
(* The client of the TypeScript SDK, class Absurd: registering tasks, the  *)
(* catalogue of queues, and the calls on tasks.  Several callers use one   *)
(* client (or clients bound to other connections, which share its          *)
(* registry); a call is suspended in the beforeSpawn hook and at each of   *)
(* its queries.  A query fails before or after it has committed.  An       *)
(* argument that is left out is undefined.                                 *)
(*                                                                         *)
(*   registry   task name -> how it is registered                          *)
(*   hook       what the application's beforeSpawn does                    *)
(*   call       caller -> its call, with its arguments, and how far it is  *)
(*   queues     queue -> its storage and policy, in the database; that of  *)
(*              the client has been created before                         *)
(*   tasks      tasks spawned: as stored, and for the properties what was  *)
(*              asked and registered when the call began                   *)
(*   events     events emitted, by queue                                   *)
(*   calls      BOUND: calls and registrations still to come               *)
(*   failures   BOUND: failing queries still to come                       *)
(***************************************************************************)
EXTENDS Naturals, Sequences, FiniteSets

CONSTANTS
  Caller, Name, Queue,
  Home,                  \* queueName of the client
  DefaultMaxAttempts,    \* defaultMaxAttempts of the client
  Registrations,         \* options of registerTask
  Creations,             \* options of createQueue
  Spawnings,             \* options of spawn
  DefaultPolicy,         \* policy of a new queue
  Hooks,                 \* what beforeSpawn may do
  MaxCalls, MaxFailures,
  undefined

VARIABLES registry, hook, call, queues, tasks, events, calls, failures
clientVars == <<registry, hook, call, queues, tasks, events, calls, failures>>

Registration == [queue : Queue, defaultMaxAttempts : Nat \cup {undefined},
                 defaultCancellation : {undefined, "policy"}]
SpawnOptions == [queue : Queue \cup {undefined, "invalid"}, maxAttempts : Nat \cup {undefined},
                 cancellation : {undefined, "policy"}, idempotencyKey : {undefined, "key"}]
QueuePolicy == [cleanupLimit : Nat \ {0}, detachMode : {"none", "empty"}]
StoredQueue == [storageMode : {"unpartitioned", "partitioned"}, policy : QueuePolicy]
TaskState == {"pending", "failed", "cancelled"}

Free == {"resolved", "rejected"}
Or(x, y) == IF x = undefined THEN y ELSE x

(* What is known of the constants: a client has a queue and a limit of     *)
(* attempts; the fields of a policy are optional.                          *)
ASSUME ClientAssumption ==
  /\ undefined \notin Nat \cup StoredQueue
  /\ Home \in Queue /\ DefaultMaxAttempts \in Nat \ {0} /\ DefaultPolicy \in QueuePolicy
  /\ \A o \in Registrations :
       o \in [queue : Queue \cup {undefined}, defaultMaxAttempts : Nat \cup {undefined},
              defaultCancellation : {undefined, "policy"}]
  /\ \A o \in Creations :
       /\ o.storageMode \in {"unpartitioned", "partitioned"}
       /\ DOMAIN o.policy \subseteq {"cleanupLimit", "detachMode"}
       /\ "cleanupLimit" \in DOMAIN o.policy => o.policy.cleanupLimit \in Nat
       /\ "detachMode" \in DOMAIN o.policy => o.policy.detachMode \in {"none", "empty"}
  /\ Spawnings \subseteq SpawnOptions
  /\ Hooks \subseteq {"none", "headers", "redirects", "replaces"}
  /\ MaxCalls \in Nat /\ MaxFailures \in Nat

ClientTypeOK ==
  /\ registry \in [Name -> Registration \cup {undefined}] /\ hook \in Hooks
  /\ \A c \in Caller : call[c].at \in Free \cup {"hook", "query", "policy"}
  /\ queues \in [Queue -> StoredQueue \cup {undefined}]
  /\ \A i \in 1 .. Len(tasks) :
       /\ tasks[i].name \in Name /\ tasks[i].queue \in Queue /\ tasks[i].state \in TaskState \cup {"dropped"}
       /\ tasks[i].maxAttempts \in Nat \cup {undefined}
  /\ calls \in 0 .. MaxCalls /\ failures \in 0 .. MaxFailures

ClientInit ==
  /\ registry = [n \in Name |-> undefined] /\ hook \in Hooks
  /\ call = [c \in Caller |-> [op |-> "none", at |-> "resolved"]]
  /\ queues = [q \in Queue |-> IF q = Home THEN [storageMode |-> "unpartitioned", policy |-> DefaultPolicy]
                               ELSE undefined]
  /\ tasks = <<>> /\ events = {}
  /\ calls = MaxCalls /\ failures = MaxFailures

(* validateQueueName.                                                      *)
ValidQueueName(q) == q \in Queue

Begins(c, record) ==
  /\ call[c].at \in Free /\ calls > 0 /\ calls' = calls - 1
  /\ call' = [call EXCEPT ![c] = record]
Goes(c, at) == call' = [call EXCEPT ![c].at = at]

-----------------------------------------------------------------------------
(* The registry.                                                           *)

RegisterTask(n, o) ==
  /\ calls > 0 /\ calls' = calls - 1
  /\ o.defaultMaxAttempts # 0 /\ ValidQueueName(Or(o.queue, Home))
  /\ registry' = [registry EXCEPT ![n] = [o EXCEPT !.queue = Or(@, Home)]]
  /\ UNCHANGED <<hook, call, queues, tasks, events, failures>>

-----------------------------------------------------------------------------
(* Queues.                                                                 *)

(* createQueue: two statements, and no transaction around them.  A policy  *)
(* without fields is not sent.                                             *)
BeginCreateQueue(c, q, o) ==
  /\ ValidQueueName(q)
  /\ Begins(c, [op |-> "createQueue", at |-> "query", queue |-> q, options |-> o, dropped |-> FALSE])
  /\ UNCHANGED <<registry, hook, queues, tasks, events, failures>>

SendsPolicyOnce(c) ==  \* a mistake: the policy of a queue that exists is taken as set
  DOMAIN call[c].options.policy # {} /\ queues[call[c].queue] = undefined
SendsPolicy(c) == DOMAIN call[c].options.policy # {}
CreateQueue(c) ==
  LET q == call[c].queue
      mode == call[c].options.storageMode
  IN /\ call[c].op = "createQueue" /\ call[c].at = "query"
     /\ queues' = IF queues[q] = undefined
                  THEN [queues EXCEPT ![q] = [storageMode |-> mode, policy |-> DefaultPolicy]]
                  ELSE queues
     /\ Goes(c, IF queues'[q].storageMode # mode THEN "rejected"
                ELSE IF SendsPolicy(c) THEN "policy" ELSE "resolved")
     /\ UNCHANGED <<registry, hook, tasks, events, calls, failures>>

BeginSetQueuePolicy(c, q, o) ==
  /\ ValidQueueName(q) /\ DOMAIN o.policy # {}
  /\ Begins(c, [op |-> "setQueuePolicy", at |-> "policy", queue |-> q, options |-> o])
  /\ UNCHANGED <<registry, hook, queues, tasks, events, failures>>

(* set_queue_policy: the fields given, or an error.                        *)
Updated(p, given) ==
  [f \in DOMAIN p |-> IF f \in DOMAIN given THEN given[f] ELSE p[f]]
ValidPolicy(p) == p.cleanupLimit >= 1
SetQueuePolicy(c) ==
  LET q == call[c].queue
  IN /\ call[c].at = "policy" /\ queues[q] # undefined
     /\ LET p == Updated(queues[q].policy, call[c].options.policy)
        IN IF ValidPolicy(p)
           THEN Goes(c, "resolved") /\ queues' = [queues EXCEPT ![q].policy = p]
           ELSE Goes(c, "rejected") /\ UNCHANGED queues
     /\ UNCHANGED <<registry, hook, tasks, events, calls, failures>>

(* dropQueue, of one statement.                                            *)
DropQueue(c, q) ==
  /\ ValidQueueName(q) /\ call[c].at \in Free /\ calls > 0 /\ calls' = calls - 1
  /\ queues' = [queues EXCEPT ![q] = undefined]
  /\ tasks' = [i \in DOMAIN tasks |-> IF tasks[i].queue = q THEN [tasks[i] EXCEPT !.state = "dropped"] ELSE tasks[i]]
  /\ events' = {e \in events : e[1] # q}
  /\ call' = [d \in Caller |-> IF d # c /\ call[d].op = "createQueue" /\ call[d].queue = q
                               THEN [call[d] EXCEPT !.dropped = TRUE] ELSE call[d]]
  /\ UNCHANGED <<registry, hook, failures>>

-----------------------------------------------------------------------------
(* Tasks.                                                                  *)

(* The queue of a registered task is that of its registration.             *)
MayRequest(r, queue) ==
  IF r = undefined THEN ValidQueueName(queue) ELSE queue \in {undefined, r.queue}

EffectiveOptions(r, o) ==
  [o EXCEPT !.maxAttempts = Or(@, Or(IF r = undefined THEN undefined ELSE r.defaultMaxAttempts, DefaultMaxAttempts)),
            !.cancellation = Or(@, IF r = undefined THEN undefined ELSE r.defaultCancellation)]

BeginSpawn(c, n, o) ==
  LET r == registry[n]
  IN /\ MayRequest(r, o.queue)
     /\ Begins(c, [op |-> "spawn", at |-> IF hook = "none" THEN "query" ELSE "hook",
                   name |-> n, queue |-> IF r = undefined THEN o.queue ELSE r.queue,
                   options |-> EffectiveOptions(r, o), asked |-> o, was |-> r])
     /\ UNCHANGED <<registry, hook, queues, tasks, events, failures>>

(* beforeSpawn returns options of its own: the same with headers, with     *)
(* another queue, or nothing but headers.                                  *)
BeforeSpawn(c) ==
  /\ call[c].at = "hook"
  /\ call' = [call EXCEPT ![c].at = "query", ![c].options =
       CASE hook = "headers" -> @
         [] hook = "redirects" -> [@ EXCEPT !.queue = Home]
         [] hook = "replaces" -> [f \in DOMAIN @ |-> undefined]]
  /\ UNCHANGED <<registry, hook, queues, tasks, events, calls, failures>>

(* normalizeSpawnOptions: the options that are defined, but no queue.      *)
KeylessOptions(o) ==  \* a mistake: the key is not among them
  [maxAttempts |-> o.maxAttempts, cancellation |-> o.cancellation, idempotencyKey |-> undefined]
NormalizedOptions(o) ==
  [maxAttempts |-> o.maxAttempts, cancellation |-> o.cancellation, idempotencyKey |-> o.idempotencyKey]

(* The queue that is asked for is the one found when the call began.       *)
QueueOfOptions(k) == Or(k.options.queue, k.queue)  \* a mistake: that of the hook's options
TargetQueue(k) == k.queue

(* spawn_task; a key that is known gives the task it belongs to.           *)
Stored(k) ==
  [name |-> k.name, queue |-> TargetQueue(k), state |-> "pending", asked |-> k.asked, was |-> k.was,
   maxAttempts |-> NormalizedOptions(k.options).maxAttempts,
   cancellation |-> NormalizedOptions(k.options).cancellation,
   key |-> NormalizedOptions(k.options).idempotencyKey]
Keyed(q, key) ==
  {i \in DOMAIN tasks : tasks[i].queue = q /\ tasks[i].key = key /\ tasks[i].state # "dropped"}
Spawn(c) ==
  LET task == Stored(call[c])
  IN /\ call[c].op = "spawn" /\ call[c].at = "query" /\ queues[task.queue] # undefined
     /\ tasks' = IF task.key # undefined /\ Keyed(task.queue, task.key) # {}
                 THEN tasks ELSE Append(tasks, task)
     /\ Goes(c, "resolved")
     /\ UNCHANGED <<registry, hook, queues, events, calls, failures>>

(* cancelTask, retryTask and emitEvent are one statement each.  A retry    *)
(* raises the limit, or spawns the task again without its key.             *)
Statement(c) ==
  /\ call[c].at \in Free /\ calls > 0 /\ calls' = calls - 1
  /\ UNCHANGED <<registry, hook, call, queues, failures>>
CancelTask(c, i) ==
  /\ Statement(c) /\ tasks[i].state = "pending"
  /\ tasks' = [tasks EXCEPT ![i].state = "cancelled"] /\ UNCHANGED events
RetryTask(c, i, spawnNewTask) ==
  /\ Statement(c) /\ tasks[i].state = "failed" /\ UNCHANGED events
  /\ tasks' = IF spawnNewTask THEN Append(tasks, [tasks[i] EXCEPT !.state = "pending", !.key = undefined,
                                                                !.asked.idempotencyKey = undefined])
              ELSE [tasks EXCEPT ![i].state = "pending", ![i].maxAttempts = @ + 1]
EmitEvent(c, q) ==
  /\ Statement(c) /\ ValidQueueName(q) /\ queues[q] # undefined
  /\ events' = events \cup {<<q, "event">>} /\ UNCHANGED tasks

(* A worker somewhere fails a task for good, if its attempts are limited.  *)
TaskFails(i) ==
  /\ tasks[i].state = "pending" /\ tasks[i].maxAttempts # undefined
  /\ tasks' = [tasks EXCEPT ![i].state = "failed"]
  /\ UNCHANGED <<registry, hook, call, queues, events, calls, failures>>

-----------------------------------------------------------------------------
(* Failures: a query is not executed, or its queue is not there, or its    *)
(* answer is lost after the commit.                                        *)
QueryFails(c) ==
  /\ call[c].at \in {"query", "policy"} /\ Goes(c, "rejected")
  /\ \/ failures > 0 /\ failures' = failures - 1
     \/ /\ <<call[c].op, call[c].at>> # <<"createQueue", "query">>
        /\ queues[call[c].queue] = undefined /\ UNCHANGED failures
  /\ UNCHANGED <<registry, hook, queues, tasks, events, calls>>
AnswerLost(c) ==
  /\ call[c].op # "none" /\ call[c].at = "resolved" /\ Goes(c, "rejected")
  /\ failures > 0 /\ failures' = failures - 1
  /\ UNCHANGED <<registry, hook, queues, tasks, events, calls>>

ClientNext ==
  \/ \E n \in Name, o \in Registrations : RegisterTask(n, o)
  \/ \E c \in Caller :
       \/ CreateQueue(c) \/ SetQueuePolicy(c) \/ BeforeSpawn(c) \/ Spawn(c)
       \/ QueryFails(c) \/ AnswerLost(c)
       \/ \E q \in Queue : DropQueue(c, q) \/ EmitEvent(c, q)
       \/ \E q \in Queue, o \in Creations : BeginCreateQueue(c, q, o) \/ BeginSetQueuePolicy(c, q, o)
       \/ \E n \in Name, o \in Spawnings : BeginSpawn(c, n, o)
       \/ \E i \in DOMAIN tasks : CancelTask(c, i) \/ \E new \in BOOLEAN : RetryTask(c, i, new)
  \/ \E i \in DOMAIN tasks : TaskFails(i)

ClientSpec == ClientInit /\ [][ClientNext]_clientVars

-----------------------------------------------------------------------------
(* Properties.                                                             *)

(* A task goes to the queue its name was registered for when spawn was     *)
(* called, else to the one asked for, whatever beforeSpawn returns and     *)
(* whoever registers the name meanwhile; and its attempts are limited,     *)
(* unless beforeSpawn dropped the limit.                                   *)
SpawnedAsRegistered ==
  \A i \in DOMAIN tasks :
    /\ tasks[i].queue = IF tasks[i].was = undefined THEN tasks[i].asked.queue ELSE tasks[i].was.queue
    /\ tasks[i].maxAttempts = undefined => hook = "replaces"

(* spawn may be called again with its key after an error, whether the      *)
(* first call had reached the database or not: there is one task.          *)
KeyedOnce ==
  \A i, j \in DOMAIN tasks :
    /\ tasks[i].queue = tasks[j].queue /\ "dropped" \notin {tasks[i].state, tasks[j].state}
    /\ hook # "replaces" /\ undefined # tasks[i].asked.idempotencyKey
    /\ tasks[i].asked.idempotencyKey = tasks[j].asked.idempotencyKey
    => i = j

(* When createQueue resolves, the queue is there as asked, though an       *)
(* earlier call failed between the two statements and left it half made;   *)
(* only a dropQueue in between may have put a queue of another storage in  *)
(* its place.                                                              *)
CreatedAsAsked ==
  [][\A c \in Caller :
       call[c].op = "createQueue" /\ call[c].at \notin Free /\ call'[c].at = "resolved" =>
         LET made == queues'[call[c].queue]
             asked == call[c].options
         IN /\ made # undefined
            /\ \A f \in DOMAIN asked.policy : made.policy[f] = asked.policy[f]
            /\ made.storageMode = asked.storageMode \/ call[c].dropped]_clientVars
=============================================================================
