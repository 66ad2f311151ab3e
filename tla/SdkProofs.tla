------------------------------ MODULE SdkProofs ------------------------------
(***************************************************************************)
(* The worker loop, the client and the poll of awaitTaskResult, for any    *)
(* tasks, queues, callers, times and bounds.                               *)
(***************************************************************************)
EXTENDS MCSdk, FiniteSetTheorems, SequenceTheorems, TLAPS

-----------------------------------------------------------------------------
(* The worker loop.  The slots are counted when a claim is sent (Slots); a *)
(* run changes hands from the claim's answer to the batch to its           *)
(* execution, and is in one of them or known as lost for as long as it     *)
(* executes in the database (Held).                                        *)

Rows == [state : {"pending", "running", "sleeping", "ended"}, attempt : Nat,
         lease : {"none", "live", "expired"}]
Tables == row \in [Task -> Rows] /\ due \in Seq(Task)
Slots ==
  /\ IsFiniteSet(executing) /\ IsFiniteSet(inflight)
  /\ loop \notin {"answering", "batchAnswer"} => inflight = {}
  /\ loop = "claiming" => ask \in Nat /\ Cardinality(executing) + ask <= Concurrency
  /\ ~Batching => Cardinality(executing) + Cardinality(inflight) <= Concurrency
Held ==
  /\ NoClaimDropped
  /\ ~up => loop = "exited" /\ \A r \in Run : Executes(r) => r \in lost
  /\ loop # "batchNext" => backlog = {}
Closed == closing = "resolved" => loop = "exited" /\ executing = {}

WorkerInv == Tables /\ Slots /\ Held /\ Closed

(* A run is a task and a number.                                           *)
LEMMA RunIsPair == ASSUME NEW r \in Run PROVE r = <<r[1], r[2]>> /\ r[1] \in Task
BY DEF Run

(* The tasks in S in some order are a sequence.                            *)
LEMMA OrderIsSequence ==
  ASSUME NEW S \in SUBSET Task, NEW s \in SetToSeqs(S)
  PROVE  s \in Seq(Task)
<1>1. IsFiniteSet(S)
  BY WorkerAssumption, FS_Subset
<1>2. Cardinality(S) \in Nat
  BY <1>1, FS_CardinalityType
<1>3. s \in [1 .. Cardinality(S) -> S]
  BY DEF SetToSeqs
<1> QED BY <1>2, <1>3

(* A failed row is a row of a run that waits or has ended.                 *)
LEMMA FailedRowType ==
  ASSUME Tables, NEW t \in Task
  PROVE  FailedRow(t) \in Rows /\ FailedRow(t).state # "running"
BY DEF Tables, Rows, FailedRow

(* A claim returns no more runs than it asked for, and what executes after *)
(* it executed before or is returned.                                      *)
LEMMA ClaimBounded ==
  ASSUME Tables, NEW n \in Nat, ClaimTask(n)
  PROVE  /\ Tables'
         /\ IsFiniteSet(inflight') /\ Cardinality(inflight') <= n
         /\ \A r \in Run : Executes(r)' => Executes(r) \/ r \in inflight'
<1>1. PICK swept \in SUBSET {t \in Task : row[t].lease = "expired"} :
        LET left == [t \in Task |-> IF t \in swept THEN FailedRow(t) ELSE row[t]]
        IN \E retried \in SetToSeqs({t \in swept : left[t].state = "pending"}) :
             LET queue == due \o retried
                 claimed == {queue[i] : i \in 1 .. Lower(n, Len(queue))}
             IN /\ row' = [t \in Task |-> IF t \in claimed
                                          THEN [left[t] EXCEPT !.state = "running", !.lease = "live"]
                                          ELSE left[t]]
                /\ due' = SubSeq(queue, Lower(n, Len(queue)) + 1, Len(queue))
                /\ inflight' = {<<t, left[t].attempt>> : t \in claimed}
  BY DEF ClaimTask, Takes
<1> DEFINE left == [t \in Task |-> IF t \in swept THEN FailedRow(t) ELSE row[t]]
<1>2. PICK retried \in SetToSeqs({t \in swept : left[t].state = "pending"}) :
        LET queue == due \o retried
            claimed == {queue[i] : i \in 1 .. Lower(n, Len(queue))}
        IN /\ row' = [t \in Task |-> IF t \in claimed
                                     THEN [left[t] EXCEPT !.state = "running", !.lease = "live"]
                                     ELSE left[t]]
           /\ due' = SubSeq(queue, Lower(n, Len(queue)) + 1, Len(queue))
           /\ inflight' = {<<t, left[t].attempt>> : t \in claimed}
  BY ZenonT(60), <1>1
<1> DEFINE queue == due \o retried
           k == Lower(n, Len(queue))
           claimed == {queue[i] : i \in 1 .. k}
<1>3. /\ row' = [t \in Task |-> IF t \in claimed
                                THEN [left[t] EXCEPT !.state = "running", !.lease = "live"]
                                ELSE left[t]]
      /\ due' = SubSeq(queue, k + 1, Len(queue))
      /\ inflight' = {<<t, left[t].attempt>> : t \in claimed}
  BY <1>2
<1>4. left \in [Task -> Rows]
  BY FailedRowType DEF Tables
<1>5. queue \in Seq(Task)
  <2>1. {t \in swept : left[t].state = "pending"} \in SUBSET Task
    OBVIOUS
  <2>2. retried \in Seq(Task)
    BY <2>1, OrderIsSequence
  <2> QED BY <2>2 DEF Tables
<1>6. k \in 0 .. Len(queue) /\ k <= n
  BY <1>5 DEF Lower
<1>7. claimed \subseteq Task
  BY SMTT(60), <1>5, <1>6
<1>8. Tables'
  <2>1. row' \in [Task -> Rows]
    <3>1. ASSUME NEW x \in Rows PROVE [x EXCEPT !.state = "running", !.lease = "live"] \in Rows
      BY DEF Rows
    <3> QED BY <1>3, <1>4, <3>1
  <2>2. due' \in Seq(Task)
    <3>1. Len(queue) \in Int /\ k + 1 \in Int /\ \A i \in k + 1 .. Len(queue) : queue[i] \in Task
      BY SMTT(60), <1>5, <1>6
    <3> HIDE DEF queue, k
    <3> QED BY <1>3, <3>1, SubSeqProperties
  <2> QED BY <2>1, <2>2 DEF Tables
<1>9. IsFiniteSet(inflight') /\ Cardinality(inflight') <= n
  <2> DEFINE f == [i \in 1 .. k |-> <<queue[i], left[queue[i]].attempt>>]
  <2>1. inflight' = {f[i] : i \in 1 .. k}
    BY ZenonT(60), <1>3
  <2>2. f \in Surjection(1 .. k, inflight')
    BY <2>1 DEF Surjection
  <2>3. ExistsSurjection(1 .. k, inflight') /\ k \in Nat
    BY <2>2, <1>6 DEF ExistsSurjection
  <2>4. IsFiniteSet(inflight')
    BY <2>3, FS_NatSurjection
  <2>5. Cardinality(inflight') <= k
    BY <2>3, FS_SurjCardinalityBound
  <2>6. Cardinality(inflight') \in Nat
    BY <2>4, FS_CardinalityType
  <2> QED BY <2>4, <2>5, <2>6, <1>6
<1>10. ASSUME NEW r \in Run, Executes(r)' PROVE Executes(r) \/ r \in inflight'
  <2> DEFINE t == r[1]
  <2>1. r = <<t, r[2]>> /\ t \in Task
    BY RunIsPair
  <2>2. row'[t].state = "running" /\ row'[t].attempt = r[2]
    BY <1>10 DEF Executes
  <2>3. CASE t \in claimed
    <3>1. row'[t].attempt = left[t].attempt
      BY ZenonT(60), <1>3, <1>4, <2>1, <2>3 DEF Rows
    <3> QED BY ZenonT(60), <1>3, <2>1, <2>2, <2>3, <3>1
  <2>4. CASE t \notin claimed
    <3>1. row'[t] = left[t]
      BY <1>3, <2>1, <2>4
    <3>2. left[t] = row[t]
      BY <2>1, <2>2, <3>1, FailedRowType
    <3> QED BY <2>2, <3>1, <3>2 DEF Executes
  <2> QED BY <2>3, <2>4
<1> QED BY SMTT(60), <1>8, <1>9, <1>10

-----------------------------------------------------------------------------
(* How the calls of an execution change the tables.                        *)

(* A run that leaves its worker executes no more; the others go on.        *)
LEMMA LeaveKeeps ==
  ASSUME Tables, NEW r \in Run, Executes(r), NEW state \in {"sleeping", "ended"}, Leave(r[1], state)
  PROVE  Tables' /\ \A q \in Run : Executes(q)' => Executes(q) /\ q # r
<1> USE RunIsPair
<1>1. Tables'
  BY SMTT(60) DEF Tables, Rows, Leave
<1>2. \A t \in Task : row'[t].state = "running" => t # r[1] /\ row'[t] = row[t]
  BY DEF Tables, Rows, Leave
<1> QED BY <1>1, <1>2 DEF Executes

LEMMA FailKeeps ==
  ASSUME Tables, NEW r \in Run, Executes(r), FailRun(r[1])
  PROVE  Tables' /\ \A q \in Run : Executes(q)' => Executes(q) /\ q # r
<1>0. r[1] \in Task
  BY RunIsPair
<1>1. FailedRow(r[1]) \in Rows /\ FailedRow(r[1]).state # "running"
  BY <1>0, FailedRowType
<1>2. Tables'
  BY <1>0, <1>1 DEF Tables, FailRun
<1>3. \A t \in Task : row'[t].state = "running" => t # r[1] /\ row'[t] = row[t]
  BY <1>0, <1>1 DEF Tables, FailRun
<1> QED BY <1>2, <1>3, RunIsPair DEF Executes

(* An extension, or the end of a lease, leaves the runs that execute.      *)
LEMMA LeaseChanges ==
  ASSUME Tables, NEW t \in Task, NEW l \in {"live", "expired"},
         row' = [row EXCEPT ![t].lease = l], due' = due
  PROVE  Tables' /\ \A q \in Run : Executes(q)' => Executes(q)
<1>1. Tables'
  BY ZenonT(60) DEF Tables, Rows
<1>2. \A u \in Task : row'[u].state = row[u].state /\ row'[u].attempt = row[u].attempt
  BY DEF Tables, Rows
<1> QED BY <1>1, <1>2, RunIsPair DEF Executes

LEMMA SlotFreed ==
  ASSUME Slots, NEW r, executing' = executing \ {r}
  PROVE  IsFiniteSet(executing') /\ Cardinality(executing') <= Cardinality(executing)
<1>1. IsFiniteSet(executing) /\ Cardinality(executing) \in Nat
  BY FS_CardinalityType DEF Slots
<1>2. /\ IsFiniteSet(executing \ {r})
      /\ Cardinality(executing \ {r}) = IF r \in executing THEN Cardinality(executing) - 1
                                        ELSE Cardinality(executing)
  BY <1>1, FS_RemoveElement
<1> QED BY <1>1, <1>2

(* The end of an execution frees its slot and nothing else.                *)
LEMMA FinishKeeps ==
  ASSUME Slots, Closed, NEW r \in Run, Finish(r), UNCHANGED <<loop, ask, inflight, closing>>
  PROVE  Slots' /\ Closed'
<1>1. /\ IsFiniteSet(executing') /\ Cardinality(executing') <= Cardinality(executing)
  BY SlotFreed DEF Finish
<1>2. Cardinality(executing') \in Nat /\ Cardinality(executing) \in Nat /\ Cardinality(inflight) \in Nat
  BY <1>1, FS_CardinalityType DEF Slots
<1>3. Slots'
  BY <1>1, <1>2, WorkerAssumption DEF Slots, Batching
<1>4. Closed'
  BY DEF Closed, Finish
<1> QED BY <1>3, <1>4

-----------------------------------------------------------------------------

LEMMA WorkerInitInv == WorkerInit => WorkerInv
<1> SUFFICES ASSUME WorkerInit PROVE WorkerInv
  OBVIOUS
<1>1. Tables
  BY OrderIsSequence DEF WorkerInit, Tables, Rows
<1>2. Slots
  BY FS_EmptySet, WorkerAssumption DEF WorkerInit, Slots, Batching
<1>3. \A r \in Run : ~Executes(r)
  BY RunIsPair DEF WorkerInit, Executes
<1>4. Held /\ Closed
  BY <1>3 DEF WorkerInit, Held, NoClaimDropped, Closed
<1> QED BY <1>1, <1>2, <1>4 DEF WorkerInv

(* The loop: what it claims fits, and what it is handed it executes.       *)
LEMMA LoopInv ==
  ASSUME WorkerInv, Loop \/ ClaimFails \/ StartWorker \/ WorkBatch \/ SleepTimer \/ Close
  PROVE  WorkerInv'
<1> USE WorkerAssumption DEF WorkerInv
<1>0. /\ Cardinality(executing) \in Nat /\ Cardinality(inflight) \in Nat
      /\ Concurrency \in Nat /\ BatchSize \in Nat \ {0}
  BY FS_CardinalityType DEF Slots
<1>1. CASE LoopTop
  <2>1. Tables' /\ Held' /\ Closed'
    BY <1>1 DEF LoopTop, WaitForAvailability, running, Tables, Held, NoClaimDropped, Executes, Closed
  <2>2. Slots'
    BY <1>0, <1>1 DEF LoopTop, WaitForAvailability, running, Slots, Batching, ToClaim, Lower
  <2> QED BY <2>1, <2>2
<1>2. CASE ClaimCommits
  <2>1. PICK n \in Nat : /\ ClaimTask(n)
                         /\ \/ loop = "claiming" /\ n = ask /\ loop' = "answering"
                            \/ loop = "batch" /\ loop' = "batchAnswer"
    BY <1>0, <1>2 DEF ClaimCommits, Slots
  <2>2. /\ Tables' /\ IsFiniteSet(inflight') /\ Cardinality(inflight') <= n
        /\ \A r \in Run : Executes(r)' => Executes(r) \/ r \in inflight'
    BY <2>1, ClaimBounded
  <2>3. Cardinality(inflight') \in Nat
    BY <2>2, FS_CardinalityType
  <2>4. Slots'
    BY <1>0, <1>2, <2>1, <2>2, <2>3 DEF ClaimCommits, Slots, Batching
  <2>5. Held'
    BY <1>2, <2>1, <2>2 DEF ClaimCommits, Held, NoClaimDropped, Slots
  <2>6. Closed'
    BY <1>2, <2>1 DEF ClaimCommits, Closed
  <2> QED BY <2>2, <2>4, <2>5, <2>6
<1>3. CASE ClaimAnswered
  <2>1. /\ loop = "answering" /\ inflight' = {} /\ executing' = executing \union inflight
        /\ loop' \in {"waiting", "top"} /\ UNCHANGED <<row, due, up, ask, backlog, closing, lost>>
    BY <1>3 DEF ClaimAnswered, BeginAll, Begin, WaitForAvailability
  <2>2. /\ IsFiniteSet(executing')
        /\ Cardinality(executing') <= Cardinality(executing) + Cardinality(inflight)
    <3>1. /\ IsFiniteSet(executing \union inflight)
          /\ Cardinality(executing \union inflight)
               = Cardinality(executing) + Cardinality(inflight) - Cardinality(executing \cap inflight)
          /\ Cardinality(executing \cap inflight) \in Nat
      BY FS_Union, FS_Intersection, FS_CardinalityType DEF Slots
    <3> QED BY <1>0, <2>1, <3>1
  <2>3. Cardinality(executing') \in Nat
    BY <2>2, FS_CardinalityType
  <2>4. Slots'
    BY <1>0, <2>1, <2>2, <2>3, FS_EmptySet DEF Slots, Batching
  <2>5. Tables' /\ Held' /\ Closed'
    BY <2>1 DEF Tables, Held, NoClaimDropped, Executes, Closed
  <2> QED BY <2>4, <2>5
<1>4. CASE LoopWakes
  BY <1>4 DEF LoopWakes, running, Tables, Slots, Batching, Held, NoClaimDropped, Executes, Closed
<1>5. CASE LoopEnds
  BY <1>5 DEF LoopEnds, Settled, running, Tables, Slots, Batching, Held, NoClaimDropped, Executes, Closed
<1>6. CASE BatchAnswered
  <2>1. Slots'
    BY <1>6, FS_EmptySet DEF BatchAnswered, Slots, Batching
  <2>2. Tables' /\ Held' /\ Closed'
    BY <1>6 DEF BatchAnswered, running, Tables, Held, NoClaimDropped, Executes, Closed
  <2> QED BY <2>1, <2>2
<1>7. CASE BatchNext
  <2>1. /\ loop = "batchNext" /\ loop' \in {"batchNext", "batchDone"} /\ IsFiniteSet(executing')
        /\ UNCHANGED <<row, due, up, ask, inflight, closing, lost>>
        /\ backlog \union executing \subseteq backlog' \union executing'
        /\ loop' # "batchNext" => backlog' = {}
    <3>1. CASE backlog = {}
      BY <1>7, <3>1 DEF BatchNext, Slots
    <3>2. CASE backlog # {}
      <4>1. PICK b \in backlog : /\ backlog' = backlog \ {b} /\ executing' = executing \union {b}
                                 /\ loop' = loop
        BY <1>7, <3>2 DEF BatchNext, Begin
      <4>2. IsFiniteSet(executing')
        BY <4>1, FS_AddElement DEF Slots
      <4> QED BY <1>7, <4>1, <4>2 DEF BatchNext
    <3> QED BY <3>1, <3>2
  <2>2. Tables' /\ Slots' /\ Held'
    BY <2>1 DEF Tables, Slots, Batching, Held, NoClaimDropped, Executes
  <2>3. Closed'
    BY <2>1 DEF Closed
  <2> QED BY <2>2, <2>3
<1>8. CASE ClaimFails
  <2>1. Slots'
    BY <1>0, <1>8, FS_EmptySet DEF ClaimFails, WaitForAvailability, Slots, Batching
  <2>2. Tables' /\ Held' /\ Closed'
    BY <1>8 DEF ClaimFails, WaitForAvailability, running, Tables, Held, NoClaimDropped, Executes, Closed
  <2> QED BY <2>1, <2>2
<1>9. CASE StartWorker
  BY <1>9 DEF StartWorker, running, Tables, Slots, Batching, Held, NoClaimDropped, Executes, Closed
<1>10. CASE WorkBatch
  BY <1>10 DEF WorkBatch, running, Tables, Slots, Batching, Held, NoClaimDropped, Executes, Closed
<1>11. CASE SleepTimer
  BY <1>11 DEF SleepTimer, running, Tables, Slots, Batching, Held, NoClaimDropped, Executes, Closed
<1>12. CASE Close
  BY <1>12 DEF Close, running, Tables, Slots, Batching, Held, NoClaimDropped, Executes, Closed
<1> QED BY <1>1, <1>2, <1>3, <1>4, <1>5, <1>6, <1>7, <1>8, <1>9, <1>10, <1>11, <1>12 DEF Loop

(* An execution ends only when its run has left the worker, or is lost.    *)
LEMMA ExecutingInv ==
  ASSUME WorkerInv, NEW r \in Run,
         Executing(r) \/ Extend(r) \/ CallFails(r) \/ FloatingBeat(r) \/ FatalTimer(r)
  PROVE  WorkerInv'
<1> USE DEF WorkerInv
<1>1. CASE ContextCreated(r)
  BY <1>1 DEF ContextCreated, process, Tables, Slots, Batching, Held, NoClaimDropped, Executes, Closed
<1>2. ASSUME UNCHANGED <<up, loop, inflight, backlog, lost>>, up,
             executing \ {r} \subseteq executing',
             \A q \in Run : Executes(q)' => Executes(q) /\ q # r
      PROVE  Held'
  BY <1>2 DEF Held, NoClaimDropped
<1>3. CASE Defer(r)
  <2>1. CASE Executes(r)
    <3>1. Leave(r[1], "sleeping") /\ Finish(r) /\ UNCHANGED <<up, loop, ask, inflight, backlog, closing, lost>> /\ up
      BY <1>3, <2>1 DEF Defer
    <3>2. Tables' /\ \A q \in Run : Executes(q)' => Executes(q) /\ q # r
      BY <2>1, <3>1, LeaveKeeps
    <3>3. executing \ {r} \subseteq executing'
      BY <3>1 DEF Finish
    <3> QED BY <1>2, <3>1, <3>2, <3>3, FinishKeeps
  <2>2. CASE ~Executes(r)
    BY <1>3, <2>2 DEF Defer, Tables, Slots, Batching, Held, NoClaimDropped, Executes, Closed
  <2> QED BY <2>1, <2>2
<1>4. CASE HandlerEnds(r)
  <2>1. UNCHANGED <<up, loop, ask, inflight, backlog, closing, lost>> /\ up
    BY <1>4 DEF HandlerEnds
  <2>2. CASE Finish(r) /\ Executes(r) /\ \E state \in {"ended", "sleeping"} : Leave(r[1], state)
    <3>1. Tables' /\ \A q \in Run : Executes(q)' => Executes(q) /\ q # r
      BY <2>2, LeaveKeeps
    <3>2. executing \ {r} \subseteq executing'
      BY <2>2 DEF Finish
    <3> QED BY <1>2, <2>1, <2>2, <3>1, <3>2, FinishKeeps
  <2>3. CASE Finish(r) /\ ~Executes(r) /\ UNCHANGED <<row, due>>
    <3>1. Tables' /\ \A q \in Run : Executes(q)' => Executes(q) /\ q # r
      BY <2>3 DEF Tables, Executes
    <3>2. executing \ {r} \subseteq executing'
      BY <2>3 DEF Finish
    <3> QED BY <1>2, <2>1, <2>3, <3>1, <3>2, FinishKeeps
  <2>4. CASE UNCHANGED <<row, due, executing, armed, woken, timers>>
    BY <2>1, <2>4 DEF Tables, Slots, Batching, Held, NoClaimDropped, Executes, Closed
  <2> QED BY <1>4, <2>2, <2>3, <2>4 DEF HandlerEnds
<1>5. CASE FailTaskRun(r)
  <2>1. Finish(r) /\ UNCHANGED <<up, loop, ask, inflight, backlog, closing, lost>> /\ up
    BY <1>5 DEF FailTaskRun
  <2>2. executing \ {r} \subseteq executing'
    BY <2>1 DEF Finish
  <2>3. Tables' /\ \A q \in Run : Executes(q)' => Executes(q) /\ q # r
    <3>1. CASE Executes(r)
      BY <1>5, <3>1, FailKeeps DEF FailTaskRun
    <3>2. CASE ~Executes(r)
      BY <1>5, <3>2 DEF FailTaskRun, Tables, Executes
    <3> QED BY <3>1, <3>2
  <2> QED BY <1>2, <2>1, <2>2, <2>3, FinishKeeps
<1>6. CASE Extend(r)
  <2>1. UNCHANGED <<due, up, loop, ask, inflight, backlog, closing, lost>> /\ up
    BY <1>6 DEF Extend
  <2>2. CASE Executes(r)
    <3>1. row' = [row EXCEPT ![r[1]].lease = "live"] /\ executing' = executing
      BY <1>6, <2>2 DEF Extend
    <3>2. Tables' /\ \A q \in Run : Executes(q)' => Executes(q)
      BY <2>1, <3>1, RunIsPair, LeaseChanges
    <3> QED BY <2>1, <3>1, <3>2 DEF Slots, Batching, Held, NoClaimDropped, Closed
  <2>3. CASE ~Executes(r)
    <3>1. Finish(r) /\ UNCHANGED row
      BY <1>6, <2>3 DEF Extend
    <3>2. Tables' /\ \A q \in Run : Executes(q)' => Executes(q) /\ q # r
      BY <2>1, <2>3, <3>1 DEF Tables, Executes
    <3>3. executing \ {r} \subseteq executing'
      BY <3>1 DEF Finish
    <3> QED BY <1>2, <2>1, <3>1, <3>2, <3>3, FinishKeeps
  <2> QED BY <2>2, <2>3
<1>7. CASE CallFails(r)
  <2>1. /\ up /\ Finish(r) /\ lost' = lost \union {r} \union backlog /\ backlog' = {}
        /\ loop' = (IF loop = "batchNext" THEN "batchDone" ELSE loop)
        /\ UNCHANGED <<row, due, up, ask, inflight, closing>>
    BY <1>7 DEF CallFails
  <2>2. IsFiniteSet(executing') /\ Cardinality(executing') <= Cardinality(executing)
    BY <2>1, SlotFreed DEF Finish
  <2>3. Cardinality(executing') \in Nat /\ Cardinality(executing) \in Nat /\ Cardinality(inflight) \in Nat
    BY <2>2, FS_CardinalityType DEF Slots
  <2>4. Slots'
    BY <2>1, <2>2, <2>3, WorkerAssumption DEF Slots, Batching
  <2>5. Tables' /\ Held' /\ Closed'
    BY <2>1 DEF Tables, Held, NoClaimDropped, Executes, Finish, Closed
  <2> QED BY <2>4, <2>5
<1>8. CASE FloatingBeat(r)
  <2>1. /\ row' = row \/ row' = [row EXCEPT ![r[1]].lease = "live"]
        /\ UNCHANGED <<due, up, process, exec, lost, budget>>
    BY <1>8 DEF FloatingBeat
  <2>2. Tables' /\ \A q \in Run : Executes(q)' => Executes(q)
    <3>1. CASE row' = row
      BY <2>1, <3>1 DEF Tables, Executes
    <3>2. CASE row' = [row EXCEPT ![r[1]].lease = "live"]
      BY <2>1, <3>2, RunIsPair, LeaseChanges
    <3> QED BY <2>1, <3>1, <3>2
  <2> QED BY <2>1, <2>2 DEF process, Slots, Batching, Held, NoClaimDropped, Closed
<1>9. CASE FatalTimer(r)
  <2>1. Slots'
    BY <1>9, FS_EmptySet, WorkerAssumption DEF FatalTimer, Gone, Slots, Batching
  <2>2. Tables' /\ Held' /\ Closed'
    BY <1>9 DEF FatalTimer, Gone, Tables, Held, NoClaimDropped, Executes, Closed
  <2> QED BY <2>1, <2>2
<1> QED BY <1>1, <1>3, <1>4, <1>5, <1>6, <1>7, <1>8, <1>9 DEF Executing

(* Time and restarts: no run is claimed, and none begins.                  *)
LEMMA OutsideInv ==
  ASSUME WorkerInv, Restart \/ (\E t \in Task : LeaseExpires(t) \/ SleepIsOver(t))
  PROVE  WorkerInv'
<1> USE DEF WorkerInv
<1>1. CASE Restart
  <2>1. /\ ~up /\ loop' = "off" /\ closing = "no"
        /\ UNCHANGED <<row, due, ask, inflight, backlog, executing, closing, lost>>
    BY <1>1 DEF Restart
  <2>2. Tables' /\ Slots' /\ Closed'
    BY <2>1 DEF Tables, Slots, Batching, Held, Closed
  <2>3. loop = "exited" /\ \A q \in Run : (Executes(q)' <=> Executes(q)) /\ (Executes(q) => q \in lost)
    BY <2>1 DEF Held, Executes
  <2>4. up' = TRUE
    BY <1>1 DEF Restart
  <2>5. Held'
    BY <2>1, <2>3, <2>4 DEF Held, NoClaimDropped
  <2> QED BY <2>2, <2>5
<1>2. ASSUME NEW t \in Task, LeaseExpires(t) \/ SleepIsOver(t) PROVE WorkerInv'
  <2>1. UNCHANGED <<up, process, running, lost>>
    BY <1>2 DEF LeaseExpires, SleepIsOver
  <2>2. Tables' /\ \A q \in Run : Executes(q)' => Executes(q)
    <3>1. CASE LeaseExpires(t)
      BY <3>1, LeaseChanges DEF LeaseExpires
    <3>2. CASE SleepIsOver(t)
      <4>1. Tables'
        <5>1. row[t] \in Rows /\ [row[t] EXCEPT !.state = "pending"] \in Rows
          BY DEF Tables, Rows
        <5>2. row' = [row EXCEPT ![t] = [row[t] EXCEPT !.state = "pending"]] /\ due' = Append(due, t)
          BY <3>2 DEF SleepIsOver
        <5> QED BY <5>1, <5>2 DEF Tables
      <4>2. \A u \in Task : row'[u].state = "running" => row'[u] = row[u]
        BY <3>2 DEF SleepIsOver, Tables, Rows
      <4> QED BY <4>1, <4>2, RunIsPair DEF Executes
    <3> QED BY <1>2, <3>1, <3>2
  <2> QED BY <2>1, <2>2 DEF process, Slots, Batching, Held, NoClaimDropped, Closed
<1> QED BY <1>1, <1>2

LEMMA WorkerStep ==
  ASSUME WorkerInv, [WorkerNext]_workerVars
  PROVE  WorkerInv'
<1>1. CASE UNCHANGED workerVars
  BY <1>1 DEF workerVars, WorkerInv, Tables, Slots, Batching, Held, NoClaimDropped, Executes, Closed
<1> QED BY <1>1, LoopInv, ExecutingInv, OutsideInv DEF WorkerNext

LEMMA WorkerInvariant == WorkerSpec => []WorkerInv
BY WorkerInitInv, WorkerStep, PTL DEF WorkerSpec

(* A worker never executes more runs than its concurrency, counting those  *)
(* it is about to be handed, for any concurrency, batch size and tasks.    *)
THEOREM CapacityIsRespected == WorkerSpec => []CapacityRespected
<1>1. WorkerInv => CapacityRespected
  BY DEF WorkerInv, Slots, CapacityRespected
<1> QED BY <1>1, WorkerInvariant, PTL

(* A run that executes in the database is being executed by the process    *)
(* that claimed it, or about to be, or is known as lost.                   *)
THEOREM ClaimsAreKept == WorkerSpec => []NoClaimDropped
<1>1. WorkerInv => NoClaimDropped
  BY DEF WorkerInv, Held
<1> QED BY <1>1, WorkerInvariant, PTL

(* Once close has resolved, nothing executes and no claim is on its way.   *)
THEOREM ClosesClean == WorkerSpec => []CloseIsClean
<1>1. WorkerInv => CloseIsClean
  BY DEF WorkerInv, Slots, Closed, CloseIsClean
<1> QED BY <1>1, WorkerInvariant, PTL

(* The tasks that are due: pending ones, each of them once; and a lease is *)
(* that of a run that executes, so that what a claim sweeps is not due.    *)
Queued ==
  /\ Tables
  /\ \A t \in Task : row[t].attempt \in 1 .. MaxAttempts[t]
  /\ ToSet(due) = {t \in Task : row[t].state = "pending"}
  /\ \A i, j \in 1 .. Len(due) : due[i] = due[j] => i = j
  /\ \A t \in Task : row[t].lease # "none" => row[t].state = "running"

(* A row that was not due, and is not, leaves the rest as it is.           *)
LEMMA RowChanges ==
  ASSUME Queued, NEW t \in Task, NEW x \in Rows, row' = [row EXCEPT ![t] = x],
         x.attempt \in 1 .. MaxAttempts[t], x.lease # "none" => x.state = "running",
         row[t].state # "pending",
         IF x.state = "pending" THEN due' = Append(due, t) ELSE due' = due
  PROVE  Queued'
<1>0. PICK n : n = Len(due)
  OBVIOUS
<1>1. /\ n \in Nat /\ n = Len(due) /\ DOMAIN due = 1 .. n /\ due \in Seq(Task)
      /\ \A i \in 1 .. n : due[i] \in Task
  BY <1>0 DEF Queued, Tables
<1>2. /\ row' \in [Task -> Rows] /\ row'[t] = x
      /\ \A u \in Task : u # t => row'[u] = row[u]
  BY DEF Queued, Tables
<1>3. \A i \in 1 .. n : due[i] # t
  BY ZenonT(60), <1>1 DEF Queued, ToSet
<1>4. /\ due' \in Seq(Task)
      /\ ToSet(due') = {u \in Task : row'[u].state = "pending"}
      /\ \A i, j \in 1 .. Len(due') : due'[i] = due'[j] => i = j
  <2>1. CASE x.state = "pending"
    <3>1. /\ due' \in Seq(Task) /\ Len(due') = n + 1 /\ DOMAIN due' = 1 .. n + 1
          /\ due'[n + 1] = t /\ \A i \in 1 .. n : due'[i] = due[i]
      BY SMTT(120), <1>1, <2>1
    <3>2. ToSet(due') = ToSet(due) \union {t}
      BY SMTT(60), <1>1, <3>1 DEF ToSet
    <3>3. \A i, j \in 1 .. n + 1 : due'[i] = due'[j] => i = j
      <4> TAKE i, j \in 1 .. n + 1
      <4>1. (i \in 1 .. n \/ i = n + 1) /\ (j \in 1 .. n \/ j = n + 1)
        BY <1>1
      <4> QED BY <1>1, <1>3, <3>1, <4>1 DEF Queued
    <3>4. {u \in Task : row'[u].state = "pending"} = {u \in Task : row[u].state = "pending"} \union {t}
      BY <1>2, <2>1
    <3> QED BY <3>1, <3>2, <3>3, <3>4 DEF Queued
  <2>2. CASE x.state # "pending"
    <3>1. {u \in Task : row'[u].state = "pending"} = {u \in Task : row[u].state = "pending"}
      BY <1>2, <2>2
    <3> QED BY <1>1, <2>2, <3>1 DEF Queued
  <2> QED BY <2>1, <2>2
<1> QED BY <1>2, <1>4 DEF Queued, Tables

(* A run that leaves, fails, or has its lease set; a sleep that is over.   *)
LEMMA FailedRowAgain ==
  ASSUME Queued, NEW t \in Task
  PROVE  /\ FailedRow(t) \in Rows /\ FailedRow(t).attempt \in 1 .. MaxAttempts[t]
         /\ FailedRow(t).lease = "none" /\ FailedRow(t).state \in {"pending", "ended"}
<1>1. row[t] \in Rows /\ row[t].attempt \in 1 .. MaxAttempts[t] /\ MaxAttempts[t] \in Nat
  BY WorkerAssumption DEF Queued, Tables
<1> QED BY <1>1 DEF FailedRow, Rows

LEMMA RunLeaves ==
  ASSUME Queued, NEW r \in Run, Executes(r),
         \/ FailRun(r[1])
         \/ \E state \in {"ended", "sleeping"} : Leave(r[1], state)
  PROVE  Queued'
<1>1. PICK t, x : t = r[1] /\ x = row[t]
  OBVIOUS
<1>2. t \in Task /\ x \in Rows /\ x.state = "running" /\ x.attempt \in 1 .. MaxAttempts[t]
  BY <1>1, RunIsPair DEF Queued, Tables, Executes
<1>3. CASE FailRun(t)
  BY <1>1, <1>2, <1>3, FailedRowAgain, RowChanges DEF FailRun
<1>4. ASSUME NEW state \in {"ended", "sleeping"}, Leave(t, state) PROVE Queued'
  <2>1. PICK y : y = [x EXCEPT !.state = state, !.lease = "none"]
    OBVIOUS
  <2>2. y \in Rows /\ y.state = state /\ y.lease = "none" /\ y.attempt = x.attempt
    BY <1>2, <2>1 DEF Rows
  <2>3. row' = [row EXCEPT ![t] = y] /\ due' = due
    BY ZenonT(60), <1>1, <1>2, <1>4, <2>1 DEF Leave, Queued, Tables
  <2> QED BY <1>1, <1>2, <2>2, <2>3, RowChanges
<1> QED BY <1>1, <1>3, <1>4

LEMMA LeaseSet ==
  ASSUME Queued, NEW t \in Task, NEW lease2 \in {"live", "expired"}, row[t].state = "running",
         row' = [row EXCEPT ![t].lease = lease2], due' = due
  PROVE  Queued'
<1>1. PICK x, y : x = row[t] /\ y = [x EXCEPT !.lease = lease2]
  OBVIOUS
<1>2. /\ x \in Rows /\ y \in Rows /\ y.state = "running" /\ x.state = "running"
      /\ y.attempt \in 1 .. MaxAttempts[t]
  BY <1>1 DEF Queued, Tables, Rows
<1>3. row' = [row EXCEPT ![t] = y]
  BY <1>1 DEF Queued, Tables
<1> QED BY <1>1, <1>2, <1>3, RowChanges

LEMMA SleepEnds ==
  ASSUME Queued, NEW t \in Task, SleepIsOver(t)
  PROVE  Queued'
<1>1. PICK x, y : x = row[t] /\ y = [x EXCEPT !.state = "pending"]
  OBVIOUS
<1>2. /\ x \in Rows /\ x.state = "sleeping" /\ x.lease = "none" /\ x.attempt \in 1 .. MaxAttempts[t]
  BY <1>1 DEF Queued, Tables, SleepIsOver
<1>3. y \in Rows /\ y.state = "pending" /\ y.lease = "none" /\ y.attempt \in 1 .. MaxAttempts[t]
  BY <1>1, <1>2 DEF Rows
<1>4. row' = [row EXCEPT ![t] = y] /\ due' = Append(due, t)
  BY <1>1 DEF SleepIsOver, Queued, Tables
<1> QED BY <1>1, <1>2, <1>3, <1>4, RowChanges

(* A claim sweeps runs that are not due, puts those that are retried at    *)
(* the end, and takes a prefix.                                            *)
LEMMA ClaimQueued ==
  ASSUME Queued, NEW n \in Nat, ClaimTask(n)
  PROVE  Queued' /\ inflight' \subseteq Run
<1>1. PICK swept \in SUBSET {t \in Task : row[t].lease = "expired"} :
        LET left == [t \in Task |-> IF t \in swept THEN FailedRow(t) ELSE row[t]]
        IN \E retried \in SetToSeqs({t \in swept : left[t].state = "pending"}) :
             LET queue == due \o retried
                 claimed == {queue[i] : i \in 1 .. Lower(n, Len(queue))}
             IN /\ row' = [t \in Task |-> IF t \in claimed
                                          THEN [left[t] EXCEPT !.state = "running", !.lease = "live"]
                                          ELSE left[t]]
                /\ due' = SubSeq(queue, Lower(n, Len(queue)) + 1, Len(queue))
                /\ inflight' = {<<t, left[t].attempt>> : t \in claimed}
  BY DEF ClaimTask, Takes
<1> DEFINE left == [t \in Task |-> IF t \in swept THEN FailedRow(t) ELSE row[t]]
           S == {t \in swept : left[t].state = "pending"}
<1>2. PICK retried \in SetToSeqs(S) :
        LET queue == due \o retried
            claimed == {queue[i] : i \in 1 .. Lower(n, Len(queue))}
        IN /\ row' = [t \in Task |-> IF t \in claimed
                                     THEN [left[t] EXCEPT !.state = "running", !.lease = "live"]
                                     ELSE left[t]]
           /\ due' = SubSeq(queue, Lower(n, Len(queue)) + 1, Len(queue))
           /\ inflight' = {<<t, left[t].attempt>> : t \in claimed}
  BY ZenonT(60), <1>1
<1> DEFINE queue == due \o retried
           k == Lower(n, Len(queue))
           claimed == {queue[i] : i \in 1 .. k}
<1>3. /\ row' = [t \in Task |-> IF t \in claimed
                                THEN [left[t] EXCEPT !.state = "running", !.lease = "live"]
                                ELSE left[t]]
      /\ due' = SubSeq(queue, k + 1, Len(queue))
      /\ inflight' = {<<t, left[t].attempt>> : t \in claimed}
  BY <1>2
<1>4. \A t \in Task : left[t] = IF t \in swept THEN FailedRow(t) ELSE row[t]
  OBVIOUS
<1> HIDE DEF left, S, queue, k, claimed
<1>5. /\ left \in [Task -> Rows] /\ \A t \in Task : left[t].attempt \in 1 .. MaxAttempts[t]
      /\ \A t \in Task : left[t].lease # "none" => left[t].state = "running"
      /\ \A t \in swept : row[t].state # "pending" /\ t \in Task
      /\ \A t \in Task : t \notin swept => left[t] = row[t]
  <2>1. ASSUME NEW t \in Task
        PROVE  /\ left[t] \in Rows /\ left[t].attempt \in 1 .. MaxAttempts[t]
               /\ left[t].lease # "none" => left[t].state = "running"
    BY <1>4, FailedRowAgain DEF Queued, Tables
  <2>2. ASSUME NEW t \in swept PROVE t \in Task /\ row[t].state # "pending"
    BY DEF Queued
  <2>3. left \in [Task -> Rows]
    BY <2>1 DEF left
  <2> QED BY <1>4, <2>1, <2>2, <2>3
<1>6. PICK m \in Nat : /\ retried \in [1 .. m -> S] /\ Len(retried) = m /\ retried \in Seq(Task)
                       /\ \A i, j \in 1 .. m : i # j => retried[i] # retried[j]
                       /\ \A t \in S : \E i \in 1 .. m : retried[i] = t
  <2>1. S \in SUBSET Task /\ IsFiniteSet(S)
    BY WorkerAssumption, FS_Subset DEF S
  <2>2. Cardinality(S) \in Nat
    BY SMTT(60), <2>1, FS_CardinalityType
  <2>3. /\ retried \in [1 .. Cardinality(S) -> S]
        /\ \A i, j \in 1 .. Cardinality(S) : i # j => retried[i] # retried[j]
    BY <1>2 DEF SetToSeqs
  <2>4. \A t \in S : \E i \in 1 .. Cardinality(S) : retried[i] = t
    <3>1. IsFiniteSet(1 .. Cardinality(S)) /\ Cardinality(1 .. Cardinality(S)) = Cardinality(S)
      BY <2>2, FS_Interval
    <3>2. retried \in Injection(1 .. Cardinality(S), S)
      BY <2>3 DEF Injection, IsInjective
    <3>3. retried \in Surjection(1 .. Cardinality(S), S)
      BY <2>1, <3>1, <3>2, FS_Injection
    <3> QED BY <3>3 DEF Surjection
  <2>5. retried \in Seq(Task) /\ Len(retried) = Cardinality(S)
    <3>1. retried \in [1 .. Cardinality(S) -> Task]
      BY <2>1, <2>3
    <3> QED BY <2>2, <3>1
  <2> QED BY <2>2, <2>3, <2>4, <2>5
<1> DEFINE d == Len(due)
<1>7. d \in Nat /\ due \in Seq(Task) /\ due \in [1 .. d -> Task]
  BY DEF Queued, Tables
<1>8. /\ queue \in Seq(Task) /\ Len(queue) = d + m
      /\ \A i \in 1 .. d : queue[i] = due[i]
      /\ \A i \in 1 .. m : queue[d + i] = retried[i]
  BY SMTT(60), <1>6, <1>7 DEF queue
<1> HIDE DEF d
<1>9. /\ \A i \in 1 .. d : queue[i] \in Task /\ row[queue[i]].state = "pending"
      /\ \A i \in d + 1 .. d + m : queue[i] \in S /\ queue[i] = retried[i - d]
  <2>1. ASSUME NEW i \in 1 .. d PROVE queue[i] \in Task /\ row[queue[i]].state = "pending"
    BY <1>7, <1>8 DEF Queued, ToSet, d
  <2>2. ASSUME NEW i \in d + 1 .. d + m PROVE queue[i] \in S /\ queue[i] = retried[i - d]
    <3>1. i - d \in 1 .. m /\ d + (i - d) = i
      BY <1>6, <1>7
    <3>2. \A e \in 1 .. m : queue[d + e] = retried[e]
      BY <1>8
    <3>3. queue[d + (i - d)] = retried[i - d]
      BY <3>1, <3>2
    <3> QED BY <1>6, <3>1, <3>3
  <2> QED BY <2>1, <2>2
<1>10. ASSUME NEW i \in 1 .. d + m, NEW j \in 1 .. d + m, queue[i] = queue[j] PROVE i = j
  <2>1. i \in 1 .. d \/ i \in d + 1 .. d + m
    BY <1>6, <1>7
  <2>2. j \in 1 .. d \/ j \in d + 1 .. d + m
    BY <1>6, <1>7
  <2>3. CASE i \in 1 .. d /\ j \in 1 .. d
    BY <1>7, <1>8, <1>10, <2>3 DEF Queued, d
  <2>4. CASE i \in d + 1 .. d + m /\ j \in d + 1 .. d + m
    <3>1. retried[i - d] = retried[j - d] /\ i - d \in 1 .. m /\ j - d \in 1 .. m
      BY <1>6, <1>7, <1>9, <1>10, <2>4
    <3> QED BY <1>6, <1>7, <3>1
  <2>5. CASE i \in 1 .. d /\ j \in d + 1 .. d + m
    BY <1>5, <1>9, <1>10, <2>5 DEF S
  <2>6. CASE j \in 1 .. d /\ i \in d + 1 .. d + m
    BY <1>5, <1>9, <1>10, <2>6 DEF S
  <2> QED BY <2>1, <2>2, <2>3, <2>4, <2>5, <2>6
<1>11. ASSUME NEW t \in Task
       PROVE  left[t].state = "pending" <=> \E i \in 1 .. d + m : queue[i] = t
  <2>1. ASSUME left[t].state = "pending" PROVE \E i \in 1 .. d + m : queue[i] = t
    <3>1. CASE t \in swept
      <4>1. PICK i \in 1 .. m : retried[i] = t
        BY <1>6, <2>1, <3>1 DEF S
      <4>2. d + i \in 1 .. d + m /\ queue[d + i] = t
        BY SMTT(60), <1>6, <1>7, <1>8, <4>1
      <4> QED BY <4>2
    <3>2. CASE t \notin swept
      <4>1. row[t].state = "pending"
        BY <1>5, <2>1, <3>2
      <4>2. PICK i \in 1 .. d : due[i] = t
        BY <1>7, <4>1 DEF Queued, ToSet, d
      <4> QED BY <1>6, <1>7, <1>8, <4>2
    <3> QED BY <3>1, <3>2
  <2>2. ASSUME NEW i \in 1 .. d + m, queue[i] = t PROVE left[t].state = "pending"
    <3>1. i \in 1 .. d \/ i \in d + 1 .. d + m
      BY <1>6, <1>7
    <3>2. CASE i \in 1 .. d
      BY <1>5, <1>9, <2>2, <3>2
    <3>3. CASE i \in d + 1 .. d + m
      BY <1>9, <2>2, <3>3 DEF S
    <3> QED BY <3>1, <3>2, <3>3
  <2> QED BY <2>1, <2>2
<1>12. k \in 0 .. d + m
  BY <1>6, <1>7, <1>8 DEF k, Lower
<1>13. /\ due' \in Seq(Task) /\ Len(due') = d + m - k
       /\ \A i \in 1 .. d + m - k : due'[i] = queue[k + i]
  <2>1. \A i \in k + 1 .. d + m : queue[i] \in Task
    BY <1>6, <1>7, <1>8, <1>12
  <2>2. k + 1 \in Int /\ d + m \in Int
    BY <1>6, <1>7, <1>12
  <2>3. due' = SubSeq(queue, k + 1, d + m)
    BY <1>3, <1>8
  <2>4. PICK a \in Int, b \in Int : a = k + 1 /\ b = d + m
    BY <2>2
  <2>5. PICK tail : tail = SubSeq(queue, a, b)
    OBVIOUS
  <2>6. \A i \in a .. b : queue[i] \in Task
    BY <2>1, <2>4
  <2>7. /\ tail \in Seq(Task) /\ Len(tail) = IF a <= b THEN b - a + 1 ELSE 0
        /\ \A i \in 1 .. b - a + 1 : tail[i] = queue[a + i - 1]
    BY <2>5, <2>6, SubSeqProperties, SMTT(30)
  <2>8. Len(tail) = d + m - k /\ b - a + 1 = d + m - k
    BY <1>6, <1>7, <1>12, <2>4, <2>7
  <2>9. \A i \in 1 .. d + m - k : tail[i] = queue[k + i]
    <3> TAKE i \in 1 .. d + m - k
    <3>1. i \in 1 .. b - a + 1
      BY <1>6, <1>7, <1>12, <2>4
    <3>2. a + i - 1 = k + i
      BY <1>12, <2>4
    <3>3. tail[i] = queue[a + i - 1]
      BY <2>7, <3>1
    <3> QED BY <3>2, <3>3, Zenon
  <2>10. due' = tail
    BY <2>3, <2>4, <2>5
  <2> QED BY <2>7, <2>8, <2>9, <2>10
<1>14. claimed \subseteq Task /\ \A t \in claimed : left[t].state = "pending"
  <2> SUFFICES ASSUME NEW i \in 1 .. k PROVE queue[i] \in Task /\ left[queue[i]].state = "pending"
    BY DEF claimed
  <2>1. i \in 1 .. d + m
    BY <1>6, <1>7, <1>12
  <2>2. queue[i] \in Task
    BY <1>8, <2>1
  <2> QED BY <1>11, <2>1, <2>2
<1>15. ASSUME NEW t \in Task
       PROVE  /\ row'[t] \in Rows /\ row'[t].attempt = left[t].attempt
              /\ row'[t].lease # "none" => row'[t].state = "running"
              /\ row'[t].state = "pending" <=> left[t].state = "pending" /\ t \notin claimed
  <2>1. PICK x : x = left[t] /\ x \in Rows
    BY <1>5
  <2>2. PICK y : y = [x EXCEPT !.state = "running", !.lease = "live"]
    OBVIOUS
  <2>3. y \in Rows /\ y.state = "running" /\ y.attempt = x.attempt
    BY <2>1, <2>2 DEF Rows
  <2>4. row'[t] = IF t \in claimed THEN y ELSE x
    BY <1>3, <2>1, <2>2
  <2>5. t \in claimed => x.state = "pending"
    BY <1>14, <2>1
  <2> QED BY <1>5, <2>1, <2>3, <2>4, <2>5
<1>16. ToSet(due') = {t \in Task : row'[t].state = "pending"}
  <2>1. ASSUME NEW t \in Task
        PROVE  t \in ToSet(due') <=> left[t].state = "pending" /\ t \notin claimed
    <3>1. t \in ToSet(due') <=> \E i \in 1 .. d + m - k : queue[k + i] = t
      BY <1>13 DEF ToSet
    <3>2. (\E i \in 1 .. d + m - k : queue[k + i] = t) <=> \E i \in k + 1 .. d + m : queue[i] = t
      <4>1. ASSUME NEW i \in 1 .. d + m - k, queue[k + i] = t PROVE \E e \in k + 1 .. d + m : queue[e] = t
        <5>1. k + i \in k + 1 .. d + m
          BY <1>6, <1>7, <1>12
        <5> QED BY <4>1, <5>1
      <4>2. ASSUME NEW i \in k + 1 .. d + m, queue[i] = t PROVE \E e \in 1 .. d + m - k : queue[k + e] = t
        <5>1. i - k \in 1 .. d + m - k /\ k + (i - k) = i
          BY <1>6, <1>7, <1>12
        <5> QED BY <4>2, <5>1
      <4> QED BY <4>1, <4>2
    <3>3. t \notin claimed <=> ~\E i \in 1 .. k : queue[i] = t
      BY DEF claimed
    <3>4. \A i \in 1 .. d + m : i \in 1 .. k \/ i \in k + 1 .. d + m
      BY <1>6, <1>7, <1>12
    <3>5. 1 .. k \subseteq 1 .. d + m /\ k + 1 .. d + m \subseteq 1 .. d + m /\ 1 .. k \cap k + 1 .. d + m = {}
      BY <1>6, <1>7, <1>12
    <3> QED BY <1>10, <1>11, <3>1, <3>2, <3>3, <3>4, <3>5
  <2>2. ToSet(due') \subseteq Task
    BY <1>13 DEF ToSet
  <2> QED BY <1>15, <2>1, <2>2
<1>17. \A i, j \in 1 .. Len(due') : due'[i] = due'[j] => i = j
  <2> SUFFICES ASSUME NEW i \in 1 .. d + m - k, NEW j \in 1 .. d + m - k, queue[k + i] = queue[k + j]
               PROVE  i = j
    BY <1>13
  <2>1. k + i \in 1 .. d + m /\ k + j \in 1 .. d + m
    BY <1>6, <1>7, <1>12
  <2>2. k + i = k + j
    BY <1>10, <2>1
  <2> QED BY <1>12, <2>2
<1>18. inflight' \subseteq Run
  <2> SUFFICES ASSUME NEW t \in claimed PROVE <<t, left[t].attempt>> \in Run
    BY ZenonT(60), <1>3
  <2> QED BY <1>5, <1>14 DEF Run
<1>19. row' \in [Task -> Rows]
  BY <1>3, <1>15
<1> QED BY SMTT(60), <1>5, <1>13, <1>15, <1>16, <1>17, <1>18, <1>19 DEF Queued, Tables

(* What a process keeps of its runs.                                       *)
Kinds ==
  /\ up \in BOOLEAN /\ ask \in Nat /\ budget \in Nat
  /\ loop \in {"off", "top", "claiming", "answering", "waiting", "settling", "exited",
               "batch", "batchAnswer", "batchNext", "batchDone"}
  /\ inflight \subseteq Run /\ backlog \subseteq Run /\ executing \subseteq Run
  /\ timers \subseteq Run /\ lost \subseteq Run
  /\ armed \in BOOLEAN /\ woken \in BOOLEAN
  /\ exec \in [Run -> {"off", "creating", "deferring", "handling", "failing"}]
  /\ beats \in [Run -> {"none", "sent", "answered", "late"}]
  /\ closing \in {"no", "waiting", "resolved"}

(* An execution has ended: its run is in no set of the process.            *)
LEMMA FinishKinds ==
  ASSUME Kinds, NEW r \in Run, Finish(r)
  PROVE  /\ exec' \in [Run -> {"off", "creating", "deferring", "handling", "failing"}]
         /\ executing' \subseteq Run /\ timers' \subseteq Run
         /\ armed' \in BOOLEAN /\ woken' \in BOOLEAN
BY DEF Finish, Kinds

(* A step of the loop, of an execution, or of the world outside keeps the  *)
(* rows, and the kinds.                                                    *)
LEMMA LoopTypes ==
  ASSUME WorkerInv, Queued, Kinds, Loop \/ ClaimFails \/ StartWorker \/ WorkBatch \/ SleepTimer \/ Close
  PROVE  Queued' /\ Kinds'
<1> USE WorkerAssumption DEF Kinds
<1>0. ASSUME UNCHANGED <<row, due>> PROVE Queued'
  BY <1>0 DEF Queued, Tables, ToSet
<1>1. CASE LoopTop
  <2>1. Cardinality(executing) \in Nat
    BY FS_CardinalityType DEF WorkerInv, Slots
  <2>2. ask' \in Nat
    BY <1>1, <2>1 DEF LoopTop, ToClaim, Lower
  <2> QED BY <1>0, <1>1, <2>2 DEF LoopTop, WaitForAvailability, running
<1>2. CASE ClaimCommits
  <2>1. PICK n \in Nat : ClaimTask(n)
    BY <1>2 DEF ClaimCommits
  <2>2. Queued' /\ inflight' \subseteq Run
    BY <2>1, ClaimQueued
  <2> QED BY <1>2, <2>2 DEF ClaimCommits, running
<1>3. CASE ClaimAnswered
  <2>1. /\ exec' = [r \in Run |-> IF r \in inflight THEN "creating" ELSE exec[r]]
        /\ executing' = executing \union inflight /\ inflight' = {}
        /\ UNCHANGED <<row, due, up, ask, backlog, timers, beats, closing, lost, budget>>
        /\ \/ loop' = "waiting" /\ armed' = TRUE /\ woken' = FALSE
           \/ loop' = "top" /\ UNCHANGED <<armed, woken>>
    BY <1>3 DEF ClaimAnswered, BeginAll, Begin, WaitForAvailability
  <2> QED BY <1>0, <2>1
<1>4. CASE LoopWakes \/ LoopEnds
  BY <1>0, <1>4 DEF LoopWakes, LoopEnds, running
<1>5. CASE BatchAnswered
  BY <1>0, <1>5 DEF BatchAnswered, running
<1>6. CASE BatchNext
  <2>1. /\ UNCHANGED <<row, due, up, ask, inflight, armed, woken, timers, beats, closing, lost, budget>>
        /\ loop' \in {"batchNext", "batchDone"}
    BY <1>6 DEF BatchNext
  <2>2. CASE backlog = {}
    BY <1>0, <1>6, <2>1, <2>2 DEF BatchNext
  <2>3. CASE backlog # {}
    <3>1. PICK r \in backlog : backlog' = backlog \ {r} /\ Begin({r})
      BY <1>6, <2>3 DEF BatchNext
    <3> QED BY <1>0, <2>1, <3>1 DEF Begin
  <2> QED BY <2>2, <2>3
<1>7. CASE ClaimFails
  <2>1. budget' \in Nat
    BY <1>7 DEF ClaimFails
  <2> QED BY <1>0, <1>7, <2>1 DEF ClaimFails, WaitForAvailability, running
<1>8. CASE StartWorker \/ WorkBatch \/ SleepTimer \/ Close
  BY ZenonT(60), <1>0, <1>8 DEF StartWorker, WorkBatch, SleepTimer, Close, running
<1> QED BY <1>1, <1>2, <1>3, <1>4, <1>5, <1>6, <1>7, <1>8 DEF Loop

LEMMA ExecutingTypes ==
  ASSUME Queued, Kinds, NEW r \in Run,
         Executing(r) \/ Extend(r) \/ CallFails(r) \/ FloatingBeat(r) \/ FatalTimer(r)
  PROVE  Queued' /\ Kinds'
<1>0. ASSUME UNCHANGED <<row, due>> PROVE Queued'
  BY <1>0 DEF Queued, Tables, ToSet
<1>1. CASE ContextCreated(r)
  <2>1. Queued'
    BY <1>0, <1>1 DEF ContextCreated
  <2> QED BY <1>1, <2>1 DEF ContextCreated, ScheduleLeaseTimers, process, Kinds
<1>2. CASE Defer(r)
  <2>1. CASE Executes(r)
    <3>1. Leave(r[1], "sleeping") /\ Finish(r) /\ UNCHANGED <<up, loop, ask, inflight, backlog, beats, closing, lost, budget>>
      BY <1>2, <2>1 DEF Defer
    <3> QED BY <2>1, <3>1, RunLeaves, FinishKinds DEF Kinds
  <2>2. CASE ~Executes(r)
    BY <1>0, <1>2, <2>2 DEF Defer, Kinds
  <2> QED BY <2>1, <2>2
<1>3. CASE HandlerEnds(r)
  <2>1. CASE Finish(r)
    <3>1. Queued'
      <4>1. CASE Executes(r)
        <5>1. \E state \in {"ended", "sleeping"} : Leave(r[1], state)
          BY <1>3, <2>1, <4>1 DEF HandlerEnds, Finish, Kinds
        <5> QED BY <4>1, <5>1, RunLeaves
      <4>2. CASE ~Executes(r)
        BY <1>0, <1>3, <4>2 DEF HandlerEnds
      <4> QED BY <4>1, <4>2
    <3> QED BY <1>3, <2>1, <3>1, FinishKinds DEF HandlerEnds, Kinds
  <2>2. CASE ~Finish(r)
    BY <1>0, <1>3, <2>2 DEF HandlerEnds, Kinds
  <2> QED BY <2>1, <2>2
<1>4. CASE FailTaskRun(r)
  <2>1. Queued'
    <3>1. CASE Executes(r)
      BY <1>4, <3>1, RunLeaves DEF FailTaskRun
    <3>2. CASE ~Executes(r)
      BY <1>0, <1>4, <3>2 DEF FailTaskRun
    <3> QED BY <3>1, <3>2
  <2> QED BY <1>4, <2>1, FinishKinds DEF FailTaskRun, Kinds
<1>5. CASE Extend(r)
  <2>1. CASE Executes(r)
    <3>1. Queued'
      <4>1. r[1] \in Task /\ row[r[1]].state = "running"
        BY <2>1, RunIsPair DEF Executes
      <4> QED BY <1>5, <2>1, <4>1, LeaseSet DEF Extend
    <3> QED BY <1>5, <2>1, <3>1 DEF Extend, ScheduleLeaseTimers, Kinds
  <2>2. CASE ~Executes(r)
    BY <1>0, <1>5, <2>2, FinishKinds DEF Extend, Kinds
  <2> QED BY <2>1, <2>2
<1>6. CASE CallFails(r)
  <2>1. Queued' /\ budget' \in Nat
    BY <1>0, <1>6 DEF CallFails, Kinds
  <2> QED BY <1>6, <2>1, FinishKinds DEF CallFails, Kinds
<1>7. CASE FloatingBeat(r)
  <2>1. Queued'
    <3>1. CASE UNCHANGED row
      BY <1>0, <1>7, <3>1 DEF FloatingBeat
    <3>2. CASE ~UNCHANGED row
      <4>1. Executes(r) /\ row' = [row EXCEPT ![r[1]].lease = "live"] /\ due' = due
        BY <1>7, <3>2 DEF FloatingBeat
      <4>2. r[1] \in Task /\ row[r[1]].state = "running"
        BY <4>1, RunIsPair DEF Executes
      <4> QED BY <4>1, <4>2, LeaseSet
    <3> QED BY <3>1, <3>2
  <2>2. timers' \subseteq Run /\ beats' \in [Run -> {"none", "sent", "answered", "late"}]
    BY <1>7 DEF FloatingBeat, ScheduleLeaseTimers, Kinds
  <2> QED BY <1>7, <2>1, <2>2 DEF FloatingBeat, process, Kinds
<1>8. CASE FatalTimer(r)
  BY <1>0, <1>8 DEF FatalTimer, Gone, Kinds
<1> QED BY <1>1, <1>2, <1>3, <1>4, <1>5, <1>6, <1>7, <1>8 DEF Executing

LEMMA OutsideTypes ==
  ASSUME Queued, Kinds, Restart \/ (\E t \in Task : LeaseExpires(t) \/ SleepIsOver(t))
  PROVE  Queued' /\ Kinds'
<1>1. CASE Restart
  <2>1. Queued' /\ budget' \in Nat
    BY <1>1 DEF Restart, Queued, Tables, ToSet, Kinds
  <2> QED BY <1>1, <2>1 DEF Restart, running, Kinds
<1>2. ASSUME NEW t \in Task, LeaseExpires(t) PROVE Queued' /\ Kinds'
  <2>1. row[t].state = "running"
    BY <1>2 DEF LeaseExpires, Queued
  <2>2. Queued'
    BY <1>2, <2>1, LeaseSet DEF LeaseExpires
  <2> QED BY <1>2, <2>2 DEF LeaseExpires, process, running, Kinds
<1>3. ASSUME NEW t \in Task, SleepIsOver(t) PROVE Queued' /\ Kinds'
  BY ZenonT(60), <1>3, SleepEnds DEF SleepIsOver, process, running, Kinds
<1> QED BY <1>1, <1>2, <1>3

LEMMA WorkerInitTypes == WorkerInit => Queued /\ Kinds
<1> SUFFICES ASSUME WorkerInit PROVE Queued /\ Kinds
  OBVIOUS
<1>1. Kinds
  BY WorkerAssumption DEF WorkerInit, Kinds
<1>2. Tables /\ \A t \in Task : row[t].attempt \in 1 .. MaxAttempts[t]
  <2>1. due \in Seq(Task)
    BY OrderIsSequence DEF WorkerInit
  <2> QED BY <2>1, WorkerAssumption DEF WorkerInit, Tables, Rows
<1>3. PICK c \in Nat : /\ c = Cardinality(Task) /\ due \in [1 .. c -> Task]
                       /\ \A i, j \in 1 .. c : i # j => due[i] # due[j]
  BY WorkerAssumption, FS_CardinalityType DEF WorkerInit, SetToSeqs
<1>4. \A t \in Task : \E i \in 1 .. c : due[i] = t
  <2>1. IsFiniteSet(1 .. c) /\ Cardinality(1 .. c) = c
    BY <1>3, FS_Interval
  <2>2. due \in Injection(1 .. c, Task)
    BY <1>3 DEF Injection, IsInjective
  <2>3. due \in Surjection(1 .. c, Task)
    BY <1>3, <2>1, <2>2, WorkerAssumption, FS_Injection
  <2> QED BY <2>3 DEF Surjection
<1>5. ToSet(due) = Task /\ Len(due) = c
  BY <1>3, <1>4 DEF ToSet
<1> QED BY <1>1, <1>2, <1>3, <1>5 DEF WorkerInit, Queued

LEMMA WorkerStaysTyped ==
  ASSUME WorkerInv, Queued, Kinds, [WorkerNext]_workerVars
  PROVE  Queued' /\ Kinds'
<1>1. CASE UNCHANGED workerVars
  BY <1>1 DEF workerVars, Queued, Tables, ToSet, Kinds
<1> QED BY <1>1, LoopTypes, ExecutingTypes, OutsideTypes DEF WorkerNext

LEMMA WorkerTyped == Queued /\ Kinds => WorkerTypeOK
<1> SUFFICES ASSUME Queued, Kinds PROVE WorkerTypeOK
  OBVIOUS
<1>1. \A t \in Task : <<t, row[t].attempt>> \in Run
  BY DEF Queued, Run
<1> QED BY <1>1 DEF Queued, Tables, Rows, Kinds, WorkerTypeOK

(* The tasks due are those that are pending, no task exceeds its attempts, *)
(* and the variables of the worker have their types.                       *)
THEOREM WorkerTypeCorrect == WorkerSpec => []WorkerTypeOK
BY WorkerInitTypes, WorkerStaysTyped, WorkerTyped, WorkerInvariant, PTL DEF WorkerSpec

-----------------------------------------------------------------------------
(* The poll of awaitTaskResult: it times out when it should, and keeps the *)
(* lease of its run.                                                       *)

(* The interval between heartbeats is at least half a second.              *)
LEMMA IntervalPositive ==
  ASSUME NEW c \in Nat
  PROVE  HeartbeatInterval(c) \in Nat /\ HeartbeatInterval(c) >= 10
BY DEF HeartbeatInterval, Most, MinBeat

LEMMA AwaitInitTypes == AwaitInit => AwaitTypeOK
BY AwaitAssumption, IntervalPositive DEF AwaitInit, AwaitTypeOK, MaxDelay

LEMMA AwaitStep ==
  ASSUME AwaitTypeOK, [AwaitNext]_awaitVars
  PROVE  AwaitTypeOK'
<1> USE AwaitAssumption
<1> USE DEF AwaitTypeOK, MaxDelay
<1>0. /\ HeartbeatInterval(claim) \in Nat /\ claim \in Nat
      /\ timeout \in Int /\ elapsed \in Nat
  BY IntervalPositive
<1>1. ASSUME NEW d \in Nat, Pass(d), UNCHANGED <<claim, timeout>>
      PROVE  /\ elapsed' \in Nat
             /\ nextBeat' \in 0 .. HeartbeatInterval(claim')
             /\ lease' \in 0 .. claim'
  BY <1>0, <1>1 DEF Pass, Most
<1>2. CASE AwaitTaskResult
  BY <1>0, <1>2 DEF AwaitTaskResult
<1>3. CASE FetchSnapshot
  <2>1. step' \in {"snapshot", "notFound", "pause"}
    BY <1>3 DEF FetchSnapshot, ResultOf
  <2> QED BY <1>1, <1>3, <2>1 DEF FetchSnapshot
<1>4. CASE Pause
  BY <1>0, <1>4 DEF Pause, CappedDelay, Least
<1>5. CASE SendHeartbeat
  BY <1>1, <1>5 DEF SendHeartbeat
<1>6. CASE Heartbeat
  BY <1>0, <1>6 DEF Heartbeat, NextInterval, Most
<1>7. CASE PollAgain
  <2>1. delay' \in 0 .. 20
    BY <1>7 DEF PollAgain, NextDelay, Least
  <2> QED BY <1>1, <1>7, <2>1 DEF PollAgain
<1>8. CASE Ends
  BY <1>8 DEF Ends
<1>9. CASE UNCHANGED awaitVars
  BY <1>9 DEF awaitVars
<1> QED BY <1>2, <1>3, <1>4, <1>5, <1>6, <1>7, <1>8, <1>9 DEF AwaitNext

(* The values of the poll have their types at every step.                  *)
THEOREM AwaitTypeCorrect == AwaitSpec => []AwaitTypeOK
BY AwaitInitTypes, AwaitStep, PTL DEF AwaitSpec

-----------------------------------------------------------------------------
(* What is left of the timeout at each step.                               *)
WithinTimeout ==
  /\ step = "off" => elapsed = 0
  /\ step = "timeout" => elapsed >= timeout
  /\ timeout # Infinity =>
       /\ step = "fetch" => elapsed <= timeout + 2 * QueryTime
       /\ step = "beat" => elapsed + delay <= timeout
       /\ step = "extend" => elapsed + delay <= timeout + QueryTime
       /\ step = "sleep" => elapsed + delay <= timeout + 2 * QueryTime
       /\ elapsed <= timeout + 3 * QueryTime

(* A call times out no sooner than asked, and late by one heartbeat and    *)
(* one fetch at most, for every timeout and query time.                    *)
THEOREM TimesOutInTime == AwaitSpec => []TimeoutHonoured
<1> USE AwaitAssumption
<1>1. AwaitInit => WithinTimeout
  BY DEF AwaitInit, WithinTimeout
<1>2. AwaitTypeOK /\ WithinTimeout /\ [AwaitNext]_awaitVars => WithinTimeout'
  <2> SUFFICES ASSUME AwaitTypeOK, WithinTimeout, [AwaitNext]_awaitVars PROVE WithinTimeout'
    OBVIOUS
  <2> USE DEF WithinTimeout
  <2>0. timeout \in Int /\ elapsed \in Nat /\ delay \in Nat /\ Infinity \in Int /\ QueryTime \in Nat
        /\ (timeout # Infinity => timeout \in Nat)
    BY DEF AwaitTypeOK, MaxDelay
  <2>2. CASE AwaitTaskResult
    BY <2>0, <2>2 DEF AwaitTaskResult
  <2>3. CASE FetchSnapshot
    <3>1. step' \in {"snapshot", "notFound", "pause"}
      BY <2>3 DEF FetchSnapshot, ResultOf, AwaitTypeOK
    <3>2. PICK d \in 0 .. QueryTime : Pass(d)
      BY <2>3 DEF FetchSnapshot
    <3> QED BY <2>0, <2>3, <3>1, <3>2 DEF FetchSnapshot, Pass
  <2>4. CASE Pause
    <3>1. CASE timeout <= elapsed
      BY <2>0, <2>4, <3>1 DEF Pause
    <3>2. CASE ~(timeout <= elapsed)
      BY <2>0, <2>4, <3>2 DEF Pause, CappedDelay, Least
    <3> QED BY <3>1, <3>2
  <2>5. CASE SendHeartbeat
    <3>1. PICK d \in 0 .. QueryTime : Pass(d)
      BY <2>5 DEF SendHeartbeat
    <3> QED BY <2>0, <2>5, <3>1 DEF SendHeartbeat, Pass
  <2>6. CASE Heartbeat
    BY <2>0, <2>6 DEF Heartbeat
  <2>7. CASE PollAgain
    BY <2>0, <2>7 DEF PollAgain, Pass
  <2>8. CASE Ends
    BY <2>8 DEF Ends
  <2>9. CASE UNCHANGED awaitVars
    BY <2>9 DEF awaitVars
  <2> QED BY <2>2, <2>3, <2>4, <2>5, <2>6, <2>7, <2>8, <2>9 DEF AwaitNext
<1>3. WithinTimeout => TimeoutHonoured
  BY DEF WithinTimeout, TimeoutHonoured
<1> QED BY <1>1, <1>2, <1>3, AwaitTypeCorrect, PTL DEF AwaitSpec

-----------------------------------------------------------------------------
(* What is left of the lease at each step: until the next heartbeat is     *)
(* due, one delay and two queries more than it takes until then.           *)
LeaseCovers ==
  within /\ Covers(slack) /\ Covers(claim) =>
    /\ lease > 0
    /\ step = "off" => lease = slack
    /\ step \in {"fetch", "pause", "sleep"} /\ nextBeat > 0
         => lease > nextBeat + MaxDelay + 2 * QueryTime
    /\ step = "fetch" /\ nextBeat = 0 => lease > 1 + 2 * QueryTime
    /\ step = "sleep" => nextBeat > 0
    /\ step \in {"pause", "beat"} => lease > 1 + QueryTime
    /\ step = "extend" => lease > 1

(* A run that waits for a result keeps its lease, for every claimTimeout   *)
(* that outlasts an interval, the longest delay and three queries, if that *)
(* much is left when the call is made.                                     *)
THEOREM LeaseIsKept == AwaitSpec => []LeaseKept
<1> USE AwaitAssumption
<1>1. AwaitInit => LeaseCovers
  <2> SUFFICES ASSUME AwaitInit PROVE LeaseCovers
    OBVIOUS
  <2>1. slack \in Int /\ slack > 0 /\ lease = slack /\ step = "off"
    BY DEF AwaitInit
  <2> QED BY <2>1 DEF LeaseCovers
<1>2. AwaitTypeOK /\ LeaseCovers /\ [AwaitNext]_awaitVars => LeaseCovers'
  <2> SUFFICES ASSUME AwaitTypeOK, LeaseCovers, [AwaitNext]_awaitVars,
                      within', Covers(slack)', Covers(claim)'
               PROVE  LeaseCovers'
    BY DEF LeaseCovers
  <2> DEFINE H == HeartbeatInterval(claim)
  <2>a. within' = within /\ slack' = slack /\ claim' = claim
    BY DEF AwaitNext, AwaitTaskResult, FetchSnapshot, Pause, SendHeartbeat, Heartbeat, PollAgain, Ends, awaitVars
  <2>b. /\ H \in Nat /\ H >= 10 /\ claim \in Nat /\ slack \in Nat /\ lease \in Nat
        /\ nextBeat \in Nat /\ delay \in 0 .. 20 /\ QueryTime \in Nat
    BY IntervalPositive DEF AwaitTypeOK, MaxDelay
  <2>c. within /\ slack > H + 20 + 3 * QueryTime /\ claim > H + 20 + 3 * QueryTime
    BY <2>a DEF Covers, MaxDelay
  <2>d. within /\ Covers(slack) /\ Covers(claim)
    BY <2>c DEF Covers, MaxDelay
  <2>e. ASSUME NEW d \in Nat, Pass(d)
        PROVE  /\ nextBeat' = IF nextBeat > d THEN nextBeat - d ELSE 0
               /\ lease' = IF lease > d THEN lease - d ELSE 0
    BY <2>b, <2>e DEF Pass, Most
  <2> HIDE DEF H
  <2> USE DEF LeaseCovers, MaxDelay
  <2>2. CASE AwaitTaskResult
    BY <2>b, <2>c, <2>d, <2>2 DEF AwaitTaskResult, H
  <2>3. CASE FetchSnapshot
    <3>1. step = "fetch" /\ step' \in {"snapshot", "notFound", "pause"}
      BY <2>3 DEF FetchSnapshot, ResultOf, AwaitTypeOK
    <3>2. PICK d \in 0 .. QueryTime : Pass(d)
      BY <2>3 DEF FetchSnapshot
    <3>3. /\ nextBeat' = IF nextBeat > d THEN nextBeat - d ELSE 0
          /\ lease' = IF lease > d THEN lease - d ELSE 0
      BY <2>e, <3>2
    <3>4. lease' > 1 + QueryTime
      BY <2>b, <2>d, <3>1, <3>3
    <3>5. nextBeat' > 0 => lease' > nextBeat' + 20 + 2 * QueryTime
      BY <2>b, <2>d, <3>1, <3>3
    <3> QED BY <2>b, <3>1, <3>3, <3>4, <3>5
  <2>4. CASE Pause
    <3>1. step = "pause" /\ UNCHANGED <<lease, nextBeat>>
      BY <2>4 DEF Pause
    <3>2. step' \in {"timeout", "beat"} \/ (step' = "sleep" /\ nextBeat # 0)
      BY <2>4, <2>d DEF Pause, HeartbeatDue
    <3> QED BY <2>b, <2>d, <3>1, <3>2
  <2>5. CASE SendHeartbeat
    <3>1. PICK d \in 0 .. QueryTime : Pass(d)
      BY <2>5 DEF SendHeartbeat
    <3>2. lease' \in Nat /\ lease' > 1
      BY <2>b, <2>d, <2>e, <2>5, <3>1 DEF SendHeartbeat
    <3> QED BY <2>5, <3>2 DEF SendHeartbeat
  <2>6. CASE Heartbeat
    <3>1. CASE step' = "failed"
      <4>1. lease' > 0
        BY <2>b, <2>c, <2>d, <2>6, <3>1 DEF Heartbeat
      <4> QED BY <3>1, <4>1
    <3>2. CASE step' # "failed"
      <4>1. PICK d \in 0 .. QueryTime : step' = "sleep" /\ lease' = Most(0, claim - d) /\ nextBeat' = H
        BY <2>6, <3>2 DEF Heartbeat, NextInterval, H
      <4> QED BY <2>b, <2>c, <4>1 DEF Most
    <3> QED BY <3>1, <3>2
  <2>7. CASE PollAgain
    <3>1. step = "sleep" /\ step' = "fetch" /\ Pass(delay)
      BY <2>7 DEF PollAgain
    <3>2. /\ nextBeat' = IF nextBeat > delay THEN nextBeat - delay ELSE 0
          /\ lease' = IF lease > delay THEN lease - delay ELSE 0
      BY <2>b, <2>e, <3>1
    <3> QED BY <2>b, <2>d, <3>1, <3>2
  <2>8. CASE Ends
    BY <2>8, <2>d DEF Ends
  <2>9. CASE UNCHANGED awaitVars
    BY <2>9, <2>d DEF awaitVars
  <2> QED BY <2>2, <2>3, <2>4, <2>5, <2>6, <2>7, <2>8, <2>9 DEF AwaitNext
<1>3. LeaseCovers => LeaseKept
  BY DEF LeaseCovers, LeaseKept
<1> QED BY <1>1, <1>2, <1>3, AwaitTypeCorrect, PTL DEF AwaitSpec
-----------------------------------------------------------------------------
(* The client.  What a call carries (CallRecord, Carries) is what its task *)
(* will be (TaskRecord, AsAsked), whatever happens to the registry while   *)
(* the call is suspended; the storage that the first statement of          *)
(* createQueue has found stays until the queue is dropped (HalfMade).      *)

TaskRecord ==
  [name : Name, queue : Queue, state : TaskState \cup {"dropped"}, asked : SpawnOptions,
   was : Registration \cup {undefined}, maxAttempts : Nat \cup {undefined},
   cancellation : {undefined, "policy"}, key : {undefined, "key"}]
CreateCall ==
  [op : {"createQueue"}, at : {"query", "policy"} \cup Free, queue : Queue, options : Creations,
   dropped : BOOLEAN]
PolicyCall == [op : {"setQueuePolicy"}, at : {"policy"} \cup Free, queue : Queue, options : Creations]
SpawnCall ==
  [op : {"spawn"}, at : {"hook", "query"} \cup Free, name : Name, queue : Queue, options : SpawnOptions,
   asked : SpawnOptions, was : Registration \cup {undefined}]
CallRecord == [op : {"none"}, at : Free] \cup CreateCall \cup PolicyCall \cup SpawnCall

ClientTypes ==
  /\ registry \in [Name -> Registration \cup {undefined}] /\ hook \in Hooks
  /\ call \in [Caller -> CallRecord]
  /\ queues \in [Queue -> StoredQueue \cup {undefined}]
  /\ tasks \in Seq(TaskRecord)
  /\ calls \in 0 .. MaxCalls /\ failures \in 0 .. MaxFailures

QueueFor(was, asked) == IF was = undefined THEN asked.queue ELSE was.queue
Carries(k) ==
  /\ k.queue = QueueFor(k.was, k.asked)
  /\ k.options.maxAttempts = undefined => hook = "replaces"
  /\ hook # "replaces" => k.options.idempotencyKey = k.asked.idempotencyKey
HalfMade(k) ==
  k.at = "policy" =>
    \/ k.dropped
    \/ queues[k.queue] # undefined /\ queues[k.queue].storageMode = k.options.storageMode
CallOK(k) ==
  /\ k.op = "spawn" => Carries(k) /\ (k.at = "hook" => hook # "none")
  /\ k.op = "createQueue" => HalfMade(k)

AsAsked(t) ==
  /\ t.queue = QueueFor(t.was, t.asked)
  /\ t.maxAttempts = undefined => hook = "replaces"
  /\ hook # "replaces" => t.key = t.asked.idempotencyKey
  /\ t.state = "failed" => t.maxAttempts # undefined

ClientInv ==
  /\ ClientTypes
  /\ \A c \in Caller : CallOK(call[c])
  /\ \A i \in DOMAIN tasks : AsAsked(tasks[i])
  /\ KeyedOnce

(* A step of a call changes how far it is, and no other field of it.       *)
LEMMA AtChanges ==
  ASSUME NEW k \in CallRecord, NEW at, NEW m, m = [k EXCEPT !.at = at],
         at \in Free \/ (at = "policy" /\ k.op = "createQueue")
  PROVE  /\ m \in CallRecord /\ m.op = k.op /\ m.at = at
         /\ k.op = "spawn" => /\ m.queue = k.queue /\ m.options = k.options
                              /\ m.asked = k.asked /\ m.was = k.was
         /\ k.op = "createQueue" =>
              m.queue = k.queue /\ m.options = k.options /\ m.dropped = k.dropped
<1>1. CASE k \in [op : {"none"}, at : Free]
  BY <1>1 DEF CallRecord
<1>2. CASE k \in CreateCall
  BY <1>2 DEF CallRecord, CreateCall
<1>3. CASE k \in PolicyCall
  BY <1>3 DEF CallRecord, PolicyCall
<1>4. CASE k \in SpawnCall
  BY <1>4 DEF CallRecord, SpawnCall
<1> QED BY <1>1, <1>2, <1>3, <1>4 DEF CallRecord

(* A caller that is busy is at a statement of its own operation.           *)
LEMMA CallKinds ==
  ASSUME NEW k \in CallRecord
  PROVE  /\ k.op = "createQueue" => k \in CreateCall
         /\ k.op = "spawn" => k \in SpawnCall
         /\ k.at = "hook" => k \in SpawnCall
         /\ k.at = "policy" => k \in CreateCall \cup PolicyCall
BY DEF CallRecord, CreateCall, PolicyCall, SpawnCall, Free

(* Only the call of one caller changes, and it still carries what its task *)
(* will be.                                                                *)
LEMMA CallChanges ==
  ASSUME ClientInv, NEW c \in Caller, NEW k \in CallRecord, CallOK(k),
         call' = [call EXCEPT ![c] = k],
         UNCHANGED <<registry, hook, queues, tasks>>,
         calls' \in 0 .. MaxCalls, failures' \in 0 .. MaxFailures
  PROVE  ClientInv'
<1>1. ClientTypes'
  BY DEF ClientInv, ClientTypes
<1>2. ASSUME NEW d \in Caller PROVE CallOK(call[d])'
  <2>1. call'[d] = IF d = c THEN k ELSE call[d]
    BY DEF ClientInv, ClientTypes
  <2>2. CASE d = c
    BY <2>1, <2>2 DEF CallOK, Carries, HalfMade
  <2>3. CASE d # c
    BY <2>1, <2>3 DEF ClientInv, CallOK, Carries, HalfMade
  <2> QED BY <2>2, <2>3
<1>3. (\A i \in DOMAIN tasks : AsAsked(tasks[i]))' /\ KeyedOnce'
  BY DEF ClientInv, AsAsked, KeyedOnce
<1> QED BY <1>1, <1>2, <1>3 DEF ClientInv

(* The counters of a step that begins a call, and of one that fails.       *)
LEMMA CountersFall ==
  ASSUME ClientInv
  PROVE  /\ calls > 0 => calls - 1 \in 0 .. MaxCalls
         /\ failures > 0 => failures - 1 \in 0 .. MaxFailures
         /\ calls \in 0 .. MaxCalls /\ failures \in 0 .. MaxFailures
BY ClientAssumption DEF ClientInv, ClientTypes

LEMMA ClientInitInv == ClientInit => ClientInv
<1> SUFFICES ASSUME ClientInit PROVE ClientInv
  OBVIOUS
<1>1. ClientTypes
  <2>1. queues \in [Queue -> StoredQueue \cup {undefined}]
    BY ClientAssumption DEF ClientInit, StoredQueue
  <2>2. call \in [Caller -> CallRecord]
    BY DEF ClientInit, CallRecord, Free
  <2> QED BY <2>1, <2>2, ClientAssumption DEF ClientInit, ClientTypes
<1>2. \A c \in Caller : CallOK(call[c])
  BY DEF ClientInit, CallOK
<1>3. DOMAIN tasks = {}
  BY DEF ClientInit
<1> QED BY <1>1, <1>2, <1>3 DEF ClientInv, KeyedOnce

(* A registration changes no call that has begun.                          *)
LEMMA RegisterInv ==
  ASSUME ClientInv, NEW n \in Name, NEW o \in Registrations, RegisterTask(n, o)
  PROVE  ClientInv'
<1>1. [o EXCEPT !.queue = Or(@, Home)] \in Registration
  BY ClientAssumption DEF Or, Registration
<1>2. ClientTypes'
  BY <1>1, CountersFall DEF RegisterTask, ClientInv, ClientTypes
<1> QED
  BY <1>2 DEF RegisterTask, ClientInv, CallOK, Carries, HalfMade, AsAsked, KeyedOnce

(* What a call of spawn is sent with: the limit is set, the key as given.  *)
LEMMA EffectiveOptionsAre ==
  ASSUME NEW r \in Registration \cup {undefined}, NEW o \in SpawnOptions
  PROVE  /\ EffectiveOptions(r, o) \in SpawnOptions
         /\ EffectiveOptions(r, o).maxAttempts # undefined
         /\ EffectiveOptions(r, o).idempotencyKey = o.idempotencyKey
<1>1. PICK x, y :
        /\ x = Or(o.maxAttempts, Or(IF r = undefined THEN undefined ELSE r.defaultMaxAttempts, DefaultMaxAttempts))
        /\ y = Or(o.cancellation, IF r = undefined THEN undefined ELSE r.defaultCancellation)
  OBVIOUS
<1>2. x \in Nat
  BY <1>1, ClientAssumption DEF Or, Registration, SpawnOptions
<1>3. y \in {undefined, "policy"}
  BY <1>1 DEF Or, Registration, SpawnOptions
<1>4. EffectiveOptions(r, o) = [o EXCEPT !.maxAttempts = x, !.cancellation = y]
  BY <1>1 DEF EffectiveOptions, SpawnOptions
<1> QED BY ZenonT(120), <1>2, <1>3, <1>4, ClientAssumption DEF SpawnOptions

(* A call begins with what is registered when it does.                     *)
LEMMA BeginsInv ==
  ASSUME ClientInv, NEW c \in Caller,
         \/ \E q \in Queue, o \in Creations : BeginCreateQueue(c, q, o) \/ BeginSetQueuePolicy(c, q, o)
         \/ \E n \in Name, o \in Spawnings : BeginSpawn(c, n, o)
  PROVE  ClientInv'
<1>1. ASSUME NEW q \in Queue, NEW o \in Creations, BeginCreateQueue(c, q, o) PROVE ClientInv'
  <2>1. PICK k : k = [op |-> "createQueue", at |-> "query", queue |-> q, options |-> o, dropped |-> FALSE]
    OBVIOUS
  <2>2. k \in CallRecord /\ CallOK(k)
    BY <2>1 DEF CallRecord, CreateCall, CallOK, HalfMade
  <2> QED BY <1>1, <2>1, <2>2, CountersFall, CallChanges DEF BeginCreateQueue, Begins
<1>2. ASSUME NEW q \in Queue, NEW o \in Creations, BeginSetQueuePolicy(c, q, o) PROVE ClientInv'
  <2>1. PICK k : k = [op |-> "setQueuePolicy", at |-> "policy", queue |-> q, options |-> o]
    OBVIOUS
  <2>2. k \in CallRecord /\ CallOK(k)
    BY <2>1 DEF CallRecord, PolicyCall, CallOK
  <2> QED BY <1>2, <2>1, <2>2, CountersFall, CallChanges DEF BeginSetQueuePolicy, Begins
<1>3. ASSUME NEW n \in Name, NEW o \in Spawnings, BeginSpawn(c, n, o) PROVE ClientInv'
  <2>1. PICK r : r = registry[n]
    OBVIOUS
  <2>2. r \in Registration \cup {undefined} /\ o \in SpawnOptions
    BY <2>1, ClientAssumption DEF ClientInv, ClientTypes
  <2>3. PICK k : k = [op |-> "spawn", at |-> IF hook = "none" THEN "query" ELSE "hook",
                      name |-> n, queue |-> IF r = undefined THEN o.queue ELSE r.queue,
                      options |-> EffectiveOptions(r, o), asked |-> o, was |-> r]
    OBVIOUS
  <2>4. k.queue \in Queue
    BY <1>3, <2>1, <2>2, <2>3 DEF BeginSpawn, MayRequest, ValidQueueName, Registration
  <2>5. k \in SpawnCall
    BY <2>2, <2>3, <2>4, EffectiveOptionsAre DEF SpawnCall
  <2>6. CallOK(k)
    BY <2>2, <2>3, EffectiveOptionsAre DEF CallOK, Carries, QueueFor
  <2> QED BY <1>3, <2>1, <2>3, <2>5, <2>6, CountersFall, CallChanges DEF BeginSpawn, Begins, CallRecord
<1> QED BY <1>1, <1>2, <1>3

(* What beforeSpawn returns, the target queue is not among it.             *)
LEMMA BeforeSpawnInv ==
  ASSUME ClientInv, NEW c \in Caller, BeforeSpawn(c)
  PROVE  ClientInv'
<1>1. PICK k : k = call[c]
  OBVIOUS
<1>2. k \in SpawnCall /\ Carries(k) /\ hook # "none" /\ k.at = "hook"
  BY <1>1, CallKinds DEF BeforeSpawn, ClientInv, ClientTypes, CallOK, SpawnCall
<1>3. PICK o : o = CASE hook = "headers" -> k.options
                     [] hook = "redirects" -> [k.options EXCEPT !.queue = Home]
                     [] hook = "replaces" -> [f \in DOMAIN k.options |-> undefined]
  OBVIOUS
<1>4. hook \in {"headers", "redirects", "replaces"}
  BY <1>2, ClientAssumption DEF ClientInv, ClientTypes
<1>5. /\ o \in SpawnOptions
      /\ hook # "replaces" => /\ o.maxAttempts = k.options.maxAttempts
                              /\ o.idempotencyKey = k.options.idempotencyKey
  <2>1. k.options \in SpawnOptions
    BY <1>2 DEF SpawnCall
  <2>2. CASE hook = "headers"
    BY <1>3, <2>1, <2>2
  <2>3. CASE hook = "redirects"
    BY <1>3, <2>1, <2>3, ClientAssumption DEF SpawnOptions
  <2>4. CASE hook = "replaces"
    BY <1>3, <2>1, <2>4 DEF SpawnOptions
  <2> QED BY <1>4, <2>2, <2>3, <2>4
<1>6. PICK m : m = [k EXCEPT !.at = "query", !.options = o]
  OBVIOUS
<1>7. /\ m \in SpawnCall /\ m.queue = k.queue /\ m.asked = k.asked /\ m.was = k.was
      /\ m.options = o /\ m.at = "query" /\ m.op = "spawn"
  BY <1>2, <1>5, <1>6 DEF SpawnCall
<1>8. CallOK(m)
  BY <1>2, <1>5, <1>7 DEF CallOK, Carries
<1>9. call' = [call EXCEPT ![c] = m]
  <2>1. call \in [Caller -> CallRecord] /\ call[c] \in SpawnCall
    BY <1>1, <1>2 DEF ClientInv, ClientTypes
  <2>2. CASE hook = "headers"
    BY <1>1, <1>3, <1>6, <2>1, <2>2 DEF BeforeSpawn, SpawnCall
  <2>3. CASE hook = "redirects"
    BY <1>1, <1>3, <1>6, <2>1, <2>3 DEF BeforeSpawn, SpawnCall
  <2>4. CASE hook = "replaces"
    BY <1>1, <1>3, <1>6, <2>1, <2>4 DEF BeforeSpawn, SpawnCall
  <2> QED BY <1>4, <2>2, <2>3, <2>4
<1> QED
  BY <1>7, <1>8, <1>9, CountersFall, CallChanges DEF BeforeSpawn, CallRecord

(* A queue that is defined keeps its storage until it is dropped, so a     *)
(* half-made queue stays one, unless its call is told.                     *)
LEMMA QueueChanges ==
  ASSUME ClientInv, NEW c \in Caller, NEW k \in CallRecord,
         call' = [call EXCEPT ![c] = k],
         queues' \in [Queue -> StoredQueue \cup {undefined}],
         \A q \in Queue : queues[q] # undefined =>
                            queues'[q] # undefined /\ queues'[q].storageMode = queues[q].storageMode,
         CallOK(k)', UNCHANGED <<registry, hook, tasks, calls, failures>>
  PROVE  ClientInv'
<1>1. ClientTypes'
  BY DEF ClientInv, ClientTypes
<1>2. ASSUME NEW d \in Caller PROVE CallOK(call[d])'
  <2>1. call'[d] = IF d = c THEN k ELSE call[d]
    BY DEF ClientInv, ClientTypes
  <2>2. CASE d = c
    BY <2>1, <2>2 DEF CallOK, Carries, HalfMade
  <2>3. CASE d # c
    <3>1. call[d] \in CallRecord /\ CallOK(call[d])
      BY DEF ClientInv, ClientTypes
    <3>2. call[d].op = "createQueue" => call[d].queue \in Queue
      BY <3>1, CallKinds DEF CreateCall
    <3> QED BY <2>1, <2>3, <3>1, <3>2 DEF CallOK, Carries, HalfMade
  <2> QED BY <2>2, <2>3
<1>3. (\A i \in DOMAIN tasks : AsAsked(tasks[i]))' /\ KeyedOnce'
  BY SMTT(60) DEF ClientInv, AsAsked, KeyedOnce
<1> QED BY <1>1, <1>2, <1>3 DEF ClientInv

(* The first statement of createQueue: it goes on to the second only if    *)
(* the queue has the storage that was asked for.                           *)
LEMMA CreateQueueInv ==
  ASSUME ClientInv, NEW c \in Caller, CreateQueue(c)
  PROVE  ClientInv'
<1>1. PICK j : j = call[c]
  OBVIOUS
<1>2. j \in CreateCall
  BY <1>1, CallKinds DEF CreateQueue, ClientInv, ClientTypes
<1> DEFINE q == j.queue
           mode == j.options.storageMode
<1>3. q \in Queue /\ mode \in {"unpartitioned", "partitioned"}
  BY <1>2, ClientAssumption DEF CreateCall
<1>4. queues' = IF queues[q] = undefined
                THEN [queues EXCEPT ![q] = [storageMode |-> mode, policy |-> DefaultPolicy]]
                ELSE queues
  BY <1>1 DEF CreateQueue
<1>5. [storageMode |-> mode, policy |-> DefaultPolicy] \in StoredQueue
  BY <1>3, ClientAssumption DEF StoredQueue
<1>6. /\ queues' \in [Queue -> StoredQueue \cup {undefined}] /\ queues'[q] # undefined
      /\ \A p \in Queue : queues[p] # undefined => queues'[p] = queues[p]
  BY <1>3, <1>4, <1>5, ClientAssumption DEF ClientInv, ClientTypes
<1>7. PICK at : /\ at \in Free \cup {"policy"}
                /\ at = "policy" => queues'[q].storageMode = mode
                /\ call' = [call EXCEPT ![c].at = at]
  BY <1>1 DEF CreateQueue, Goes, Free
<1>8. PICK m : m = [j EXCEPT !.at = at]
  OBVIOUS
<1>9. /\ m \in CreateCall /\ m.queue = q /\ m.options = j.options /\ m.at = at
      /\ m.op = "createQueue" /\ call' = [call EXCEPT ![c] = m]
  BY <1>1, <1>2, <1>7, <1>8 DEF CreateCall, ClientInv, ClientTypes
<1>10. CallOK(m)'
  BY <1>6, <1>7, <1>9 DEF CallOK, HalfMade
<1> HIDE DEF q, mode
<1> QED BY <1>6, <1>9, <1>10, QueueChanges DEF CreateQueue, CallRecord

(* A policy with the fields given is a policy, if it is valid.             *)
LEMMA UpdatedPolicy ==
  ASSUME NEW p \in QueuePolicy, NEW o \in Creations
  PROVE  /\ ValidPolicy(Updated(p, o.policy)) => Updated(p, o.policy) \in QueuePolicy
         /\ \A f \in DOMAIN o.policy : Updated(p, o.policy)[f] = o.policy[f]
<1> DEFINE u == Updated(p, o.policy)
<1>1. DOMAIN p = {"cleanupLimit", "detachMode"} /\ DOMAIN o.policy \subseteq {"cleanupLimit", "detachMode"}
  BY ClientAssumption DEF QueuePolicy
<1>2. \A f \in DOMAIN o.policy : u[f] = o.policy[f]
  BY <1>1 DEF Updated
<1>3. u.cleanupLimit \in Nat /\ u.detachMode \in {"none", "empty"}
  BY <1>1, ClientAssumption DEF Updated, QueuePolicy
<1>4. u = [cleanupLimit |-> u.cleanupLimit, detachMode |-> u.detachMode]
  BY <1>1 DEF Updated
<1> HIDE DEF u
<1>5. u.cleanupLimit >= 1 => u \in QueuePolicy
  BY <1>3, <1>4 DEF QueuePolicy
<1> QED BY <1>2, <1>5 DEF u, ValidPolicy

(* What set_queue_policy stores: the queue's storage, and its policy with  *)
(* the fields given; or nothing.                                           *)
LEMMA PolicyStored ==
  ASSUME ClientInv, NEW c \in Caller, SetQueuePolicy(c)
  PROVE  /\ call[c] \in CreateCall \cup PolicyCall /\ queues[call[c].queue] # undefined
         /\ queues' \in [Queue -> StoredQueue \cup {undefined}]
         /\ \A q \in Queue : queues[q] # undefined =>
              queues'[q] # undefined /\ queues'[q].storageMode = queues[q].storageMode
         /\ \/ Goes(c, "rejected")
            \/ /\ Goes(c, "resolved")
               /\ \A f \in DOMAIN call[c].options.policy :
                    queues'[call[c].queue].policy[f] = call[c].options.policy[f]
<1>1. PICK j : j = call[c]
  OBVIOUS
<1>2. j \in CreateCall \cup PolicyCall
  BY <1>1, CallKinds DEF SetQueuePolicy, ClientInv, ClientTypes
<1>3. j.queue \in Queue /\ j.options \in Creations
  BY <1>2 DEF CreateCall, PolicyCall
<1>4. PICK old : old = queues[j.queue]
  OBVIOUS
<1>5. old # undefined /\ old \in StoredQueue /\ old.policy \in QueuePolicy
  BY <1>1, <1>3, <1>4 DEF SetQueuePolicy, ClientInv, ClientTypes, StoredQueue
<1>6. PICK p : p = Updated(old.policy, j.options.policy)
  OBVIOUS
<1>7. CASE ValidPolicy(p)
  <2>1. Goes(c, "resolved") /\ queues' = [queues EXCEPT ![j.queue].policy = p]
    BY <1>1, <1>4, <1>6, <1>7 DEF SetQueuePolicy
  <2>2. p \in QueuePolicy /\ \A f \in DOMAIN j.options.policy : p[f] = j.options.policy[f]
    BY <1>3, <1>5, <1>6, <1>7, UpdatedPolicy
  <2>3. PICK new : new = [old EXCEPT !.policy = p]
    OBVIOUS
  <2>4. /\ new \in StoredQueue /\ new # undefined /\ new.storageMode = old.storageMode /\ new.policy = p
    BY <1>5, <2>2, <2>3, ClientAssumption DEF StoredQueue
  <2>5. queues' = [queues EXCEPT ![j.queue] = new]
    BY <1>3, <1>4, <2>1, <2>3 DEF ClientInv, ClientTypes
  <2> QED BY <1>1, <1>2, <1>3, <1>4, <1>5, <2>1, <2>2, <2>4, <2>5 DEF ClientInv, ClientTypes
<1>8. CASE ~ValidPolicy(p)
  <2>1. Goes(c, "rejected") /\ queues' = queues
    BY <1>1, <1>4, <1>6, <1>8 DEF SetQueuePolicy
  <2> QED BY <1>1, <1>2, <1>4, <1>5, <2>1 DEF ClientInv, ClientTypes
<1> QED BY <1>7, <1>8

LEMMA SetQueuePolicyInv ==
  ASSUME ClientInv, NEW c \in Caller, SetQueuePolicy(c)
  PROVE  ClientInv'
<1>0. PICK at \in Free : Goes(c, at)
  BY PolicyStored DEF Free
<1>1. PICK j, m : j = call[c] /\ m = [j EXCEPT !.at = at] /\ Goes(c, at)
  BY <1>0
<1>2. j \in CallRecord
  BY <1>1, PolicyStored DEF CallRecord
<1>3. m \in CallRecord /\ m.at = at /\ m.op = j.op
  BY <1>1, <1>2, AtChanges
<1>4. call' = [call EXCEPT ![c] = m]
  BY <1>1 DEF Goes, ClientInv, ClientTypes
<1>5. j.op # "spawn"
  BY <1>1, PolicyStored DEF CreateCall, PolicyCall
<1>6. CallOK(m)'
  BY <1>1, <1>3, <1>5 DEF CallOK, HalfMade, Free
<1> QED BY <1>3, <1>4, <1>6, PolicyStored, QueueChanges DEF SetQueuePolicy

(* dropQueue: its tasks are dropped, and the calls that make it are told.  *)
LEMMA DropQueueInv ==
  ASSUME ClientInv, NEW c \in Caller, NEW q \in Queue, DropQueue(c, q)
  PROVE  ClientInv'
<1>1. UNCHANGED <<registry, hook, failures>> /\ calls' \in 0 .. MaxCalls
  BY CountersFall DEF DropQueue
<1>2. /\ Len(tasks') = Len(tasks) /\ DOMAIN tasks' = DOMAIN tasks
      /\ tasks' \in Seq(TaskRecord)
      /\ \A i \in DOMAIN tasks :
           tasks'[i] = IF tasks[i].queue = q THEN [tasks[i] EXCEPT !.state = "dropped"] ELSE tasks[i]
  <2>1. \A t \in TaskRecord : [t EXCEPT !.state = "dropped"] \in TaskRecord
    BY DEF TaskRecord
  <2>2. tasks \in Seq(TaskRecord)
    BY DEF ClientInv, ClientTypes
  <2> QED BY <2>1, <2>2 DEF DropQueue
<1>3. ASSUME NEW i \in DOMAIN tasks
      PROVE  /\ AsAsked(tasks[i])'
             /\ tasks'[i].queue = tasks[i].queue /\ tasks'[i].asked = tasks[i].asked
             /\ tasks'[i].state # "dropped" => tasks[i].state # "dropped"
  <2>1. tasks[i] \in TaskRecord /\ AsAsked(tasks[i])
    BY DEF ClientInv, ClientTypes
  <2> QED BY <1>1, <1>2, <2>1 DEF AsAsked, TaskRecord
<1>4. KeyedOnce'
  BY <1>1, <1>2, <1>3 DEF ClientInv, KeyedOnce
<1>5. ASSUME NEW d \in Caller
      PROVE  /\ call'[d] \in CallRecord /\ CallOK(call[d])'
  <2>1. PICK k : k = call[d]
    OBVIOUS
  <2>2. k \in CallRecord /\ CallOK(k)
    BY <2>1 DEF ClientInv, ClientTypes
  <2>3. call'[d] = IF d # c /\ k.op = "createQueue" /\ k.queue = q THEN [k EXCEPT !.dropped = TRUE] ELSE k
    BY <2>1 DEF DropQueue
  <2>4. CASE k.op = "createQueue"
    <3>1. k \in CreateCall /\ [k EXCEPT !.dropped = TRUE] \in CreateCall
      BY <2>2, <2>4, CallKinds DEF CreateCall
    <3>2. d = c => k.at \in Free
      BY <2>1 DEF DropQueue
    <3>3. k.queue # q => queues'[k.queue] = queues[k.queue]
      BY DEF DropQueue, ClientInv, ClientTypes
    <3>4. call'[d] \in CallRecord
      BY <2>2, <2>3, <3>1 DEF CallRecord
    <3>5. call'[d].op = "createQueue" /\ HalfMade(call[d])'
      BY <2>2, <2>3, <2>4, <3>1, <3>2, <3>3 DEF CallOK, HalfMade, CreateCall, Free
    <3> QED BY <3>4, <3>5 DEF CallOK
  <2>5. CASE k.op # "createQueue"
    BY <1>1, <2>2, <2>3, <2>5 DEF CallOK, Carries
  <2> QED BY <2>4, <2>5
<1>6. ClientTypes'
  <2>1. call' \in [Caller -> CallRecord]
    BY <1>5 DEF DropQueue
  <2>2. queues' \in [Queue -> StoredQueue \cup {undefined}]
    BY DEF DropQueue, ClientInv, ClientTypes
  <2> QED BY <1>1, <1>2, <2>1, <2>2 DEF ClientInv, ClientTypes
<1> QED BY <1>2, <1>3, <1>4, <1>5, <1>6 DEF ClientInv

(* What is appended to the tasks, and what a task turns into, is as asked. *)
LEMMA TaskAppended ==
  ASSUME ClientInv, NEW t \in TaskRecord, AsAsked(t), t.state = "pending", tasks' = Append(tasks, t),
         \A i \in DOMAIN tasks :
           ~ /\ tasks[i].queue = t.queue /\ tasks[i].state # "dropped"
             /\ hook # "replaces" /\ undefined # t.asked.idempotencyKey
             /\ tasks[i].asked.idempotencyKey = t.asked.idempotencyKey,
         hook' = hook
  PROVE  tasks' \in Seq(TaskRecord) /\ (\A i \in DOMAIN tasks : AsAsked(tasks[i]))' /\ KeyedOnce'
<1>1. tasks \in Seq(TaskRecord)
  BY DEF ClientInv, ClientTypes
<1>2. PICK n \in Nat : n = Len(tasks) /\ DOMAIN tasks = 1 .. n
  BY <1>1
<1>3. /\ tasks' \in Seq(TaskRecord) /\ DOMAIN tasks' = 1 .. n + 1
      /\ tasks'[n + 1] = t /\ \A i \in 1 .. n : tasks'[i] = tasks[i]
  BY <1>1, <1>2
<1>4. ASSUME NEW i \in 1 .. n + 1 PROVE AsAsked(tasks[i])'
  <2>1. CASE i = n + 1
    BY <1>3, <2>1 DEF AsAsked
  <2>2. CASE i # n + 1
    <3>1. i \in 1 .. n /\ AsAsked(tasks[i])
      BY <1>2, <2>2 DEF ClientInv
    <3> QED BY <1>3, <3>1 DEF AsAsked
  <2> QED BY <2>1, <2>2
<1>5. ASSUME NEW i \in 1 .. n + 1, NEW j \in 1 .. n + 1,
             tasks'[i].queue = tasks'[j].queue, "dropped" \notin {tasks'[i].state, tasks'[j].state},
             hook # "replaces", undefined # tasks'[i].asked.idempotencyKey,
             tasks'[i].asked.idempotencyKey = tasks'[j].asked.idempotencyKey
      PROVE  i = j
  <2>1. CASE i = n + 1 /\ j \in 1 .. n
    BY <1>2, <1>3, <1>5, <2>1
  <2>2. CASE j = n + 1 /\ i \in 1 .. n
    BY <1>2, <1>3, <1>5, <2>2
  <2>3. CASE i \in 1 .. n /\ j \in 1 .. n
    BY SMTT(60), <1>2, <1>3, <1>5, <2>3 DEF ClientInv, KeyedOnce
  <2>4. i \in 1 .. n \/ i = n + 1
    BY <1>2
  <2>5. j \in 1 .. n \/ j = n + 1
    BY <1>2
  <2> QED BY <2>1, <2>2, <2>3, <2>4, <2>5
<1>6. KeyedOnce'
  BY <1>3, <1>5 DEF KeyedOnce
<1> QED BY <1>3, <1>4, <1>6

LEMMA TaskTurns ==
  ASSUME ClientInv, NEW k \in DOMAIN tasks, NEW t \in TaskRecord, AsAsked(t),
         t.queue = tasks[k].queue, t.asked = tasks[k].asked, tasks[k].state # "dropped",
         tasks' = [tasks EXCEPT ![k] = t], hook' = hook
  PROVE  tasks' \in Seq(TaskRecord) /\ (\A i \in DOMAIN tasks : AsAsked(tasks[i]))' /\ KeyedOnce'
<1>1. tasks \in Seq(TaskRecord)
  BY DEF ClientInv, ClientTypes
<1>2. /\ tasks' \in Seq(TaskRecord) /\ DOMAIN tasks' = DOMAIN tasks
      /\ \A i \in DOMAIN tasks : tasks'[i] = IF i = k THEN t ELSE tasks[i]
  BY <1>1
<1>3. \A i \in DOMAIN tasks : AsAsked(tasks[i])'
  BY <1>2 DEF ClientInv, AsAsked
<1>4. KeyedOnce'
  BY <1>2 DEF ClientInv, KeyedOnce
<1> QED BY <1>2, <1>3, <1>4

(* No call changes, and the tasks still are as asked.                      *)
LEMMA TasksChange ==
  ASSUME ClientInv, tasks' \in Seq(TaskRecord), (\A i \in DOMAIN tasks : AsAsked(tasks[i]))', KeyedOnce',
         UNCHANGED <<registry, hook, call, queues>>,
         calls' \in 0 .. MaxCalls, failures' \in 0 .. MaxFailures
  PROVE  ClientInv'
<1>1. ClientTypes'
  BY DEF ClientInv, ClientTypes
<1>2. (\A c \in Caller : CallOK(call[c]))'
  BY DEF ClientInv, CallOK, Carries, HalfMade
<1> QED BY <1>1, <1>2 DEF ClientInv

(* spawn_task stores what its call carries, unless its key is known.       *)
LEMMA SpawnInv ==
  ASSUME ClientInv, NEW c \in Caller, Spawn(c)
  PROVE  ClientInv'
<1>1. PICK k, t : k = call[c] /\ t = Stored(k)
  OBVIOUS
<1>2. k \in SpawnCall /\ Carries(k)
  BY <1>1, CallKinds DEF Spawn, ClientInv, ClientTypes, CallOK
<1>3. /\ t = [name |-> k.name, queue |-> k.queue, state |-> "pending", asked |-> k.asked, was |-> k.was,
              maxAttempts |-> k.options.maxAttempts, cancellation |-> k.options.cancellation,
              key |-> k.options.idempotencyKey]
  BY <1>1 DEF Stored, TargetQueue, NormalizedOptions
<1>4. t \in TaskRecord /\ AsAsked(t) /\ t.state = "pending"
  BY <1>2, <1>3 DEF TaskRecord, TaskState, SpawnCall, SpawnOptions, AsAsked, Carries
<1>5. /\ tasks' = IF t.key # undefined /\ Keyed(t.queue, t.key) # {} THEN tasks ELSE Append(tasks, t)
      /\ Goes(c, "resolved") /\ UNCHANGED <<registry, hook, queues, events, calls, failures>>
  BY <1>1 DEF Spawn
<1>6. tasks' \in Seq(TaskRecord) /\ (\A i \in DOMAIN tasks : AsAsked(tasks[i]))' /\ KeyedOnce'
  <2>1. CASE tasks' = tasks
    BY <1>5, <2>1 DEF ClientInv, ClientTypes, AsAsked, KeyedOnce
  <2>2. CASE tasks' = Append(tasks, t) /\ (t.key = undefined \/ Keyed(t.queue, t.key) = {})
    <3>1. ASSUME NEW i \in DOMAIN tasks,
                 tasks[i].queue = t.queue, tasks[i].state # "dropped",
                 hook # "replaces", undefined # t.asked.idempotencyKey,
                 tasks[i].asked.idempotencyKey = t.asked.idempotencyKey
          PROVE  FALSE
      <4>1. t.key = t.asked.idempotencyKey /\ tasks[i].key = tasks[i].asked.idempotencyKey
        BY <1>4, <3>1 DEF ClientInv, AsAsked
      <4> QED BY <2>2, <3>1, <4>1 DEF Keyed
    <3> QED BY <1>4, <1>5, <2>2, <3>1, TaskAppended
  <2> QED BY <1>5, <2>1, <2>2
<1>7. PICK m : m = [k EXCEPT !.at = "resolved"]
  OBVIOUS
<1>8. /\ m \in CallRecord /\ m.op = "spawn" /\ m.at = "resolved"
      /\ m.queue = k.queue /\ m.options = k.options /\ m.asked = k.asked /\ m.was = k.was
      /\ call' = [call EXCEPT ![c] = m]
  BY <1>1, <1>2, <1>5, <1>7 DEF SpawnCall, CallRecord, Free, Goes, ClientInv, ClientTypes
<1>9. ASSUME NEW d \in Caller PROVE CallOK(call[d])'
  <2>1. call'[d] = IF d = c THEN m ELSE call[d]
    BY <1>8 DEF ClientInv, ClientTypes
  <2>2. CASE d = c
    BY <1>2, <1>5, <1>8, <2>1, <2>2 DEF CallOK, Carries
  <2>3. CASE d # c
    BY <1>5, <2>1, <2>3 DEF ClientInv, CallOK, Carries, HalfMade
  <2> QED BY <2>2, <2>3
<1>10. ClientTypes'
  BY <1>5, <1>6, <1>8 DEF ClientInv, ClientTypes
<1> QED BY <1>6, <1>9, <1>10 DEF ClientInv

(* Cancelling, retrying, failing: a task keeps its queue and what was      *)
(* asked; only a task whose attempts are limited fails, so that a retry    *)
(* raises a number.                                                        *)
LEMMA StatementsInv ==
  ASSUME ClientInv, NEW i \in DOMAIN tasks,
         \/ TaskFails(i)
         \/ \E c \in Caller : CancelTask(c, i) \/ \E new \in BOOLEAN : RetryTask(c, i, new)
  PROVE  ClientInv'
<1>1. PICK t : t = tasks[i]
  OBVIOUS
<1>2. t \in TaskRecord /\ AsAsked(t) /\ tasks \in Seq(TaskRecord)
  BY <1>1 DEF ClientInv, ClientTypes
<1>3. /\ UNCHANGED <<registry, hook, call, queues>>
      /\ calls' \in 0 .. MaxCalls /\ failures' \in 0 .. MaxFailures
  BY CountersFall DEF CancelTask, RetryTask, TaskFails, Statement
<1>4. CASE TaskFails(i) \/ \E c \in Caller : CancelTask(c, i)
  <2>1. PICK s \in {"cancelled", "failed"} :
          /\ tasks' = [tasks EXCEPT ![i].state = s] /\ t.state = "pending"
          /\ s = "failed" => t.maxAttempts # undefined
    BY <1>1, <1>4 DEF CancelTask, TaskFails
  <2>2. PICK u : u = [t EXCEPT !.state = s]
    OBVIOUS
  <2>3. u \in TaskRecord /\ AsAsked(u) /\ u.queue = t.queue /\ u.asked = t.asked
    BY SMTT(60), <1>2, <2>1, <2>2 DEF TaskRecord, TaskState, AsAsked
  <2>4. tasks' = [tasks EXCEPT ![i] = u]
    BY <1>1, <1>2, <2>1, <2>2
  <2> QED BY <1>1, <1>3, <2>1, <2>3, <2>4, TaskTurns, TasksChange
<1>5. CASE \E c \in Caller : RetryTask(c, i, TRUE)
  <2>1. PICK u : u = [t EXCEPT !.state = "pending", !.key = undefined, !.asked.idempotencyKey = undefined]
    OBVIOUS
  <2>2. t.asked \in SpawnOptions
    BY <1>2 DEF TaskRecord
  <2>3. u \in TaskRecord /\ u.state = "pending" /\ u.asked = [t.asked EXCEPT !.idempotencyKey = undefined]
        /\ u.queue = t.queue /\ u.was = t.was /\ u.maxAttempts = t.maxAttempts /\ u.key = undefined
    BY ZenonT(120), <1>2, <2>1, <2>2 DEF TaskRecord, TaskState, SpawnOptions
  <2>4. u.asked.queue = t.asked.queue /\ u.asked.idempotencyKey = undefined
    BY <2>2, <2>3 DEF SpawnOptions
  <2>5. AsAsked(u)
    BY <1>2, <2>3, <2>4 DEF AsAsked, QueueFor
  <2>6. tasks' = Append(tasks, u)
    BY <1>1, <1>5, <2>1 DEF RetryTask
  <2> QED BY <1>3, <2>3, <2>4, <2>5, <2>6, TaskAppended, TasksChange
<1>6. CASE \E c \in Caller : RetryTask(c, i, FALSE)
  <2>1. PICK u : u = [t EXCEPT !.state = "pending", !.maxAttempts = @ + 1]
    OBVIOUS
  <2>2. t.state = "failed" /\ t.maxAttempts \in Nat
    BY <1>1, <1>2, <1>6 DEF RetryTask, AsAsked, TaskRecord
  <2>3. u \in TaskRecord /\ u.queue = t.queue /\ u.was = t.was /\ u.asked = t.asked /\ u.key = t.key
        /\ u.maxAttempts = t.maxAttempts + 1 /\ u.state = "pending"
    <3>1. PICK n : n = t.maxAttempts + 1
      OBVIOUS
    <3>2. n \in Nat \cup {undefined}
      BY <2>2, <3>1
    <3>3. u = [t EXCEPT !.state = "pending", !.maxAttempts = n]
      BY <2>1, <3>1
    <3>4. t \in TaskRecord
      BY <1>2
    <3> QED BY <3>1, <3>2, <3>3, <3>4 DEF TaskRecord, TaskState
  <2>4. AsAsked(u)
    BY <1>2, <2>2, <2>3, ClientAssumption DEF AsAsked
  <2>5. tasks' = [tasks EXCEPT ![i] = u]
    BY <1>1, <1>2, <1>6, <2>1 DEF RetryTask
  <2> QED BY <1>1, <1>3, <2>2, <2>3, <2>4, <2>5, TaskTurns, TasksChange
<1> QED BY <1>4, <1>5, <1>6

(* A query that fails, and an answer that is lost, end the call.           *)
LEMMA FailuresInv ==
  ASSUME ClientInv, NEW c \in Caller, QueryFails(c) \/ AnswerLost(c)
  PROVE  ClientInv'
<1>1. PICK k, m : k = call[c] /\ m = [k EXCEPT !.at = "rejected"]
  OBVIOUS
<1>2. k \in CallRecord /\ CallOK(k)
  BY <1>1 DEF ClientInv, ClientTypes
<1>3. call' = [call EXCEPT ![c] = m]
  BY <1>1 DEF QueryFails, AnswerLost, Goes, ClientInv, ClientTypes
<1>4. m \in CallRecord /\ CallOK(m)
  <2>1. "rejected" \in Free
    BY DEF Free
  <2>2. /\ m \in CallRecord /\ m.op = k.op /\ m.at = "rejected"
        /\ k.op = "spawn" => /\ m.queue = k.queue /\ m.options = k.options
                             /\ m.asked = k.asked /\ m.was = k.was
    BY <1>1, <1>2, <2>1, AtChanges
  <2> QED BY <1>2, <2>2 DEF CallOK, Carries, HalfMade
<1>5. /\ UNCHANGED <<registry, hook, queues, tasks>>
      /\ calls' \in 0 .. MaxCalls /\ failures' \in 0 .. MaxFailures
  BY CountersFall DEF QueryFails, AnswerLost
<1> QED BY <1>3, <1>4, <1>5, CallChanges

LEMMA ClientStep ==
  ASSUME ClientInv, [ClientNext]_clientVars
  PROVE  ClientInv'
<1>1. CASE ClientNext
  <2>1. ASSUME NEW n \in Name, NEW o \in Registrations, RegisterTask(n, o) PROVE ClientInv'
    BY <2>1, <1>1, RegisterInv
  <2>2. ASSUME NEW i \in DOMAIN tasks,
               \/ TaskFails(i)
               \/ \E c \in Caller : CancelTask(c, i) \/ \E new \in BOOLEAN : RetryTask(c, i, new)
        PROVE  ClientInv'
    BY <2>2, <1>1, StatementsInv
  <2>3. ASSUME NEW c \in Caller, NEW q \in Queue, DropQueue(c, q) \/ EmitEvent(c, q) PROVE ClientInv'
    <3>1. CASE DropQueue(c, q)
      BY <3>1, <1>1, DropQueueInv
    <3>2. CASE EmitEvent(c, q)
      <4>1. UNCHANGED <<registry, hook, call, queues, tasks>>
            /\ calls' \in 0 .. MaxCalls /\ failures' \in 0 .. MaxFailures
        BY <3>2, <1>1, CountersFall DEF EmitEvent, Statement
      <4>2. tasks' \in Seq(TaskRecord) /\ (\A i \in DOMAIN tasks : AsAsked(tasks[i]))' /\ KeyedOnce'
        BY <4>1, <1>1 DEF ClientInv, ClientTypes, AsAsked, KeyedOnce
      <4> QED BY <4>1, <4>2, <1>1, TasksChange
    <3> QED BY <2>3, <3>1, <3>2
  <2>4. ASSUME NEW c \in Caller, CreateQueue(c) \/ SetQueuePolicy(c) \/ BeforeSpawn(c) \/ Spawn(c)
                                  \/ QueryFails(c) \/ AnswerLost(c)
        PROVE  ClientInv'
    BY <2>4, <1>1, CreateQueueInv, SetQueuePolicyInv, BeforeSpawnInv, SpawnInv, FailuresInv
  <2> QED BY <1>1, <2>1, <2>2, <2>3, <2>4, BeginsInv DEF ClientNext
<1>2. CASE UNCHANGED clientVars
  BY <1>2 DEF clientVars, ClientInv, ClientTypes, CallOK, Carries, HalfMade, AsAsked, KeyedOnce
<1> QED BY <1>1, <1>2

LEMMA ClientInvariant == ClientSpec => []ClientInv
BY ClientInitInv, ClientStep, PTL DEF ClientSpec

(* A task goes to the queue its name was registered for when spawn was     *)
(* called, whatever beforeSpawn returns and whoever registers the name     *)
(* while the call is suspended, for any callers, names and queues.         *)
THEOREM SpawnsGoWhereRegistered == ClientSpec => []SpawnedAsRegistered
<1>1. ClientInv => SpawnedAsRegistered
  BY DEF ClientInv, AsAsked, QueueFor, SpawnedAsRegistered
<1> QED BY <1>1, ClientInvariant, PTL

(* Calls of spawn with one key, repeated after errors or by several        *)
(* callers, make one task in a queue, for any number of them.              *)
THEOREM OneTaskPerKey == ClientSpec => []KeyedOnce
<1>1. ClientInv => KeyedOnce
  BY DEF ClientInv
<1> QED BY <1>1, ClientInvariant, PTL

LEMMA ClientTyped == ClientInv => ClientTypeOK
<1> SUFFICES ASSUME ClientInv PROVE ClientTypeOK
  OBVIOUS
<1>1. \A c \in Caller : call[c].at \in Free \cup {"hook", "query", "policy"}
  BY DEF ClientInv, ClientTypes, CallRecord, CreateCall, PolicyCall, SpawnCall
<1>2. \A i \in 1 .. Len(tasks) : tasks[i] \in TaskRecord
  BY DEF ClientInv, ClientTypes
<1> QED BY <1>1, <1>2 DEF ClientInv, ClientTypes, ClientTypeOK, TaskRecord

(* The variables of the client have their types.                           *)
THEOREM ClientTypeCorrect == ClientSpec => []ClientTypeOK
BY ClientTyped, ClientInvariant, PTL

(* createQueue resolves only with a queue as asked, for any calls that     *)
(* create, change and drop the queue between its two statements.           *)
THEOREM CreatesAsAsked == ClientSpec => CreatedAsAsked
<1>1. ASSUME ClientInv, ClientNext, NEW c \in Caller,
             call[c].op = "createQueue", call[c].at \notin Free, call'[c].at = "resolved"
      PROVE  LET made == queues'[call[c].queue]
                 asked == call[c].options
             IN /\ made # undefined
                /\ \A f \in DOMAIN asked.policy : made.policy[f] = asked.policy[f]
                /\ made.storageMode = asked.storageMode \/ call[c].dropped
  <2>0. PICK k : k = call[c]
    OBVIOUS
  <2>1. /\ k \in CreateCall /\ CallOK(k) /\ k.at \in {"query", "policy"} /\ k.queue \in Queue
        /\ DOMAIN call = Caller
    BY <1>1, <2>0, CallKinds DEF ClientInv, ClientTypes, CreateCall
  <2>2. CreateQueue(c) \/ SetQueuePolicy(c)
    <3>1. ASSUME NEW d \in Caller, NEW at, Goes(d, at), d # c \/ at # "resolved" PROVE FALSE
      BY <1>1, <2>0, <2>1, <3>1 DEF Goes, Free, ClientInv, ClientTypes, CreateCall
    <3>2. ASSUME NEW d \in Caller, NEW k2, call' = [call EXCEPT ![d] = k2], d # c PROVE FALSE
      BY <1>1, <2>0, <2>1, <3>2 DEF Free
    <3>3. ASSUME NEW n \in Name, NEW o \in Registrations, RegisterTask(n, o) PROVE FALSE
      BY <1>1, <3>3 DEF RegisterTask, Free
    <3>4. ASSUME NEW i \in DOMAIN tasks,
                 \/ TaskFails(i)
                 \/ \E d \in Caller : CancelTask(d, i) \/ \E new \in BOOLEAN : RetryTask(d, i, new)
          PROVE  FALSE
      BY <1>1, <3>4 DEF TaskFails, CancelTask, RetryTask, Statement, Free
    <3>5. ASSUME NEW d \in Caller, NEW q \in Queue, DropQueue(d, q) \/ EmitEvent(d, q) PROVE FALSE
      <4>1. CASE EmitEvent(d, q)
        BY <1>1, <4>1 DEF EmitEvent, Statement, Free
      <4>2. CASE DropQueue(d, q)
        <5>1. call'[c] = k \/ call'[c] = [k EXCEPT !.dropped = TRUE]
          BY <2>0, <4>2 DEF DropQueue
        <5>2. call'[c].at = k.at
          BY <2>1, <5>1 DEF CreateCall
        <5> QED BY <1>1, <2>0, <5>2 DEF Free
      <4> QED BY <3>5, <4>1, <4>2
    <3>6. ASSUME NEW d \in Caller,
                 \/ \E q \in Queue, o \in Creations : BeginCreateQueue(d, q, o) \/ BeginSetQueuePolicy(d, q, o)
                 \/ \E n \in Name, o \in Spawnings : BeginSpawn(d, n, o)
          PROVE  FALSE
      <4>1. \E k2 : call[d].at \in Free /\ call' = [call EXCEPT ![d] = k2]
        BY <3>6 DEF BeginCreateQueue, BeginSetQueuePolicy, BeginSpawn, Begins
      <4>2. d # c
        BY <1>1, <4>1
      <4> QED BY <3>2, <4>1, <4>2
    <3>7. ASSUME NEW d \in Caller, BeforeSpawn(d) PROVE FALSE
      <4>1. d # c
        BY <2>0, <2>1, <3>7 DEF BeforeSpawn
      <4> QED BY <1>1, <2>0, <2>1, <3>7, <4>1 DEF BeforeSpawn, Free
    <3>8. ASSUME NEW d \in Caller, Spawn(d) \/ QueryFails(d) \/ AnswerLost(d) PROVE FALSE
      <4>1. CASE Spawn(d)
        <5>1. d # c /\ Goes(d, "resolved")
          BY <1>1, <4>1 DEF Spawn
        <5> QED BY <3>1, <5>1
      <4>2. CASE QueryFails(d) \/ AnswerLost(d)
        BY <3>1, <4>2 DEF QueryFails, AnswerLost
      <4> QED BY <3>8, <4>1, <4>2
    <3>9. ASSUME NEW d \in Caller, CreateQueue(d) \/ SetQueuePolicy(d) PROVE d = c
      <4>1. \E at : Goes(d, at)
        BY <3>9, PolicyStored, <1>1 DEF CreateQueue
      <4> QED BY <3>1, <4>1
    <3> QED BY <1>1, <3>3, <3>4, <3>5, <3>6, <3>7, <3>8, <3>9 DEF ClientNext
  <2>3. CASE CreateQueue(c)
    <3>1. /\ queues' = IF queues[k.queue] = undefined
                       THEN [queues EXCEPT ![k.queue] = [storageMode |-> k.options.storageMode, policy |-> DefaultPolicy]]
                       ELSE queues
          /\ Goes(c, IF queues'[k.queue].storageMode # k.options.storageMode THEN "rejected"
                     ELSE IF DOMAIN k.options.policy # {} THEN "policy" ELSE "resolved")
      BY <2>0, <2>3 DEF CreateQueue, SendsPolicy
    <3>2. call'[c].at = IF queues'[k.queue].storageMode # k.options.storageMode THEN "rejected"
                        ELSE IF DOMAIN k.options.policy # {} THEN "policy" ELSE "resolved"
      BY <2>0, <2>1, <3>1 DEF Goes, CreateCall
    <3>3. queues'[k.queue].storageMode = k.options.storageMode /\ DOMAIN k.options.policy = {}
      BY <1>1, <3>2
    <3>4. [storageMode |-> k.options.storageMode, policy |-> DefaultPolicy] # undefined
      <4>1. k.options.storageMode \in {"unpartitioned", "partitioned"}
        BY <2>1, ClientAssumption DEF CreateCall
      <4> QED BY <4>1, ClientAssumption DEF StoredQueue
    <3>5. queues'[k.queue] # undefined
      BY <2>1, <3>1, <3>4, <1>1 DEF ClientInv, ClientTypes
    <3> QED BY <2>0, <3>3, <3>5
  <2>4. CASE SetQueuePolicy(c)
    <3>1. /\ queues'[k.queue] # undefined /\ queues[k.queue] # undefined
          /\ queues'[k.queue].storageMode = queues[k.queue].storageMode
      BY <1>1, <2>0, <2>1, <2>4, PolicyStored
    <3>2. k.at = "policy" /\ k.op = "createQueue"
      BY <1>1, <2>0, <2>4 DEF SetQueuePolicy
    <3>3. ~Goes(c, "rejected")
      BY <1>1, <2>0, <2>1 DEF Goes, CreateCall
    <3>4. \A f \in DOMAIN k.options.policy : queues'[k.queue].policy[f] = k.options.policy[f]
      BY <1>1, <2>0, <2>4, <3>3, PolicyStored
    <3> QED BY <2>0, <2>1, <3>1, <3>2, <3>4 DEF CallOK, HalfMade
  <2> QED BY <2>2, <2>3, <2>4
<1>2. ClientInv /\ [ClientNext]_clientVars =>
        [\A c \in Caller :
           call[c].op = "createQueue" /\ call[c].at \notin Free /\ call'[c].at = "resolved" =>
             LET made == queues'[call[c].queue]
                 asked == call[c].options
             IN /\ made # undefined
                /\ \A f \in DOMAIN asked.policy : made.policy[f] = asked.policy[f]
                /\ made.storageMode = asked.storageMode \/ call[c].dropped]_clientVars
  BY <1>1
<1> QED BY <1>2, ClientInvariant, PTL DEF CreatedAsAsked, ClientSpec

-----------------------------------------------------------------------------
(* The three together: each step is one of them, and the others stay.      *)

SdkInv == WorkerInv /\ Queued /\ Kinds /\ ClientInv /\ AwaitTypeOK

LEMMA SdkInvariant == Spec => []SdkInv
<1>1. SdkInit => SdkInv
  <2>1. SdkInit => WorkerInit /\ ClientInit /\ AwaitInit
    BY DEF SdkInit, WorkerOff, ClientOff, AwaitOff
  <2>2. AwaitInit => AwaitTypeOK
    BY AwaitInitTypes
  <2> QED BY <2>1, <2>2, WorkerInitInv, WorkerInitTypes, ClientInitInv DEF SdkInv
<1>2. SdkInv /\ [SdkNext]_sdkVars => SdkInv'
  <2> SUFFICES ASSUME SdkInv, [SdkNext]_sdkVars PROVE SdkInv'
    OBVIOUS
  <2>1. [WorkerNext]_workerVars /\ [ClientNext]_clientVars /\ [AwaitNext]_awaitVars
    BY DEF SdkNext, sdkVars
  <2> QED BY <2>1, WorkerStep, WorkerStaysTyped, ClientStep, AwaitStep DEF SdkInv
<1> QED BY <1>1, <1>2, PTL DEF Spec

(* The variables of worker, client and poll have their types together.     *)
THEOREM SdkTypeCorrect == Spec => []SdkTypeOK
<1>1. SdkInv => SdkTypeOK
  BY WorkerTyped, ClientTyped DEF SdkInv, SdkTypeOK
<1> QED BY <1>1, SdkInvariant, PTL
=============================================================================
