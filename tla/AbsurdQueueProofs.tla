------------------------- MODULE AbsurdQueueProofs -------------------------
(***************************************************************************)
(* Proofs about AbsurdQueue.  The inductive invariant IInv says that the   *)
(* tables t_ and r_ are Sound, that is, each task row mirrors its last run *)
(* and all its earlier runs have failed, and types the other tables.       *)
(* Soundness is stated of tables passed as arguments, so that the lemmas   *)
(* can follow the intermediate tables of one claim_task.                   *)
(***************************************************************************)
EXTENDS AbsurdQueue, FiniteSetTheorems, TLAPS

(* The types of the two tables, what it takes for a run row to belong to a *)
(* task row, and for a task row to mirror its last run.                    *)
TaskTable == [Task -> TaskRow \union {NoTask, GoneTask}]
RunTable == [RunId -> RunRow \union {NoRun}]

Placed(tk, rn, r) ==
  /\ tk[rn[r].task].state \in State
  /\ rn[r].attempt \in 1 .. r
  /\ r # tk[rn[r].task].last_attempt_run => rn[r].state = "failed"
Mirrored(tk, rn, t) ==
  LET last == tk[t].last_attempt_run IN
  /\ rn[last].state \in State
  /\ rn[last].task = t
  /\ rn[last].attempt = tk[t].attempts
  /\ rn[last].state = tk[t].state \/ (rn[last].state = "failed" /\ tk[t].state = "cancelled")

Sound(tk, rn, next) ==
  /\ tk \in TaskTable
  /\ rn \in RunTable
  /\ next \in 1 .. MaxRuns + 1
  /\ \A r \in RunId : r >= next => rn[r] = NoRun
  /\ \A r \in RunId : rn[r].state \in State => Placed(tk, rn, r)
  /\ \A t \in Task : tk[t].state \in State => Mirrored(tk, rn, t)

(* The states of a row, and those of a row that is not there.              *)
LEMMA StateFacts ==
  /\ NoTask.state = "absent" /\ GoneTask.state = "deleted" /\ NoRun.state = "absent"
  /\ "absent" \notin State /\ "deleted" \notin State
  /\ Active \subseteq State /\ Terminal \subseteq State
BY DEF NoTask, GoneTask, NoRun, State, Active, Terminal

(* An existing row has the type of its table.                              *)
LEMMA Rows ==
  ASSUME NEW tk \in TaskTable, NEW rn \in RunTable
  PROVE  /\ \A t \in Task : tk[t].state \in State => tk[t] \in TaskRow
         /\ \A r \in RunId : rn[r].state \in State => rn[r] \in RunRow
BY StateFacts DEF TaskTable, RunTable

(* RunIn finds the run of a task when a set holds one run per task.        *)
LEMMA Choice ==
  ASSUME NEW rn, NEW S, NEW r \in S,
         \A q \in S : rn[q].task = rn[r].task => q = r
  PROVE  RunIn(rn, S, rn[r].task) = r
BY DEF RunIn

(* An active run is the last run of its task. *)
LEMMA ActiveIsLast ==
  ASSUME NEW tk, NEW rn, NEW next, Sound(tk, rn, next),
         NEW r \in RunId, rn[r].state \in Active
  PROVE  /\ rn[r] \in RunRow /\ rn[r].task \in Task /\ rn[r].attempt \in 1 .. r
         /\ tk[rn[r].task] \in TaskRow
         /\ r = tk[rn[r].task].last_attempt_run
         /\ rn[r].attempt = tk[rn[r].task].attempts
         /\ tk[rn[r].task].state = rn[r].state
<1>1. rn[r].state \in State /\ rn[r].state # "failed"
  BY DEF Active, State
<1>2. rn[r] \in RunRow /\ rn[r].task \in Task
  BY <1>1, Rows DEF Sound, RunRow
<1>3. Placed(tk, rn, r)
  BY <1>1 DEF Sound
<1>4. /\ tk[rn[r].task] \in TaskRow /\ Mirrored(tk, rn, rn[r].task)
      /\ r = tk[rn[r].task].last_attempt_run
  BY <1>1, <1>2, <1>3, Rows DEF Sound, Placed
<1> QED BY <1>1, <1>2, <1>3, <1>4 DEF Placed, Mirrored

(* The runs of M and their tasks move together to the state st: the runs   *)
(* are active and keep what identifies them; nothing else changes.         *)
MoveTogether(tk, rn, tk2, rn2, M, st) ==
  /\ tk2 = [t \in Task |-> tk2[t]] /\ rn2 = [r \in RunId |-> rn2[r]]
  /\ M \subseteq RunId /\ st \in State
  /\ \A r \in M : rn[r].state \in Active
  /\ \A r \in M : /\ rn2[r] \in RunRow /\ rn2[r].state = st
                  /\ rn2[r].task = rn[r].task /\ rn2[r].attempt = rn[r].attempt
  /\ \A r \in M : /\ tk2[rn[r].task] \in TaskRow /\ tk2[rn[r].task].state = st
                  /\ tk2[rn[r].task].attempts = rn[r].attempt
                  /\ tk2[rn[r].task].last_attempt_run = r
                  /\ tk2[rn[r].task].max_attempts = tk[rn[r].task].max_attempts
  /\ \A r \in RunId \ M : rn2[r] = rn[r]
  /\ \A t \in Task : (\A r \in M : rn[r].task # t) => tk2[t] = tk[t]

(* Rows that move together stay sound.                                     *)
LEMMA MoveSound ==
  ASSUME NEW tk, NEW rn, NEW next, NEW tk2, NEW rn2, NEW st, NEW M,
         Sound(tk, rn, next), MoveTogether(tk, rn, tk2, rn2, M, st)
  PROVE  Sound(tk2, rn2, next)
<1> USE DEF MoveTogether
<1>0. /\ tk \in TaskTable /\ rn \in RunTable
      /\ \A t \in Task : tk[t].state \in State => tk[t] \in TaskRow
      /\ \A r \in RunId : rn[r].state \in State => rn[r] \in RunRow
  BY Rows DEF Sound
<1>1. ASSUME NEW r \in M
      PROVE  /\ rn[r].state \in State /\ rn[r].task \in Task /\ rn[r].attempt \in 1 .. r
             /\ r = tk[rn[r].task].last_attempt_run
             /\ rn[r] # NoRun
  <2>1. rn[r].state \in Active /\ rn[r].state \in State
    BY StateFacts
  <2>2. rn[r] # NoRun
    BY <2>1, StateFacts
  <2> QED BY <2>1, <2>2, ActiveIsLast
<1>2. tk2 \in TaskTable
  <2>1. \A t \in Task : tk2[t] \in TaskRow \union {NoTask, GoneTask}
    BY <1>0 DEF TaskTable
  <2> QED BY <2>1 DEF TaskTable
<1>3. rn2 \in RunTable
  <2>1. \A r \in RunId : rn2[r] \in RunRow \union {NoRun}
    BY <1>0 DEF RunTable
  <2> QED BY <2>1 DEF RunTable
<1>4. \A r \in RunId : r >= next => rn2[r] = NoRun
  BY <1>1 DEF Sound
<1>5. ASSUME NEW r \in RunId, rn2[r].state \in State
      PROVE  Placed(tk2, rn2, r)
  <2>1. CASE r \in M
    BY SMTT(60), <1>1, <2>1 DEF Placed
  <2>2. CASE r \notin M
    <3>1. rn2[r] = rn[r] /\ Placed(tk, rn, r) /\ rn[r].task \in Task
      BY <1>0, <1>5, <2>2 DEF Sound, RunRow
    <3>2. CASE \A q \in M : rn[q].task # rn[r].task
      BY <3>1, <3>2 DEF Placed
    <3>3. CASE \E q \in M : rn[q].task = rn[r].task
      <4>1. PICK q \in M : rn[q].task = rn[r].task
        BY <3>3
      <4>2. tk2[rn[r].task].state = st /\ r # tk[rn[r].task].last_attempt_run
        BY <1>1, <2>2, <4>1
      <4> QED BY <3>1, <4>2 DEF Placed
    <3> QED BY <3>2, <3>3
  <2> QED BY <2>1, <2>2
<1>6. ASSUME NEW t \in Task, tk2[t].state \in State
      PROVE  Mirrored(tk2, rn2, t)
  <2>1. CASE \A q \in M : rn[q].task # t
    <3>1. tk2[t] = tk[t] /\ Mirrored(tk, rn, t)
      BY SMTT(60), <1>6, <2>1 DEF Sound
    <3>2. tk[t].last_attempt_run \in RunId \ M
      BY <1>0, <1>6, <2>1, <3>1 DEF Mirrored, TaskRow
    <3> QED BY <3>1, <3>2 DEF Mirrored
  <2>2. CASE \E q \in M : rn[q].task = t
    <3>1. PICK q \in M : rn[q].task = t
      BY <2>2
    <3> QED BY ZenonT(120), <3>1 DEF Mirrored
  <2> QED BY SMTT(60), <2>1, <2>2
<1> QED BY <1>2, <1>3, <1>4, <1>5, <1>6 DEF Sound

(* cancel_task on a set of open tasks moves their active runs with them.   *)
LEMMA CancelMoves ==
  ASSUME NEW tk, NEW rn, NEW next, Sound(tk, rn, next), now \in Nat,
         NEW S \in SUBSET Task, \A t \in S : tk[t].state \in Active
  PROVE  MoveTogether(tk, rn, CancelTasks(tk, S), CancelRuns(rn, S),
                      {r \in RunId : rn[r].state \in Active /\ rn[r].task \in S}, "cancelled")
<1> DEFINE tk2 == CancelTasks(tk, S)
           rn2 == CancelRuns(rn, S)
           M == {r \in RunId : rn[r].state \in Active /\ rn[r].task \in S}
<1>1. ASSUME NEW r \in M
      PROVE  /\ rn2[r] \in RunRow /\ rn2[r].state = "cancelled"
             /\ rn2[r].task = rn[r].task /\ rn2[r].attempt = rn[r].attempt
  <2>1. rn[r] \in RunRow
    BY ActiveIsLast
  <2> QED BY ZenonT(60), <2>1 DEF CancelRuns, RunRow, Terminal, State, OrNull
<1>2. ASSUME NEW r \in M
      PROVE  /\ tk2[rn[r].task] \in TaskRow /\ tk2[rn[r].task].state = "cancelled"
             /\ tk2[rn[r].task].attempts = rn[r].attempt
             /\ tk2[rn[r].task].last_attempt_run = r
             /\ tk2[rn[r].task].max_attempts = tk[rn[r].task].max_attempts
  <2>1. /\ tk[rn[r].task] \in TaskRow /\ rn[r].task \in Task
        /\ r = tk[rn[r].task].last_attempt_run /\ rn[r].attempt = tk[rn[r].task].attempts
    BY ActiveIsLast
  <2> QED BY ZenonT(120), <2>1 DEF CancelTasks, TaskRow, Terminal, State, OrNull, Coalesce
<1>3. \A r \in RunId \ M : rn2[r] = rn[r]
  BY DEF CancelRuns
<1>4. ASSUME NEW t \in Task, \A r \in M : rn[r].task # t
      PROVE  tk2[t] = tk[t]
  <2>1. ASSUME t \in S
        PROVE  FALSE
    <3>1. tk[t].state \in Active /\ Mirrored(tk, rn, t) /\ tk[t] \in TaskRow
      BY <2>1, StateFacts, Rows DEF Sound
    <3>2. tk[t].last_attempt_run \in M
      BY <2>1, <3>1 DEF Mirrored, TaskRow, Active
    <3> QED BY <1>4, <3>1, <3>2 DEF Mirrored
  <2> QED BY <2>1 DEF CancelTasks
<1>5. tk2 = [t \in Task |-> tk2[t]] /\ rn2 = [r \in RunId |-> rn2[r]]
  BY DEF CancelTasks, CancelRuns
<1>6. \A r \in M : rn[r].state \in Active
  OBVIOUS
<1>7. M \in SUBSET RunId /\ "cancelled" \in State
  BY DEF State, Terminal
<1> HIDE DEF tk2, rn2, M
<1>8. MoveTogether(tk, rn, tk2, rn2, M, "cancelled")
  BY <1>1, <1>2, <1>3, <1>4, <1>5, <1>6, <1>7 DEF MoveTogether
<1> QED BY <1>8 DEF tk2, rn2, M

(* Cancelling active tasks keeps the rows sound.                           *)
LEMMA CancelSound ==
  ASSUME NEW tk, NEW rn, NEW next, Sound(tk, rn, next), now \in Nat,
         NEW S \in SUBSET Task, \A t \in S : tk[t].state \in Active
  PROVE  Sound(CancelTasks(tk, S), CancelRuns(rn, S), next)
BY CancelMoves, MoveSound

(* claim_task moves the candidates that it hands out with their tasks.     *)
LEMMA ClaimMoves ==
  ASSUME NEW tk, NEW rn, NEW next, Sound(tk, rn, next), now \in Nat,
         NEW C \in SUBSET Candidates(tk, rn), NEW lease \in Nat
  PROVE  MoveTogether(tk, rn, ClaimTasks(tk, rn, C), ClaimRuns(rn, C, lease), C, "running")
<1> DEFINE tk2 == ClaimTasks(tk, rn, C)
           rn2 == ClaimRuns(rn, C, lease)
<1>1. ASSUME NEW r \in C
      PROVE  /\ r \in RunId /\ rn[r] \in RunRow /\ rn[r].task \in Task
             /\ rn[r].attempt \in Nat
             /\ rn[r].state \in Active
             /\ tk[rn[r].task] \in TaskRow
             /\ r = tk[rn[r].task].last_attempt_run
             /\ rn[r].attempt = tk[rn[r].task].attempts
  <2>1. r \in RunId /\ rn[r].state \in Active
    BY DEF Candidates, Active
  <2> QED BY <2>1, ActiveIsLast DEF RunId
<1>2. ASSUME NEW r \in C
      PROVE  RunIn(rn, C, rn[r].task) = r
  <2>1. \A q \in C : rn[q].task = rn[r].task => q = r
    BY SMTT(60), <1>1
  <2> QED BY <2>1, Choice
<1>3. ASSUME NEW r \in C
      PROVE  /\ tk2[rn[r].task] \in TaskRow
             /\ tk2[rn[r].task].state = "running"
             /\ tk2[rn[r].task].attempts = rn[r].attempt
             /\ tk2[rn[r].task].last_attempt_run = r
             /\ tk2[rn[r].task].max_attempts = tk[rn[r].task].max_attempts
  <2>1. tk2[rn[r].task] = [tk[rn[r].task] EXCEPT !.state = "running",
                             !.attempts = Later(@, rn[r].attempt),
                             !.first_started_at = Coalesce(@, now), !.last_attempt_run = r]
    BY <1>1, <1>2 DEF ClaimTasks
  <2>2. Later(tk[rn[r].task].attempts, rn[r].attempt) = rn[r].attempt
    BY <1>1 DEF Later
  <2> QED BY ZenonT(120), <1>1, <2>1, <2>2 DEF TaskRow, Coalesce, OrNull, State, Active
<1>4. ASSUME NEW r \in C
      PROVE  /\ rn2[r] \in RunRow /\ rn2[r].state = "running"
             /\ rn2[r].task = rn[r].task /\ rn2[r].attempt = rn[r].attempt
  <2> DEFINE until == IF lease > 0 THEN now + lease ELSE Null
  <2>1. until \in OrNull(Nat)
    BY DEF OrNull
  <2>2. rn2[r] = [rn[r] EXCEPT !.state = "running", !.available_at = now,
                               !.claim_expires_at = until]
    BY <1>1 DEF ClaimRuns
  <2> HIDE DEF until
  <2> QED BY ZenonT(60), <1>1, <2>1, <2>2 DEF RunRow, State, Active
<1>5. \A t \in Task : (\A r \in C : rn[r].task # t) => tk2[t] = tk[t]
  BY DEF ClaimTasks
<1>6. \A r \in RunId \ C : rn2[r] = rn[r]
  BY DEF ClaimRuns
<1>7. tk2 = [t \in Task |-> tk2[t]] /\ rn2 = [r \in RunId |-> rn2[r]]
  BY DEF ClaimTasks, ClaimRuns
<1>8. /\ C \in SUBSET RunId /\ \A r \in C : rn[r].state \in Active
      /\ "running" \in State
  BY <1>1 DEF State, Active
<1> HIDE DEF tk2, rn2
<1>9. MoveTogether(tk, rn, tk2, rn2, C, "running")
  BY <1>3, <1>4, <1>5, <1>6, <1>7, <1>8 DEF MoveTogether
<1> QED BY <1>9 DEF tk2, rn2

(* Starting claimed runs keeps the rows sound.                             *)
LEMMA ClaimSound ==
  ASSUME NEW tk, NEW rn, NEW next, Sound(tk, rn, next), now \in Nat,
         NEW C \in SUBSET Candidates(tk, rn), NEW lease \in Nat
  PROVE  Sound(ClaimTasks(tk, rn, C), ClaimRuns(rn, C, lease), next)
BY ClaimMoves, MoveSound

(* A set of run ids has a cardinality.                                     *)
LEMMA RunIdFinite == IsFiniteSet(RunId)
BY FS_Interval, BoundsAssumption DEF RunId

(* The ids that fail_run gives to new runs are unused and distinct.        *)
LEMMA Fresh ==
  ASSUME NEW R \in SUBSET RunId, NEW id \in FreshIds(R),
         nextRun \in Nat, nextRun + Cardinality(R) <= MaxRuns + 1
  PROVE  /\ Cardinality(R) \in Nat
         /\ id \in [R -> nextRun .. nextRun + Cardinality(R) - 1]
         /\ \A q, r \in R : id[q] = id[r] => q = r
<1>1. Cardinality(R) \in Nat
  BY RunIdFinite, FS_Subset, FS_CardinalityType
<1> QED BY <1>1 DEF FreshIds

(* fail_run on the runs of E, one per task, with a new run id[r] for each  *)
(* run r of R: what becomes of the rows of the two tables.                 *)
FailedRows(tk, rn, tk2, rn2, E, R, id, next) ==
  /\ R \subseteq E
  /\ \A r \in E : /\ r \in RunId /\ rn[r] \in RunRow /\ rn[r].task \in Task
                  /\ rn[r].attempt \in 1 .. r
                  /\ tk[rn[r].task] \in TaskRow
                  /\ r = tk[rn[r].task].last_attempt_run
                  /\ rn[r].attempt = tk[rn[r].task].attempts
                  /\ tk[rn[r].task].state = rn[r].state
                  /\ r < nextRun
  /\ \A r \in R : /\ id[r] \in RunId /\ id[r] >= nextRun /\ id[r] < next
                  /\ rn[id[r]] = NoRun /\ id[r] \notin E
                  /\ rn[r].attempt + 1 \in 1 .. id[r]
  /\ \A r \in E : /\ tk2[rn[r].task] \in TaskRow
                  /\ tk2[rn[r].task].max_attempts = tk[rn[r].task].max_attempts
  /\ \A r \in E \ R : /\ tk2[rn[r].task].state \in {"failed", "cancelled"}
                      /\ tk2[rn[r].task].attempts = rn[r].attempt
                      /\ tk2[rn[r].task].last_attempt_run = r
  /\ \A r \in R : /\ tk2[rn[r].task].state \in {"pending", "sleeping"}
                  /\ tk2[rn[r].task].attempts = rn[r].attempt + 1
                  /\ tk2[rn[r].task].last_attempt_run = id[r]
  /\ \A t \in Task : (\A r \in E : rn[r].task # t) => tk2[t] = tk[t]
  /\ \A r \in E : /\ rn2[r] \in RunRow /\ rn2[r].state = "failed"
                  /\ rn2[r].task = rn[r].task /\ rn2[r].attempt = rn[r].attempt
  /\ \A r \in R : /\ rn2[id[r]] \in RunRow
                  /\ rn2[id[r]].state = tk2[rn[r].task].state
                  /\ rn2[id[r]].task = rn[r].task /\ rn2[id[r]].attempt = rn[r].attempt + 1
  /\ \A r \in RunId : r \notin E /\ (\A q \in R : id[q] # r) => rn2[r] = rn[r]

(* What fail_run does to the rows, as FailedRows states it.                *)
LEMMA FailRows ==
  ASSUME NEW tk, NEW rn, Sound(tk, rn, nextRun), now \in Nat,
         NEW E \in SUBSET RunId, \A r \in E : rn[r].state \in {"running", "sleeping"},
         NEW retryAt \in OrNull(Nat),
         NEW id \in FreshIds(Retried(tk, rn, E, retryAt)),
         nextRun + Cardinality(Retried(tk, rn, E, retryAt)) <= MaxRuns + 1
  PROVE  LET R == Retried(tk, rn, E, retryAt) IN
         FailedRows(tk, rn, FailTasks(tk, rn, E, retryAt, id), FailRuns(tk, rn, E, retryAt, id),
                    E, R, id, nextRun + Cardinality(R))
<1> DEFINE R == Retried(tk, rn, E, retryAt)
           next == nextRun + Cardinality(R)
           tk2 == FailTasks(tk, rn, E, retryAt, id)
           rn2 == FailRuns(tk, rn, E, retryAt, id)
           at(r) == NextAvailable(tk, rn, r, retryAt)
<1>0. /\ tk \in TaskTable /\ rn \in RunTable /\ nextRun \in 1 .. MaxRuns + 1
      /\ \A t \in Task : tk[t].state \in State => tk[t] \in TaskRow
      /\ \A r \in RunId : rn[r].state \in State => rn[r] \in RunRow
  BY Rows DEF Sound
<1>1. ASSUME NEW r \in E
      PROVE  /\ r \in RunId /\ rn[r] \in RunRow /\ rn[r].task \in Task
             /\ rn[r].attempt \in 1 .. r
             /\ tk[rn[r].task] \in TaskRow
             /\ r = tk[rn[r].task].last_attempt_run
             /\ rn[r].attempt = tk[rn[r].task].attempts
             /\ tk[rn[r].task].state = rn[r].state /\ rn[r].state \in State
             /\ r < nextRun
  <2>1. rn[r].state \in Active /\ rn[r].state \in State
    BY DEF Active, State
  <2>2. rn[r] # NoRun
    BY <2>1, StateFacts
  <2>3. r < nextRun
    BY <1>0, <2>2, BoundsAssumption DEF Sound, RunId
  <2> QED BY <2>1, <2>3, ActiveIsLast
<1>2. ASSUME NEW r \in E
      PROVE  RunIn(rn, E, rn[r].task) = r
  <2>1. \A q \in E : rn[q].task = rn[r].task => q = r
    BY <1>1
  <2> QED BY <2>1, Choice
<1>3. ASSUME NEW r \in E
      PROVE  at(r) \in Nat /\ RetryState(at(r)) \in {"pending", "sleeping"}
  <2>1. tk[rn[r].task].policy.delay[rn[r].attempt] \in Nat
    BY SMTT(120), <1>1, BoundsAssumption DEF TaskRow, PolicyType, RunId
  <2>2. at(r) \in Nat
    BY <2>1, NullAssumption DEF NextAvailable, Later, Coalesce, OrNull
  <2> QED BY <2>2 DEF RetryState
<1>4. /\ R \subseteq E /\ Cardinality(R) \in Nat
      /\ id \in [R -> nextRun .. next - 1]
      /\ \A q, r \in R : id[q] = id[r] => q = r
  <2>1. R \subseteq E /\ R \in SUBSET RunId
    BY DEF Retried
  <2> HIDE DEF R
  <2> QED BY Fresh, <1>0, <2>1, BoundsAssumption DEF R
<1> HIDE DEF R, at
<1>5. ASSUME NEW r \in R
      PROVE  /\ r \in E /\ id[r] \in RunId /\ id[r] >= nextRun /\ id[r] < next
             /\ rn[id[r]] = NoRun /\ id[r] \notin E
             /\ rn[r].attempt + 1 \in 1 .. id[r]
  <2>1. r \in E /\ id[r] \in nextRun .. next - 1
    BY <1>4
  <2>2. id[r] \in RunId /\ id[r] >= nextRun /\ id[r] < next
    BY <1>0, <1>4, <2>1, BoundsAssumption DEF RunId, R
  <2>3. rn[id[r]] = NoRun
    BY <2>2 DEF Sound
  <2> QED BY <1>0, <1>1, <2>1, <2>2, <2>3 DEF RunId
<1>6. ASSUME NEW r \in E \ R
      PROVE  /\ tk2[rn[r].task] \in TaskRow
             /\ tk2[rn[r].task].state \in {"failed", "cancelled"}
             /\ tk2[rn[r].task].attempts = rn[r].attempt
             /\ tk2[rn[r].task].last_attempt_run = r
             /\ tk2[rn[r].task].max_attempts = tk[rn[r].task].max_attempts
  <2> DEFINE over == AttemptsLeft(tk, rn, r)
             st == IF over THEN "cancelled" ELSE "failed"
             ca == IF over THEN Coalesce(tk[rn[r].task].cancelled_at, now)
                           ELSE tk[rn[r].task].cancelled_at
  <2>1. tk2[rn[r].task] = [tk[rn[r].task] EXCEPT !.state = st,
                             !.attempts = Later(@, rn[r].attempt),
                             !.last_attempt_run = r,
                             !.cancelled_at = ca]
    <3>1. r \notin DOMAIN id /\ r \in E /\ rn[r].task \in Task
      BY <1>1, <1>4
    <3> QED BY ZenonT(60), <1>2, <3>1 DEF FailTasks
  <2>2. Later(tk[rn[r].task].attempts, rn[r].attempt) = rn[r].attempt /\ rn[r].attempt \in Nat
    BY <1>1 DEF Later
  <2>3. st \in {"failed", "cancelled"} /\ ca \in OrNull(Nat)
    BY <1>1 DEF TaskRow, Coalesce, OrNull
  <2>4. tk[rn[r].task] \in TaskRow /\ r \in RunId
    BY <1>1
  <2> HIDE DEF st, ca, tk2
  <2> QED BY ZenonT(120), <2>1, <2>2, <2>3, <2>4 DEF TaskRow, State, Terminal
<1>7. ASSUME NEW r \in R
      PROVE  /\ tk2[rn[r].task] \in TaskRow
             /\ tk2[rn[r].task].state = RetryState(at(r))
             /\ tk2[rn[r].task].attempts = rn[r].attempt + 1
             /\ tk2[rn[r].task].last_attempt_run = id[r]
             /\ tk2[rn[r].task].max_attempts = tk[rn[r].task].max_attempts
  <2> DEFINE n == Later(tk[rn[r].task].attempts, rn[r].attempt + 1)
             st == RetryState(at(r))
  <2>1. tk2[rn[r].task] = [tk[rn[r].task] EXCEPT !.state = st,
                             !.attempts = n,
                             !.last_attempt_run = id[r]]
    <3>1. r \in DOMAIN id /\ r \in E /\ rn[r].task \in Task
      BY <1>1, <1>4
    <3> QED BY <1>2, <3>1 DEF FailTasks, at
  <2>2. n = rn[r].attempt + 1 /\ n \in Nat
    BY <1>1, <1>5 DEF Later
  <2>3. tk[rn[r].task] \in TaskRow /\ id[r] \in RunId /\ st \in {"pending", "sleeping"}
    BY <1>1, <1>3, <1>5
  <2> HIDE DEF tk2, n, st
  <2>4. /\ tk2[rn[r].task] \in TaskRow /\ tk2[rn[r].task].state = st
        /\ tk2[rn[r].task].attempts = n /\ tk2[rn[r].task].last_attempt_run = id[r]
        /\ tk2[rn[r].task].max_attempts = tk[rn[r].task].max_attempts
    BY ZenonT(60), <2>1, <2>2, <2>3 DEF TaskRow, State, Active
  <2> QED BY SMTT(60), <2>2, <2>4 DEF st
<1>8. \A t \in Task : (\A r \in E : rn[r].task # t) => tk2[t] = tk[t]
  BY DEF FailTasks
<1>9. ASSUME NEW r \in E
      PROVE  /\ rn2[r] \in RunRow /\ rn2[r].state = "failed"
             /\ rn2[r].task = rn[r].task /\ rn2[r].attempt = rn[r].attempt
  <2>1. rn2[r] = [rn[r] EXCEPT !.state = "failed", !.wake_event = Null, !.ended_at = now]
    BY <1>1 DEF FailRuns
  <2> QED BY ZenonT(120), <1>1, <2>1 DEF RunRow, State, Terminal, OrNull
<1>10. ASSUME NEW r \in R
       PROVE  /\ rn2[id[r]] \in RunRow /\ rn2[id[r]].state = RetryState(at(r))
              /\ rn2[id[r]].task = rn[r].task /\ rn2[id[r]].attempt = rn[r].attempt + 1
  <2>1. r \in DOMAIN id /\ (CHOOSE q \in DOMAIN id : id[q] = id[r]) = r
    BY <1>4
  <2>2. rn2[id[r]] = NewRun(rn[r].task, rn[r].attempt + 1, RetryState(at(r)), at(r))
    BY <1>5, <2>1 DEF FailRuns, at
  <2> QED BY <1>1, <1>3, <1>5, <2>2 DEF NewRun, RunRow, State, Active, OrNull
<1>11. \A r \in RunId : r \notin E /\ (\A q \in R : id[q] # r) => rn2[r] = rn[r]
  BY SMTT(60), <1>4 DEF FailRuns
<1> HIDE DEF next, tk2, rn2
<1>12. FailedRows(tk, rn, tk2, rn2, E, R, id, next)
  BY <1>1, <1>3, <1>4, <1>5, <1>6, <1>7, <1>8, <1>9, <1>10, <1>11 DEF FailedRows
<1> QED BY <1>12 DEF next, tk2, rn2, R

(* fail_run keeps the tables sound.                                        *)
LEMMA FailSound ==
  ASSUME NEW tk, NEW rn, Sound(tk, rn, nextRun), now \in Nat,
         NEW E \in SUBSET RunId, \A r \in E : rn[r].state \in {"running", "sleeping"},
         NEW retryAt \in OrNull(Nat),
         NEW id \in FreshIds(Retried(tk, rn, E, retryAt)),
         nextRun + Cardinality(Retried(tk, rn, E, retryAt)) <= MaxRuns + 1
  PROVE  Sound(FailTasks(tk, rn, E, retryAt, id), FailRuns(tk, rn, E, retryAt, id),
               nextRun + Cardinality(Retried(tk, rn, E, retryAt)))
<1> DEFINE R == Retried(tk, rn, E, retryAt)
           next == nextRun + Cardinality(R)
           tk2 == FailTasks(tk, rn, E, retryAt, id)
           rn2 == FailRuns(tk, rn, E, retryAt, id)
<1>0. /\ tk \in TaskTable /\ rn \in RunTable /\ nextRun \in 1 .. MaxRuns + 1
      /\ \A t \in Task : tk[t].state \in State => tk[t] \in TaskRow
      /\ \A r \in RunId : rn[r].state \in State => rn[r] \in RunRow
  BY Rows DEF Sound
<1>1. FailedRows(tk, rn, tk2, rn2, E, R, id, next)
  BY FailRows
<1>2. Cardinality(R) \in Nat
  <2>1. R \in SUBSET RunId
    BY DEF Retried
  <2> HIDE DEF R
  <2> QED BY RunIdFinite, FS_Subset, FS_CardinalityType, <2>1
<1>3. \A r \in E : tk2[rn[r].task].state \in State
  BY <1>1 DEF FailedRows, State, Active, Terminal
<1>4. tk2 = [t \in Task |-> tk2[t]] /\ rn2 = [r \in RunId |-> rn2[r]]
  BY DEF FailTasks, FailRuns
<1> HIDE DEF R, tk2, rn2
<1> USE DEF FailedRows
<1>5. tk2 \in TaskTable
  <2>1. ASSUME NEW t \in Task
        PROVE  tk2[t] \in TaskRow \union {NoTask, GoneTask}
    <3>1. CASE \A r \in E : rn[r].task # t
      BY <1>0, <1>1, <3>1 DEF TaskTable
    <3>2. CASE \E r \in E : rn[r].task = t
      BY <1>1, <3>2
    <3> QED BY <3>1, <3>2
  <2> QED BY <1>4, <2>1 DEF TaskTable
<1>6. rn2 \in RunTable
  <2>1. ASSUME NEW r \in RunId
        PROVE  rn2[r] \in RunRow \union {NoRun}
    BY <1>0, <1>1 DEF RunTable
  <2> QED BY <1>4, <2>1 DEF RunTable
<1>7. next \in 1 .. MaxRuns + 1
  BY <1>0, <1>2, BoundsAssumption DEF R
<1>8. ASSUME NEW r \in RunId, r >= next
       PROVE  rn2[r] = NoRun
  <2>1. r >= nextRun /\ r \notin E /\ \A q \in R : id[q] # r
    BY <1>0, <1>1, <1>2, <1>7, <1>8 DEF RunId
  <2> QED BY <1>1, <2>1 DEF Sound
<1>9. ASSUME NEW r \in RunId, rn2[r].state \in State
       PROVE  Placed(tk2, rn2, r)
  <2>1. CASE r \in E
    <3>1. tk2[rn[r].task].state \in State
      BY <1>1, <1>3, <2>1 DEF State, Active, Terminal
    <3> QED BY <1>1, <2>1, <3>1 DEF Placed
  <2>2. CASE \E q \in R : id[q] = r
    <3>1. PICK q \in R : id[q] = r
      BY <2>2
    <3>2. tk2[rn[q].task].state \in State
      BY <1>3, <1>1 DEF State, Active
    <3> QED BY <1>1, <3>1, <3>2 DEF Placed
  <2>3. CASE r \notin E /\ \A q \in R : id[q] # r
    <3>1. rn2[r] = rn[r] /\ Placed(tk, rn, r) /\ rn[r].task \in Task
      BY <1>0, <1>1, <1>9, <2>3 DEF Sound, RunRow
    <3>2. CASE \A q \in E : rn[q].task # rn[r].task
      BY <1>1, <3>1, <3>2 DEF Placed
    <3>3. CASE \E q \in E : rn[q].task = rn[r].task
      <4>1. PICK q \in E : rn[q].task = rn[r].task
        BY <3>3
      <4>2. tk2[rn[r].task].state \in State
        BY <1>1, <1>3, <4>1 DEF State, Active, Terminal
      <4>3. r # tk[rn[r].task].last_attempt_run
        BY <1>1, <2>3, <4>1
      <4> QED BY <3>1, <4>2, <4>3 DEF Placed
    <3> QED BY <3>2, <3>3
  <2> QED BY <2>1, <2>2, <2>3
<1>10. ASSUME NEW t \in Task, tk2[t].state \in State
       PROVE  Mirrored(tk2, rn2, t)
  <2>1. CASE \A q \in E : rn[q].task # t
    <3>1. tk2[t] = tk[t] /\ Mirrored(tk, rn, t)
      BY <1>1, <1>10, <2>1 DEF Sound
    <3>2. tk[t].last_attempt_run \in RunId \ E
      BY <1>0, <1>10, <2>1, <3>1 DEF Mirrored, TaskRow
    <3>3. \A q \in R : id[q] # tk[t].last_attempt_run
      BY <1>1, <3>1, StateFacts DEF Mirrored
    <3>4. rn2[tk[t].last_attempt_run] = rn[tk[t].last_attempt_run]
      BY <1>1, <3>2, <3>3
    <3> QED BY <3>1, <3>4 DEF Mirrored
  <2>2. CASE \E q \in E : rn[q].task = t
    <3>1. PICK q \in E : rn[q].task = t
      BY <2>2
    <3>2. CASE q \in R
      BY <1>1, <1>3, <3>1, <3>2 DEF Mirrored, State, Active
    <3>3. CASE q \notin R
      BY <1>1, <3>1, <3>3 DEF Mirrored, State, Terminal
    <3> QED BY <3>2, <3>3
  <2> QED BY <2>1, <2>2
<1>11. Sound(tk2, rn2, next)
  BY <1>5, <1>6, <1>7, <1>8, <1>9, <1>10 DEF Sound
<1> QED BY <1>11 DEF tk2, rn2, R

(* A new run for a task that has none, or whose runs have all failed.      *)
LEMMA AppendSound ==
  ASSUME NEW tk, NEW rn, NEW next \in RunId, Sound(tk, rn, next),
         NEW t \in Task, tk[t].state \notin State \/ tk[t].state = "failed",
         NEW row \in TaskRow, NEW new \in RunRow,
         row.state = "pending", row.last_attempt_run = next, row.attempts = new.attempt,
         new.state = "pending", new.task = t, new.attempt \in 1 .. next
  PROVE  Sound([tk EXCEPT ![t] = row], [rn EXCEPT ![next] = new], next + 1)
<1> DEFINE tk2 == [tk EXCEPT ![t] = row]
           rn2 == [rn EXCEPT ![next] = new]
<1>0. /\ tk \in TaskTable /\ rn \in RunTable
      /\ \A u \in Task : tk[u].state \in State => tk[u] \in TaskRow
      /\ \A r \in RunId : rn[r].state \in State => rn[r] \in RunRow
  BY Rows DEF Sound
<1>1. tk2 \in TaskTable /\ tk2[t] = row /\ \A u \in Task \ {t} : tk2[u] = tk[u]
  BY <1>0 DEF TaskTable
<1>2. rn2 \in RunTable /\ rn2[next] = new /\ \A r \in RunId \ {next} : rn2[r] = rn[r]
  BY <1>0 DEF RunTable
<1>3. rn[next] = NoRun
  BY DEF Sound, RunId
<1>4. "pending" \in State /\ "failed" \in State
  BY DEF State, Active, Terminal
<1>5. ASSUME NEW r \in RunId, rn[r].state \in State, rn[r].task = t
      PROVE  rn[r].state = "failed"
  <2>1. Placed(tk, rn, r)
    BY <1>5 DEF Sound
  <2>2. tk[t].state = "failed" /\ Mirrored(tk, rn, t)
    BY <1>4, <1>5, <2>1 DEF Placed, Sound
  <2> QED BY <1>5, <2>1, <2>2 DEF Placed, Mirrored
<1>6. \A r \in RunId : r >= next + 1 => rn2[r] = NoRun
  BY <1>2 DEF Sound, RunId
<1>7. ASSUME NEW r \in RunId, rn2[r].state \in State
      PROVE  Placed(tk2, rn2, r)
  <2>1. CASE r = next
    BY <1>1, <1>2, <1>4, <2>1 DEF Placed
  <2>2. CASE r # next
    <3>1. rn2[r] = rn[r] /\ Placed(tk, rn, r) /\ rn[r].task \in Task
      BY <1>0, <1>2, <1>7, <2>2 DEF Sound, RunRow
    <3>2. CASE rn[r].task = t
      BY <1>1, <1>2, <1>4, <1>5, <1>7, <3>1, <3>2 DEF Placed
    <3>3. CASE rn[r].task # t
      BY <1>1, <3>1, <3>3 DEF Placed
    <3> QED BY <3>2, <3>3
  <2> QED BY <2>1, <2>2
<1>8. ASSUME NEW u \in Task, tk2[u].state \in State
      PROVE  Mirrored(tk2, rn2, u)
  <2>1. CASE u = t
    BY <1>1, <1>2, <1>4, <2>1 DEF Mirrored
  <2>2. CASE u # t
    <3>1. tk2[u] = tk[u] /\ Mirrored(tk, rn, u) /\ tk[u].last_attempt_run \in RunId
      BY <1>0, <1>1, <1>8, <2>2 DEF Sound, TaskRow
    <3>2. rn2[tk[u].last_attempt_run] = rn[tk[u].last_attempt_run]
      BY <1>2, <1>3, <3>1, StateFacts DEF Mirrored
    <3> QED BY <3>1, <3>2 DEF Mirrored
  <2> QED BY <2>1, <2>2
<1>9. next + 1 \in 1 .. MaxRuns + 1
  BY BoundsAssumption DEF RunId
<1> QED BY <1>1, <1>2, <1>6, <1>7, <1>8, <1>9 DEF Sound

(* Columns other than the state, the task and the attempt of a run.        *)
LEMMA TouchSound ==
  ASSUME NEW tk, NEW rn, NEW next, Sound(tk, rn, next),
         NEW r \in RunId, NEW new \in RunRow, rn[r].state \in State,
         new.state = rn[r].state, new.task = rn[r].task, new.attempt = rn[r].attempt
  PROVE  Sound(tk, [rn EXCEPT ![r] = new], next)
<1> DEFINE rn2 == [rn EXCEPT ![r] = new]
<1>1. rn \in RunTable /\ rn[r] # NoRun
  BY StateFacts DEF Sound
<1>2. rn2 \in RunTable /\ rn2[r] = new /\ \A q \in RunId \ {r} : rn2[q] = rn[q]
  BY <1>1 DEF RunTable
<1>3. \A q \in RunId : /\ rn2[q].state = rn[q].state
                       /\ rn[q].state \in State =>
                            rn2[q].task = rn[q].task /\ rn2[q].attempt = rn[q].attempt
  BY <1>2
<1>4. \A q \in RunId : q >= next => rn2[q] = NoRun
  BY <1>1, <1>2 DEF Sound
<1>5. \A q \in RunId : rn2[q].state \in State => Placed(tk, rn2, q)
  BY <1>3 DEF Sound, Placed
<1>6. ASSUME NEW t \in Task, tk[t].state \in State
      PROVE  Mirrored(tk, rn2, t)
  <2>1. Mirrored(tk, rn, t) /\ tk[t].last_attempt_run \in RunId
    BY <1>6, Rows DEF Sound, TaskRow
  <2> QED BY <1>3, <2>1 DEF Mirrored
<1> QED BY <1>2, <1>4, <1>5, <1>6 DEF Sound

(* cleanup_tasks.                                                          *)
LEMMA DeleteSound ==
  ASSUME NEW tk, NEW rn, NEW next, Sound(tk, rn, next), NEW D \in SUBSET Task,
         NEW tk2, tk2 = [t \in Task |-> IF t \in D THEN GoneTask ELSE tk[t]],
         NEW rn2, rn2 = [r \in RunId |-> IF rn[r].state \in State /\ rn[r].task \in D
                                         THEN NoRun ELSE rn[r]]
  PROVE  Sound(tk2, rn2, next)
<1>0. /\ tk \in TaskTable /\ rn \in RunTable
      /\ \A t \in Task : tk[t].state \in State => tk[t] \in TaskRow
      /\ \A r \in RunId : rn[r].state \in State => rn[r] \in RunRow
  BY Rows DEF Sound
<1>1. /\ \A t \in Task : (t \in D => tk2[t].state \notin State) /\ (t \notin D => tk2[t] = tk[t])
      /\ \A r \in RunId : rn2[r].state \in State =>
           rn[r].state \in State /\ rn2[r] = rn[r] /\ rn[r].task \in Task \ D
  BY <1>0, StateFacts DEF RunRow
<1>2. tk2 \in TaskTable /\ rn2 \in RunTable
  BY <1>0 DEF TaskTable, RunTable
<1>3. \A r \in RunId : r >= next => rn2[r] = NoRun
  BY DEF Sound
<1>4. \A r \in RunId : rn2[r].state \in State => Placed(tk2, rn2, r)
  BY SMTT(60), <1>1 DEF Sound, Placed
<1>5. ASSUME NEW t \in Task, tk2[t].state \in State
      PROVE  Mirrored(tk2, rn2, t)
  <2>1. t \notin D /\ tk2[t] = tk[t] /\ Mirrored(tk, rn, t) /\ tk[t].last_attempt_run \in RunId
    BY <1>0, <1>1, <1>5 DEF Sound, TaskRow
  <2>2. rn2[tk[t].last_attempt_run] = rn[tk[t].last_attempt_run]
    BY <2>1 DEF Mirrored
  <2> QED BY <2>1, <2>2 DEF Mirrored
<1> QED BY <1>2, <1>3, <1>4, <1>5 DEF Sound

-----------------------------------------------------------------------------
(* The inductive invariant: the two tables are sound and the rest is typed. *)

Rest ==
  /\ ckpt \in [Task -> [Step -> Checkpoint \union {Null}]]
  /\ event \in [Event -> EventRow \union {Null}]
  /\ wait \subseteq WaitRow
  /\ now \in Nat
IInv == Sound(task, run, nextRun) /\ Rest

(* A new queue satisfies the invariant.                                    *)
LEMMA InitIInv == Init => IInv
<1> SUFFICES ASSUME Init PROVE IInv
  OBVIOUS
<1>1. Sound(task, run, nextRun)
  BY StateFacts, BoundsAssumption DEF Init, Sound, TaskTable, RunTable, RunId
<1>2. Rest
  BY DEF Init, Rest, NoCkpt
<1> QED BY <1>1, <1>2 DEF IInv

(* The row of an active run and the row of its task.                       *)
LEMMA ActiveRow ==
  ASSUME IInv, NEW r \in RunId, run[r].state \in Active
  PROVE  /\ run \in RunTable /\ task \in TaskTable
         /\ run[r] \in RunRow /\ run[r].task \in Task
         /\ task[run[r].task] \in TaskRow
         /\ task[run[r].task].last_attempt_run = r
         /\ task[run[r].task].attempts = run[r].attempt
<1>1. Sound(task, run, nextRun)
  BY DEF IInv
<1>2. run \in RunTable /\ task \in TaskTable
  BY <1>1 DEF Sound
<1> QED BY <1>1, <1>2, ActiveIsLast

(* One active run r and its task move to the state st.                     *)
LEMMA MoveOne ==
  ASSUME IInv, NEW r \in RunId, run[r].state \in Active, NEW st \in State,
         NEW new \in RunRow, new.state = st, new.task = run[r].task,
         new.attempt = run[r].attempt,
         NEW row \in TaskRow, row.state = st, row.attempts = run[r].attempt,
         row.last_attempt_run = r, row.max_attempts = task[run[r].task].max_attempts,
         run' = [run EXCEPT ![r] = new], task' = [task EXCEPT ![run[r].task] = row]
  PROVE  MoveTogether(task, run, task', run', {r}, st)
<1>1. run \in RunTable /\ task \in TaskTable /\ run[r].task \in Task
  BY ActiveRow
<1>2. /\ task' = [t \in Task |-> task'[t]] /\ run' = [q \in RunId |-> run'[q]]
      /\ task'[run[r].task] = row /\ run'[r] = new
      /\ \A q \in RunId \ {r} : run'[q] = run[q]
      /\ \A t \in Task : t # run[r].task => task'[t] = task[t]
  BY <1>1 DEF TaskTable, RunTable
<1> QED BY <1>2 DEF MoveTogether

(* A call that moves runs together with their tasks keeps the tables sound. *)
LEMMA MovedInv ==
  ASSUME IInv, NEW M, NEW st, MoveTogether(task, run, task', run', M, st),
         nextRun' = nextRun
  PROVE  Sound(task', run', nextRun')
BY MoveSound DEF IInv

(* spawn_task keeps the invariant.                                         *)
LEMMA SpawnInv ==
  ASSUME IInv, NEW t \in Task, NEW p \in PolicyType, NEW max \in OrNull(Nat \ {0}),
         NEW k \in OrNull(Key), SpawnTask(t, p, max, k)
  PROVE  IInv'
<1> DEFINE row == NewTask(p, max, k, nextRun)
           new == NewRun(t, 1, "pending", now)
<1>1. row \in TaskRow /\ new \in RunRow
  BY DEF SpawnTask, IInv, Rest, NewTask, NewRun, TaskRow, RunRow, State, Active, OrNull, RunId
<1>2. task[t].state \notin State
  BY StateFacts DEF SpawnTask
<1>3. Sound([task EXCEPT ![t] = row], [run EXCEPT ![nextRun] = new], nextRun + 1)
  <2>1. /\ row.state = "pending" /\ row.last_attempt_run = nextRun /\ row.attempts = 1
        /\ new.state = "pending" /\ new.task = t /\ new.attempt = 1 /\ 1 \in 1 .. nextRun
    BY DEF NewTask, NewRun, SpawnTask, RunId
  <2> HIDE DEF row, new
  <2> QED BY <1>1, <1>2, <2>1, AppendSound DEF SpawnTask, IInv
<1>4. Sound(task', run', nextRun')
  BY <1>3 DEF SpawnTask
<1> QED BY <1>4 DEF SpawnTask, IInv, Rest

(* claim_task keeps the invariant through its three stages: it cancels,    *)
(* fails and hands out.                                                    *)
LEMMA ClaimInv ==
  ASSUME IInv, NEW qty \in Qty, NEW lease \in Nat, ClaimTask(qty, lease)
  PROVE  IInv'
<1> DEFINE tk1 == CancelTasks(task, DueForCancel)
           rn1 == CancelRuns(run, DueForCancel)
<1>1. Sound(tk1, rn1, nextRun) /\ now \in Nat
  BY CancelSound DEF IInv, Rest, DueForCancel
<1>2. PICK E \in Batches(Expired(rn1), qty) :
        /\ nextRun + Cardinality(Retried(tk1, rn1, E, Null)) <= MaxRuns + 1
        /\ nextRun' = nextRun + Cardinality(Retried(tk1, rn1, E, Null))
        /\ \E id \in FreshIds(Retried(tk1, rn1, E, Null)) :
             \E C \in Batches(Candidates(FailTasks(tk1, rn1, E, Null, id),
                                         FailRuns(tk1, rn1, E, Null, id)), qty) :
               /\ task' = ClaimTasks(FailTasks(tk1, rn1, E, Null, id),
                                     FailRuns(tk1, rn1, E, Null, id), C)
               /\ run' = ClaimRuns(FailRuns(tk1, rn1, E, Null, id), C, lease)
               /\ wait' \subseteq wait
        /\ UNCHANGED <<ckpt, event, now>>
  BY DEF ClaimTask
<1>3. PICK id \in FreshIds(Retried(tk1, rn1, E, Null)) :
        \E C \in Batches(Candidates(FailTasks(tk1, rn1, E, Null, id),
                                    FailRuns(tk1, rn1, E, Null, id)), qty) :
          /\ task' = ClaimTasks(FailTasks(tk1, rn1, E, Null, id),
                                FailRuns(tk1, rn1, E, Null, id), C)
          /\ run' = ClaimRuns(FailRuns(tk1, rn1, E, Null, id), C, lease)
          /\ wait' \subseteq wait
  BY <1>2
<1> DEFINE tk2 == FailTasks(tk1, rn1, E, Null, id)
           rn2 == FailRuns(tk1, rn1, E, Null, id)
<1>4. PICK C \in Batches(Candidates(tk2, rn2), qty) :
        /\ task' = ClaimTasks(tk2, rn2, C)
        /\ run' = ClaimRuns(rn2, C, lease)
        /\ wait' \subseteq wait
  BY <1>3
<1> HIDE DEF tk1, rn1
<1>5. Sound(tk2, rn2, nextRun')
  <2>1. E \in SUBSET RunId /\ \A r \in E : rn1[r].state \in {"running", "sleeping"}
    BY <1>2 DEF Batches, Expired
  <2>2. Null \in OrNull(Nat)
    BY DEF OrNull
  <2> QED BY <1>1, <1>2, <1>3, <2>1, <2>2, FailSound
<1> HIDE DEF tk2, rn2
<1>6. Sound(task', run', nextRun')
  <2>1. C \in SUBSET Candidates(tk2, rn2)
    BY <1>4 DEF Batches
  <2> QED BY <1>1, <1>4, <1>5, <2>1, ClaimSound
<1> QED BY <1>2, <1>4, <1>6 DEF IInv, Rest

(* complete_run moves the run and its task.                                       *)
LEMMA CompleteMoves ==
  ASSUME IInv, NEW r \in RunId, CompleteRun(r)
  PROVE  MoveTogether(task, run, task', run', {r}, "completed")
<1> DEFINE new == [run[r] EXCEPT !.state = "completed", !.ended_at = now]
           row == [task[run[r].task] EXCEPT !.state = "completed", !.last_attempt_run = r]
<1>1. run[r].state \in Active
  BY DEF CompleteRun, Active
<1>2. /\ run \in RunTable /\ task \in TaskTable /\ run[r] \in RunRow /\ run[r].task \in Task
      /\ task[run[r].task] \in TaskRow
      /\ task[run[r].task].attempts = run[r].attempt
  BY <1>1, ActiveRow
<1>3. /\ new \in RunRow /\ new.state = "completed" /\ new.task = run[r].task
      /\ new.attempt = run[r].attempt
      /\ row \in TaskRow /\ row.state = "completed" /\ row.attempts = run[r].attempt
      /\ row.last_attempt_run = r /\ row.max_attempts = task[run[r].task].max_attempts
  BY ZenonT(120), <1>2 DEF RunRow, TaskRow, State, Terminal, OrNull, IInv, Rest
<1>4. "completed" \in State
  BY DEF State, Terminal
<1>5. /\ run' = [run EXCEPT ![r] = new]
      /\ task' = [task EXCEPT ![run[r].task] = row]
  BY <1>2 DEF CompleteRun, RunTable, TaskTable
<1> HIDE DEF new, row
<1> QED BY <1>1, <1>3, <1>4, <1>5, MoveOne

(* complete_run keeps the invariant.                                       *)
LEMMA CompleteInv ==
  ASSUME IInv, NEW r \in RunId, CompleteRun(r)
  PROVE  IInv'
<1>1. Sound(task', run', nextRun')
  BY CompleteMoves, MovedInv DEF CompleteRun
<1> QED BY SMTT(60), <1>1 DEF CompleteRun, IInv, Rest

(* schedule_run moves the run and its task.                                       *)
LEMMA ScheduleMoves ==
  ASSUME IInv, NEW r \in RunId, NEW at \in Nat, ScheduleRun(r, at)
  PROVE  MoveTogether(task, run, task', run', {r}, "sleeping")
<1> DEFINE new == [run[r] EXCEPT !.state = "sleeping", !.claim_expires_at = Null,
                                 !.available_at = at, !.wake_event = Null]
           row == [task[run[r].task] EXCEPT !.state = "sleeping"]
<1>1. run[r].state \in Active
  BY DEF ScheduleRun, Active
<1>2. /\ run \in RunTable /\ task \in TaskTable /\ run[r] \in RunRow /\ run[r].task \in Task
      /\ task[run[r].task] \in TaskRow
      /\ task[run[r].task].attempts = run[r].attempt
      /\ task[run[r].task].last_attempt_run = r
  BY SMTT(60), <1>1, ActiveRow
<1>3. /\ new \in RunRow /\ new.state = "sleeping" /\ new.task = run[r].task
      /\ new.attempt = run[r].attempt
      /\ row \in TaskRow /\ row.state = "sleeping" /\ row.attempts = run[r].attempt
      /\ row.last_attempt_run = r /\ row.max_attempts = task[run[r].task].max_attempts
  BY ZenonT(60), <1>2 DEF RunRow, TaskRow, State, Active, OrNull
<1>4. "sleeping" \in State
  BY DEF State, Active
<1>5. /\ run' = [run EXCEPT ![r] = new]
      /\ task' = [task EXCEPT ![run[r].task] = row]
  BY <1>2 DEF ScheduleRun, RunTable, TaskTable
<1> HIDE DEF new, row
<1> QED BY <1>1, <1>3, <1>4, <1>5, MoveOne

(* schedule_run keeps the invariant.                                       *)
LEMMA ScheduleInv ==
  ASSUME IInv, NEW r \in RunId, NEW at \in Nat, ScheduleRun(r, at)
  PROVE  IInv'
<1>1. Sound(task', run', nextRun')
  BY ScheduleMoves, MovedInv DEF ScheduleRun
<1> QED BY SMTT(60), <1>1 DEF ScheduleRun, IInv, Rest

(* fail_run keeps the invariant.                                           *)
LEMMA FailInv ==
  ASSUME IInv, NEW r \in RunId, NEW at \in OrNull(Nat), FailRun(r, at)
  PROVE  IInv'
<1> DEFINE R == Retried(task, run, {r}, at)
<1>1. PICK id \in FreshIds(R) :
        /\ task' = FailTasks(task, run, {r}, at, id)
        /\ run' = FailRuns(task, run, {r}, at, id)
  BY DEF FailRun
<1>2. /\ nextRun + Cardinality(R) <= MaxRuns + 1 /\ nextRun' = nextRun + Cardinality(R)
      /\ {r} \in SUBSET RunId /\ \A q \in {r} : run[q].state \in {"running", "sleeping"}
      /\ Sound(task, run, nextRun) /\ now \in Nat
  BY DEF FailRun, Failable, IInv, Rest
<1>3. Sound(task', run', nextRun')
  BY <1>1, <1>2, FailSound
<1> QED BY <1>3 DEF FailRun, IInv, Rest

(* retry_task keeps the invariant: all runs of a failed task have failed.  *)
LEMMA RetryInv ==
  ASSUME IInv, NEW t \in Task, NEW m \in OrNull(Nat \ {0}), RetryTask(t, m)
  PROVE  IInv'
<1> DEFINE n == task[t].attempts + 1
           max == Coalesce(m, Coalesce(task[t].max_attempts, task[t].attempts) + 1)
           row == [task[t] EXCEPT !.state = "pending", !.attempts = n,
                                  !.max_attempts = max, !.cancelled_at = Null,
                                  !.last_attempt_run = nextRun]
           new == NewRun(t, n, "pending", now)
<1>1. /\ task[t].state = "failed" /\ task[t].state \in State /\ nextRun \in RunId
      /\ task \in TaskTable /\ run \in RunTable /\ Sound(task, run, nextRun) /\ now \in Nat
  BY DEF RetryTask, Retriable, State, Terminal, IInv, Rest, Sound
<1>2. task[t] \in TaskRow
  BY <1>1, Rows
<1>3. n \in 1 .. nextRun
  <2> DEFINE last == task[t].last_attempt_run
  <2>1. last \in RunId /\ run[last].state \in State /\ run[last].attempt = task[t].attempts
        /\ run[last].task = t
    BY <1>1, <1>2 DEF Sound, Mirrored, TaskRow
  <2>2. run[last].attempt \in 1 .. last
    BY <1>1, <2>1 DEF Sound, Placed
  <2>3. last < nextRun
    BY <1>1, <2>1, StateFacts DEF Sound, RunId
  <2> QED BY <1>1, <2>1, <2>2, <2>3 DEF RunId
<1>4. max \in OrNull(Nat \ {0})
  BY <1>2, NullAssumption DEF Coalesce, OrNull, TaskRow
<1>5. /\ row \in TaskRow /\ row.state = "pending" /\ row.last_attempt_run = nextRun
      /\ row.attempts = n
  <2>1. n \in Nat
    BY <1>1, <1>3 DEF RunId
  <2> HIDE DEF max, n
  <2> QED BY <1>1, <1>2, <1>4, <2>1 DEF TaskRow, State, Active, OrNull
<1>6. /\ new \in RunRow /\ new.state = "pending" /\ new.task = t /\ new.attempt = n
  <2> HIDE DEF n
  <2> QED BY <1>1, <1>3 DEF NewRun, RunRow, State, Active, OrNull
<1>7. task' = [task EXCEPT ![t] = row] /\ run' = [run EXCEPT ![nextRun] = new]
      /\ nextRun' = nextRun + 1
  BY DEF RetryTask
<1> HIDE DEF row, new, n
<1>8. Sound(task', run', nextRun')
  BY <1>1, <1>3, <1>5, <1>6, <1>7, AppendSound
<1> QED BY <1>8 DEF RetryTask, IInv, Rest

(* An active or terminal run keeps its identity and its state.             *)
LEMMA TouchOne ==
  ASSUME IInv, NEW r \in RunId, run[r].state \in State, NEW new \in RunRow,
         new.state = run[r].state, new.task = run[r].task, new.attempt = run[r].attempt
  PROVE  Sound(task, [run EXCEPT ![r] = new], nextRun)
BY TouchSound DEF IInv

(* A run id that a call names and that has a row.                          *)
LEMMA RunFacts ==
  ASSUME IInv, NEW r \in RunId, run[r].state # "absent"
  PROVE  run[r].state \in State /\ run[r] \in RunRow /\ run[r].task \in Task /\ run \in RunTable
<1>1. run \in RunTable /\ run[r] # NoRun
  BY StateFacts DEF IInv, Sound
<1> QED BY <1>1 DEF RunTable, RunRow

(* set_task_checkpoint_state keeps the invariant.                          *)
LEMMA CheckpointInv ==
  ASSUME IInv, NEW r \in RunId, NEW s \in Step, NEW v \in Value, NEW x \in Nat,
         SetTaskCheckpointState(r, s, v, x)
  PROVE  IInv'
<1> DEFINE new == [run[r] EXCEPT !.claim_expires_at = now + x]
<1>1. /\ run[r].state \in State /\ run[r] \in RunRow /\ run[r].task \in Task
      /\ run \in RunTable /\ Rest
  BY RunFacts DEF SetTaskCheckpointState, MayCheckpoint, IInv
<1>2. Sound(task, run', nextRun)
  <2>1. CASE run' = run
    BY <2>1 DEF IInv
  <2>2. CASE run' = [run EXCEPT ![r] = new]
    <3>1. /\ new \in RunRow /\ new.state = run[r].state /\ new.task = run[r].task
          /\ new.attempt = run[r].attempt
      BY <1>1 DEF RunRow, OrNull, Rest
    <3> HIDE DEF new
    <3> QED BY <1>1, <2>2, <3>1, TouchOne
  <2> QED BY <1>1, <2>1, <2>2 DEF SetTaskCheckpointState, RunTable
<1>3. ckpt' \in [Task -> [Step -> Checkpoint \union {Null}]]
  <2>1. [value |-> v, owner |-> r] \in Checkpoint
    BY DEF Checkpoint
  <2> QED BY <1>1, <2>1 DEF SetTaskCheckpointState, Rest
<1> QED BY <1>1, <1>2, <1>3 DEF SetTaskCheckpointState, IInv, Rest

(* extend_claim keeps the invariant.                                       *)
LEMMA ExtendInv ==
  ASSUME IInv, NEW r \in RunId, NEW x \in Nat, ExtendClaim(r, x)
  PROVE  IInv'
<1> DEFINE new == [run[r] EXCEPT !.claim_expires_at = now + x]
<1>1. run[r].state \in State /\ run[r] \in RunRow /\ run \in RunTable
  BY RunFacts DEF ExtendClaim
<1>2. /\ new \in RunRow /\ new.state = run[r].state /\ new.task = run[r].task
      /\ new.attempt = run[r].attempt
  BY <1>1 DEF RunRow, OrNull, IInv, Rest
<1>3. run' = [run EXCEPT ![r] = new]
  BY <1>1 DEF ExtendClaim, RunTable
<1> HIDE DEF new
<1>4. Sound(task, run', nextRun)
  BY <1>1, <1>2, <1>3, TouchOne
<1> QED BY <1>4 DEF ExtendClaim, IInv, Rest

(* await_event: its three outcomes.                                        *)
LEMMA AwaitingEvent ==
  ASSUME IInv, NEW r \in RunId, NEW s \in Step, NEW e \in Event, Awaiting(r, s, e)
  PROVE  /\ run[r].state = "running" /\ run[r].state \in State /\ run[r].state \in Active
         /\ run[r] \in RunRow /\ run[r].task \in Task /\ run \in RunTable
         /\ event' \in [Event -> EventRow \union {Null}]
         /\ now' = now /\ nextRun' = nextRun /\ Rest
         /\ Payload(e) \in OrNull(Value)
<1>1. run[r].state = "running" /\ Rest
  BY DEF Awaiting, IInv
<1>2. Sentinel \in EventRow
  BY DEF Sentinel, EventRow, OrNull
<1>3. event' \in [Event -> EventRow \union {Null}]
  BY <1>1, <1>2 DEF Awaiting, Rest
<1>4. Payload(e) \in OrNull(Value)
  BY <1>1 DEF Payload, Rest, EventRow, OrNull
<1> QED BY <1>1, <1>3, <1>4, RunFacts DEF Awaiting, Active

(* await_event on an emitted event keeps the invariant.                    *)
LEMMA ResolvedInv ==
  ASSUME IInv, NEW r \in RunId, NEW s \in Step, NEW e \in Event, AwaitResolved(r, s, e)
  PROVE  IInv'
<1> DEFINE new == [run[r] EXCEPT !.event_payload = Null]
<1>1. /\ run[r].state \in State /\ run[r] \in RunRow /\ run[r].task \in Task
      /\ run \in RunTable /\ event' \in [Event -> EventRow \union {Null}]
      /\ now' = now /\ nextRun' = nextRun /\ Rest /\ Payload(e) \in OrNull(Value)
  BY AwaitingEvent DEF AwaitResolved
<1>2. /\ new \in RunRow /\ new.state = run[r].state /\ new.task = run[r].task
      /\ new.attempt = run[r].attempt /\ run' = [run EXCEPT ![r] = new]
  BY <1>1 DEF AwaitResolved, RunRow, RunTable, OrNull
<1> HIDE DEF new
<1>3. Sound(task, run', nextRun)
  BY <1>1, <1>2, TouchOne
<1>4. ckpt' \in [Task -> [Step -> Checkpoint \union {Null}]]
  <2>1. [value |-> Payload(e), owner |-> r] \in Checkpoint
    BY <1>1 DEF AwaitResolved, Checkpoint, OrNull
  <2> QED BY <1>1, <2>1 DEF AwaitResolved, Rest
<1> QED BY <1>1, <1>3, <1>4 DEF AwaitResolved, IInv, Rest

(* await_event after its timeout keeps the invariant.                      *)
LEMMA TimedOutInv ==
  ASSUME IInv, NEW r \in RunId, NEW s \in Step, NEW e \in Event, AwaitTimedOut(r, s, e)
  PROVE  IInv'
<1> DEFINE new == [run[r] EXCEPT !.wake_event = Null]
<1>1. /\ run[r].state \in State /\ run[r] \in RunRow
      /\ run \in RunTable /\ event' \in [Event -> EventRow \union {Null}]
      /\ now' = now /\ nextRun' = nextRun /\ Rest
  BY AwaitingEvent DEF AwaitTimedOut
<1>2. /\ new \in RunRow /\ new.state = run[r].state /\ new.task = run[r].task
      /\ new.attempt = run[r].attempt /\ run' = [run EXCEPT ![r] = new]
  BY <1>1 DEF AwaitTimedOut, RunRow, RunTable, OrNull
<1> HIDE DEF new
<1>3. Sound(task, run', nextRun)
  BY <1>1, <1>2, TouchOne
<1> QED BY <1>1, <1>3 DEF AwaitTimedOut, IInv, Rest

(* await_event that suspends moves the run and its task.                   *)
LEMMA SuspendedMoves ==
  ASSUME IInv, NEW r \in RunId, NEW s \in Step, NEW e \in Event, NEW x \in OrNull(Nat),
         AwaitSuspended(r, s, e, x)
  PROVE  MoveTogether(task, run, task', run', {r}, "sleeping") /\ Rest'
<1> DEFINE timeoutAt == IF x = Null THEN Null ELSE now + x
           new == [run[r] EXCEPT !.state = "sleeping", !.claim_expires_at = Null,
                                 !.available_at = WakeTime(timeoutAt), !.wake_event = e,
                                 !.event_payload = Null]
           row == [task[run[r].task] EXCEPT !.state = "sleeping"]
<1>1. /\ run[r].state \in Active /\ run[r] \in RunRow /\ run[r].task \in Task
      /\ run \in RunTable /\ event' \in [Event -> EventRow \union {Null}]
      /\ now' = now /\ nextRun' = nextRun /\ Rest
  BY AwaitingEvent DEF AwaitSuspended
<1>2. /\ task \in TaskTable /\ task[run[r].task] \in TaskRow
      /\ task[run[r].task].attempts = run[r].attempt
      /\ task[run[r].task].last_attempt_run = r
  BY <1>1, ActiveRow
<1>3. timeoutAt \in OrNull(Nat) /\ WakeTime(timeoutAt) \in Nat \union {Infinity}
  BY <1>1, NullAssumption DEF Rest, OrNull, WakeTime, Coalesce
<1>4. /\ run' = [run EXCEPT ![r] = new]
      /\ task' = [task EXCEPT ![run[r].task] = row]
      /\ wait' \subseteq wait \union {[run |-> r, task |-> run[r].task, step |-> s,
                                       event |-> e, timeout_at |-> timeoutAt]}
  BY ZenonT(60), <1>1, <1>2 DEF AwaitSuspended, RunTable, TaskTable
<1>5. ckpt' = ckpt
  BY DEF AwaitSuspended
<1> HIDE DEF timeoutAt
<1>6. /\ new \in RunRow /\ new.state = "sleeping" /\ new.task = run[r].task
      /\ new.attempt = run[r].attempt
      /\ row \in TaskRow /\ row.state = "sleeping" /\ row.attempts = run[r].attempt
      /\ row.last_attempt_run = r /\ "sleeping" \in State
      /\ row.max_attempts = task[run[r].task].max_attempts
  BY ZenonT(120), <1>1, <1>2, <1>3 DEF RunRow, TaskRow, State, Active, OrNull
<1> HIDE DEF new, row
<1>7. MoveTogether(task, run, task', run', {r}, "sleeping")
  BY <1>1, <1>4, <1>6, MoveOne
<1>8. wait' \subseteq WaitRow
  <2>1. [run |-> r, task |-> run[r].task, step |-> s,
         event |-> e, timeout_at |-> timeoutAt] \in WaitRow
    BY <1>1, <1>3 DEF WaitRow
  <2> QED BY <1>1, <1>4, <2>1 DEF Rest
<1> QED BY <1>1, <1>5, <1>7, <1>8 DEF Rest

(* await_event that suspends the run keeps the invariant.                  *)
LEMMA SuspendedInv ==
  ASSUME IInv, NEW r \in RunId, NEW s \in Step, NEW e \in Event, NEW x \in OrNull(Nat),
         AwaitSuspended(r, s, e, x)
  PROVE  IInv'
<1>1. nextRun' = nextRun
  BY DEF AwaitSuspended, Awaiting
<1> QED BY <1>1, SuspendedMoves, MovedInv DEF IInv

(* The runs that emit_event wakes.                                         *)
Woken(e) == {r \in RunId : run[r].state = "sleeping" /\ \E w \in Affected(e) : w.run = r}

(* emit_event moves the runs that it wakes, all of them asleep.            *)
LEMMA EmitMoves ==
  ASSUME IInv, NEW e \in Event, NEW v \in Value, EmitEvent(e, v)
  PROVE  MoveTogether(task, run, task', run', Woken(e), "pending") /\ Rest'
<1> DEFINE affected == Affected(e)
           woken == {r \in RunId : run[r].state = "sleeping" /\ \E w \in affected : w.run = r}
           stepsOf(t) == {w \in affected : w.task = t /\ w.run \in woken}
<1>0. Sound(task, run, nextRun) /\ Rest
  BY DEF IInv
<1>1. ASSUME NEW r \in woken
      PROVE  /\ r \in RunId /\ run[r].state \in Active /\ run[r] \in RunRow /\ run[r].task \in Task
             /\ task[run[r].task] \in TaskRow
             /\ task[run[r].task].attempts = run[r].attempt
             /\ task[run[r].task].last_attempt_run = r
  <2>1. r \in RunId /\ run[r].state \in Active
    BY DEF Active
  <2> QED BY <2>1, ActiveRow
<1>2. ASSUME NEW r \in woken
      PROVE  /\ run'[r] \in RunRow /\ run'[r].state = "pending"
             /\ run'[r].task = run[r].task /\ run'[r].attempt = run[r].attempt
  <2>1. run'[r] = [run[r] EXCEPT !.state = "pending", !.available_at = now,
                                 !.wake_event = Null, !.event_payload = v,
                                 !.claim_expires_at = Null]
    BY <1>1 DEF EmitEvent
  <2>2. run[r] \in RunRow /\ now \in Nat
    BY <1>0, <1>1 DEF Rest
  <2> HIDE DEF woken
  <2> QED BY ZenonT(60), <2>1, <2>2 DEF RunRow, State, Active, OrNull
<1>3. ASSUME NEW r \in woken
      PROVE  /\ task'[run[r].task] \in TaskRow /\ task'[run[r].task].state = "pending"
             /\ task'[run[r].task].attempts = run[r].attempt
             /\ task'[run[r].task].last_attempt_run = r
             /\ task'[run[r].task].max_attempts = task[run[r].task].max_attempts
  <2>1. task'[run[r].task] = [task[run[r].task] EXCEPT !.state = "pending"]
    BY <1>1 DEF EmitEvent
  <2> QED BY SMTT(60), <1>1, <2>1 DEF TaskRow, State, Active
<1>4. /\ \A r \in RunId \ woken : run'[r] = run[r]
      /\ \A t \in Task : (\A r \in woken : run[r].task # t) => task'[t] = task[t]
      /\ task' = [t \in Task |-> task'[t]] /\ run' = [r \in RunId |-> run'[r]]
  BY DEF EmitEvent
<1>5. ckpt' \in [Task -> [Step -> Checkpoint \union {Null}]]
  <2>1. ckpt' = [t \in Task |-> [s \in Step |->
                  IF \E w \in stepsOf(t) : w.step = s
                  THEN [value |-> v, owner |-> (CHOOSE w \in stepsOf(t) : w.step = s).run]
                  ELSE ckpt[t][s]]]
    BY DEF EmitEvent
  <2>2. ASSUME NEW t \in Task, NEW s \in Step, \E w \in stepsOf(t) : w.step = s
        PROVE  [value |-> v, owner |-> (CHOOSE w \in stepsOf(t) : w.step = s).run] \in Checkpoint
    <3>1. (CHOOSE w \in stepsOf(t) : w.step = s) \in stepsOf(t)
      BY <2>2
    <3>2. (CHOOSE w \in stepsOf(t) : w.step = s).run \in RunId
      BY <3>1
    <3> HIDE DEF stepsOf
    <3> QED BY <3>2 DEF Checkpoint
  <2> HIDE DEF stepsOf
  <2> QED BY <1>0, <2>1, <2>2 DEF Rest
<1>6. /\ event' \in [Event -> EventRow \union {Null}]
      /\ wait' \subseteq wait /\ now' = now /\ nextRun' = nextRun
  BY <1>0 DEF EmitEvent, EventRow, OrNull, Rest
<1>7. woken \in SUBSET RunId /\ "pending" \in State /\ \A r \in woken : run[r].state \in Active
  BY <1>1 DEF State, Active
<1> HIDE DEF woken
<1>8. MoveTogether(task, run, task', run', woken, "pending")
  BY <1>2, <1>3, <1>4, <1>7 DEF MoveTogether
<1> QED BY <1>0, <1>5, <1>6, <1>8 DEF Rest, Woken, woken

(* emit_event keeps the invariant.                                         *)
LEMMA EmitInv ==
  ASSUME IInv, NEW e \in Event, NEW v \in Value, EmitEvent(e, v)
  PROVE  IInv'
<1>1. nextRun' = nextRun
  BY DEF EmitEvent
<1> QED BY <1>1, EmitMoves, MovedInv DEF IInv

(* cancel_task keeps the invariant.                                        *)
LEMMA CancelInv ==
  ASSUME IInv, NEW t \in Task, CancelTask(t)
  PROVE  IInv'
<1>1. /\ Sound(task, run, nextRun) /\ now \in Nat
      /\ {t} \in SUBSET Task /\ \A u \in {t} : task[u].state \in Active
      /\ task' = CancelTasks(task, {t}) /\ run' = CancelRuns(run, {t})
      /\ nextRun' = nextRun
  BY DEF CancelTask, Cancellable, IInv, Rest
<1>2. Sound(task', run', nextRun')
  BY <1>1, CancelSound
<1> QED BY <1>2 DEF CancelTask, IInv, Rest

(* cleanup_tasks keeps the invariant.                                      *)
LEMMA CleanupTasksInv ==
  ASSUME IInv, NEW ttl \in Ttl, CleanupTasks(ttl)
  PROVE  IInv'
<1>1. PICK D \in SUBSET Task :
        /\ task' = [t \in Task |-> IF t \in D THEN GoneTask ELSE task[t]]
        /\ run' = [r \in RunId |-> IF run[r].state \in State /\ run[r].task \in D
                                   THEN NoRun ELSE run[r]]
        /\ ckpt' = DeleteCheckpoints(D)
        /\ wait' \subseteq wait
        /\ UNCHANGED <<event, now, nextRun>>
  BY DEF CleanupTasks, OldestBatches
<1>2. Sound(task', run', nextRun')
  <2>1. Sound(task, run, nextRun)
    BY DEF IInv
  <2> QED BY <1>1, <2>1, DeleteSound
<1>3. ckpt' \in [Task -> [Step -> Checkpoint \union {Null}]]
  BY <1>1 DEF DeleteCheckpoints, NoCkpt, IInv, Rest
<1> QED BY <1>1, <1>2, <1>3 DEF IInv, Rest

(* cleanup_events keeps the invariant.                                     *)
LEMMA CleanupEventsInv ==
  ASSUME IInv, NEW ttl \in Ttl, CleanupEvents(ttl)
  PROVE  IInv'
BY DEF CleanupEvents, IInv, Rest

-----------------------------------------------------------------------------
(* Every call keeps the invariant.                                         *)
LEMMA NextIInv == IInv /\ [Next]_vars => IInv'
<1> SUFFICES ASSUME IInv, [Next]_vars PROVE IInv'
  OBVIOUS
<1> USE InputAssumption
<1>0. now \in Nat /\ Null \in OrNull(Nat)
  BY DEF IInv, Rest, OrNull
<1>1. ASSUME NEW t \in Task, NEW p \in Policy, NEW k \in OrNull(Key),
             SpawnTask(t, p, p.max_attempts, k)
      PROVE  IInv'
  <2>1. p \in PolicyType /\ p.max_attempts \in OrNull(Nat \ {0})
    BY DEF PolicyType
  <2> QED BY <1>1, <2>1, SpawnInv
<1>2. ASSUME NEW qty \in Qty, NEW lease \in Lease, ClaimTask(qty, lease)
      PROVE  IInv'
  BY <1>2, ClaimInv
<1>3. ASSUME NEW r \in RunId, CompleteRun(r)
      PROVE  IInv'
  BY <1>3, CompleteInv
<1>4. ASSUME NEW r \in RunId, NEW d \in Delay, ScheduleRun(r, now + d)
      PROVE  IInv'
  BY <1>0, <1>4, ScheduleInv
<1>5. ASSUME NEW r \in RunId, NEW at \in {Null} \union {now + d : d \in Delay}, FailRun(r, at)
      PROVE  IInv'
  <2>1. at \in OrNull(Nat)
    BY <1>0 DEF OrNull
  <2> QED BY <1>5, <2>1, FailInv
<1>6. ASSUME NEW t \in Task, NEW m \in MaxAttempts, RetryTask(t, m)
      PROVE  IInv'
  BY <1>6, RetryInv
<1>7. ASSUME NEW t \in Task, NEW u \in Task, NEW m \in MaxAttempts, RetryAsNew(t, u, m)
      PROVE  IInv'
  <2>1. task[t] \in TaskRow
    BY <1>7, Rows DEF RetryAsNew, Retriable, State, Terminal, IInv, Sound
  <2>2. /\ task[t].policy \in PolicyType
        /\ Coalesce(m, task[t].max_attempts) \in OrNull(Nat \ {0})
        /\ Null \in OrNull(Key)
    BY <2>1 DEF TaskRow, Coalesce, OrNull
  <2>3. SpawnTask(u, task[t].policy, Coalesce(m, task[t].max_attempts), Null)
    BY <1>7 DEF RetryAsNew
  <2> QED BY <2>2, <2>3, SpawnInv
<1>8. ASSUME NEW r \in RunId, NEW s \in Step, NEW v \in Value, NEW x \in Lease,
             SetTaskCheckpointState(r, s, v, x)
      PROVE  IInv'
  BY <1>8, CheckpointInv
<1>9. ASSUME NEW r \in RunId, NEW x \in Lease, ExtendClaim(r, x)
      PROVE  IInv'
  BY <1>9, ExtendInv
<1>10. ASSUME NEW r \in RunId, NEW s \in Step, NEW e \in Event, AwaitResolved(r, s, e)
       PROVE  IInv'
  BY <1>10, ResolvedInv
<1>11. ASSUME NEW r \in RunId, NEW s \in Step, NEW e \in Event, AwaitTimedOut(r, s, e)
       PROVE  IInv'
  BY <1>11, TimedOutInv
<1>12. ASSUME NEW r \in RunId, NEW s \in Step, NEW e \in Event, NEW x \in Timeout,
              AwaitSuspended(r, s, e, x)
       PROVE  IInv'
  BY <1>12, SuspendedInv
<1>13. ASSUME NEW e \in Event, NEW v \in Value, EmitEvent(e, v)
       PROVE  IInv'
  BY <1>13, EmitInv
<1>14. ASSUME NEW t \in Task, CancelTask(t)
       PROVE  IInv'
  BY <1>14, CancelInv
<1>15. ASSUME NEW ttl \in Ttl, CleanupTasks(ttl)
       PROVE  IInv'
  BY <1>15, CleanupTasksInv
<1>16. ASSUME NEW ttl \in Ttl, CleanupEvents(ttl)
       PROVE  IInv'
  BY <1>16, CleanupEventsInv
<1>17. CASE Tick
  BY <1>17 DEF Tick, IInv, Rest
<1>18. CASE UNCHANGED vars
  BY <1>18 DEF vars, IInv, Rest
<1> QED BY <1>1, <1>2, <1>3, <1>4, <1>5, <1>6, <1>7, <1>8, <1>9, <1>10, <1>11, <1>12,
           <1>13, <1>14, <1>15, <1>16, <1>17, <1>18 DEF Next

(* The invariant holds in every reachable state.                           *)
LEMMA Inductive == Spec => []IInv
BY InitIInv, NextIInv, PTL DEF Spec

(* Type correctness of the five tables.                                    *)
THEOREM TypeCorrect == Spec => []TypeOK
<1>1. IInv => TypeOK
  BY DEF IInv, Rest, Sound, TaskTable, RunTable, TypeOK
<1> QED BY <1>1, Inductive, PTL

(* The task row shows its last run, and every earlier run has failed,      *)
(* whatever the order of the calls of workers, emitters and cleanup.       *)
THEOREM MirrorCorrect == Spec => []TaskMirrorsLastRun
<1>1. IInv => TaskMirrorsLastRun
  <2> SUFFICES ASSUME IInv, NEW t \in Task, Exists(t)
               PROVE  LET last == task[t].last_attempt_run IN
                      /\ last \in RunsOf(run, t)
                      /\ run[last].attempt = task[t].attempts
                      /\ \/ run[last].state = task[t].state
                         \/ run[last].state = "failed" /\ task[t].state = "cancelled"
                      /\ \A r \in RunsOf(run, t) \ {last} : run[r].state = "failed"
    BY DEF TaskMirrorsLastRun
  <2>1. task[t] \in TaskRow /\ Mirrored(task, run, t)
    BY Rows DEF Exists, IInv, Sound
  <2>2. \A r \in RunsOf(run, t) : Placed(task, run, r) /\ run[r].task = t
    BY DEF RunsOf, IInv, Sound
  <2> QED BY <2>1, <2>2 DEF RunsOf, Mirrored, Placed, TaskRow
<1> QED BY <1>1, Inductive, PTL

(* Two runs of one task are never active together.                         *)
THEOREM ActiveRunUnique == Spec => []SingleActiveRun
<1>1. IInv => SingleActiveRun
  <2> SUFFICES ASSUME IInv, NEW t \in Task, NEW q \in RunsOf(run, t), NEW r \in RunsOf(run, t),
                      run[q].state \in Active, run[r].state \in Active
               PROVE  q = r
    BY DEF SingleActiveRun
  <2>1. q \in RunId /\ r \in RunId /\ run[q].task = t /\ run[r].task = t
    BY DEF RunsOf
  <2> QED BY <2>1, ActiveRow
<1> QED BY <1>1, Inductive, PTL

-----------------------------------------------------------------------------
(* The wait rows and the checkpoints: no wakeup is lost, and nothing       *)
(* outlives its task.  Linked, added to the invariant: a wait row agrees   *)
(* with the sleeping run it names, down to the time at which that run is   *)
(* due, a run that sleeps on an event has a wait row or is due, and a      *)
(* checkpoint belongs to a run of its task.                                *)

Agrees(w) ==
  /\ run[w.run].state = "sleeping" /\ run[w.run].task = w.task
  /\ run[w.run].wake_event = w.event
  /\ Coalesce(w.timeout_at, Infinity) = run[w.run].available_at
  /\ Payload(w.event) = Null
Waits(r) == run[r].state = "sleeping" /\ run[r].wake_event # Null
Waiting(r) == \/ Due(run[r].available_at)
              \/ \E w \in wait : w.run = r
Owned(t, s) == ckpt[t][s] # Null => ckpt[t][s].owner \in RunsOf(run, t)

WaitsAgree == \A w \in wait : Agrees(w)
SleepersWait == \A r \in RunId : Waits(r) => Waiting(r)
CheckpointsOwned == \A t \in Task, s \in Step : Owned(t, s)
Linked == WaitsAgree /\ SleepersWait /\ CheckpointsOwned

(* The runs that a step changes.                                           *)
Changed == {r \in RunId : run'[r] # run[r]}

(* The wait rows that are not due stay with the runs that a step leaves    *)
(* alone, and the runs it changes do not sleep on an event afterwards.     *)
QuietWaits ==
  /\ now \in Nat /\ now' \in Nat /\ now <= now'
  /\ \A r \in Changed : ~Waits(r)'
  /\ \A w \in wait' : w \in wait /\ w.run \notin Changed /\ Payload(w.event)' = Null
  /\ \A w \in wait : w.run \notin Changed /\ ~Due(w.timeout_at) => w \in wait'

(* Runs keep their task, and a new checkpoint belongs to a run of its task. *)
QuietCheckpoints ==
  /\ \A r \in RunId : run[r].state \in State =>
       run'[r].state \in State /\ run'[r].task = run[r].task
  /\ \A t \in Task, s \in Step :
       ckpt'[t][s] # ckpt[t][s] => ckpt'[t][s].owner \in RunsOf(run, t)

(* A quiet step keeps wait rows and sleeping runs in agreement.            *)
LEMMA WaitsQuiet ==
  ASSUME IInv, Linked, QuietWaits
  PROVE  WaitsAgree' /\ SleepersWait'
<1>1. ASSUME NEW w \in wait'
      PROVE  Agrees(w)'
  <2>1. /\ w \in wait /\ Payload(w.event)' = Null /\ w.run \in RunId
        /\ run'[w.run] = run[w.run]
    BY DEF QuietWaits, Changed, IInv, Rest, WaitRow
  <2>2. Agrees(w)
    BY <2>1 DEF Linked, WaitsAgree
  <2> QED BY <2>1, <2>2 DEF Agrees
<1>2. ASSUME NEW r \in RunId, Waits(r)'
      PROVE  Waiting(r)'
  <2>1. run'[r] = run[r] /\ r \notin Changed
    BY <1>2 DEF QuietWaits, Changed
  <2>2. Waits(r)
    BY <1>2, <2>1 DEF Waits
  <2>3. Waiting(r)
    BY <2>2 DEF Linked, SleepersWait
  <2>4. run[r].available_at \in Nat \union {Infinity}
    BY <2>2, RunFacts DEF Waits, RunRow
  <2>5. ASSUME NEW w \in wait, w.run = r, Due(w.timeout_at)
        PROVE  Due(run[r].available_at)
    BY <2>5 DEF Linked, WaitsAgree, Agrees, Coalesce, Due
  <2>6. Due(run[r].available_at) => Due(run[r].available_at)'
    BY <2>1, <2>4 DEF QuietWaits, Due
  <2>7. CASE \E w \in wait : w.run = r /\ ~Due(w.timeout_at)
    BY <2>1, <2>7 DEF QuietWaits, Waiting
  <2> QED BY <2>3, <2>5, <2>6, <2>7 DEF Waiting
<1> QED BY <1>1, <1>2 DEF WaitsAgree, SleepersWait

(* A quiet step keeps each checkpoint with a run of its task.              *)
LEMMA CheckpointsQuiet ==
  ASSUME Linked, QuietCheckpoints
  PROVE  CheckpointsOwned'
<1>1. \A t \in Task : \A r \in RunsOf(run, t) : r \in RunsOf(run', t)
  BY DEF QuietCheckpoints, RunsOf
<1> QED BY <1>1 DEF QuietCheckpoints, Linked, CheckpointsOwned, Owned

(* A step that is quiet in both respects keeps the rows linked.            *)
LEMMA Quiet ==
  ASSUME IInv, Linked, QuietWaits, QuietCheckpoints
  PROVE  Linked'
BY WaitsQuiet, CheckpointsQuiet DEF Linked

(* A run that does not sleep has no wait row.                              *)
LEMMA AwakeHasNoWait ==
  ASSUME Linked, NEW r, run[r].state # "sleeping"
  PROVE  \A w \in wait : w.run # r
BY DEF Linked, WaitsAgree, Agrees

(* Most calls change at most the run r, and delete its wait rows if any.   *)
LEMMA OneRun ==
  ASSUME IInv, Linked, NEW r \in RunId, NEW new, run' = [run EXCEPT ![r] = new],
         new.state # "sleeping" \/ new.wake_event = Null,
         run[r].state \in State => new.state \in State /\ new.task = run[r].task,
         run' = run \/ \A w \in wait' : w.run # r,
         wait' \subseteq wait, \A w \in wait : w.run # r => w \in wait',
         run' = run => wait' = wait,
         now' = now, \A e \in Event : Payload(e) = Null => Payload(e)' = Null
  PROVE  /\ QuietWaits
         /\ \A q \in RunId : run[q].state \in State =>
              run'[q].state \in State /\ run'[q].task = run[q].task
<1>1. run \in RunTable /\ now \in Nat
  BY DEF IInv, Sound, Rest
<1>2. run'[r] = new /\ \A q \in RunId : q # r => run'[q] = run[q]
  BY <1>1 DEF RunTable
<1>3. Changed \subseteq {r}
  BY <1>2 DEF Changed
<1>4. \A q \in Changed : ~Waits(q)'
  BY <1>2, <1>3 DEF Waits
<1>5. ASSUME NEW w \in wait'
      PROVE  w \in wait /\ w.run \notin Changed /\ Payload(w.event)' = Null
  <2>1. w \in wait /\ w.event \in Event /\ Payload(w.event) = Null
    BY DEF IInv, Rest, WaitRow, Linked, WaitsAgree, Agrees
  <2> QED BY <1>3, <2>1 DEF Changed
<1>6. ASSUME NEW w \in wait, w.run \notin Changed
      PROVE  w \in wait'
  <2>1. CASE w.run # r
    BY <2>1
  <2>2. CASE w.run = r
    <3>1. run' = run
      BY <1>1, <1>2, <1>6, <2>2 DEF Changed, RunTable
    <3> QED BY <3>1
  <2> QED BY <2>1, <2>2
<1>7. QuietWaits
  BY <1>1, <1>4, <1>5, <1>6 DEF QuietWaits
<1> QED BY <1>2, <1>7

-----------------------------------------------------------------------------
(* The calls of a worker on its run.                                       *)

(* complete_run: a running run has no wait row to lose.                    *)
LEMMA CompleteLinked ==
  ASSUME IInv, Linked, NEW r \in RunId, CompleteRun(r)
  PROVE  Linked'
<1> DEFINE new == [run[r] EXCEPT !.state = "completed", !.ended_at = now]
<1>1. run[r] \in RunRow /\ run \in RunTable
  BY RunFacts DEF CompleteRun
<1>2. /\ run' = [run EXCEPT ![r] = new] /\ new.state = "completed" /\ new.task = run[r].task
      /\ "completed" \in State
  BY <1>1 DEF CompleteRun, RunTable, RunRow, State, Terminal
<1>3. /\ \A w \in wait' : w \in wait /\ w.run # r
      /\ \A w \in wait : w.run # r => w \in wait'
      /\ run' = run => wait' = wait
      /\ now' = now /\ ckpt' = ckpt /\ \A e \in Event : Payload(e)' = Payload(e)
  BY AwakeHasNoWait DEF CompleteRun, Payload
<1> HIDE DEF new
<1>4. QuietWaits /\ QuietCheckpoints
  BY <1>2, <1>3, OneRun DEF QuietCheckpoints
<1> QED BY <1>4, Quiet

(* schedule_run: the run sleeps on the clock, not on an event.             *)
LEMMA ScheduleLinked ==
  ASSUME IInv, Linked, NEW r \in RunId, NEW at, ScheduleRun(r, at)
  PROVE  Linked'
<1> DEFINE new == [run[r] EXCEPT !.state = "sleeping", !.claim_expires_at = Null,
                                 !.available_at = at, !.wake_event = Null]
<1>1. run[r] \in RunRow /\ run \in RunTable
  BY RunFacts DEF ScheduleRun
<1>2. /\ run' = [run EXCEPT ![r] = new] /\ new.state = "sleeping" /\ new.task = run[r].task
      /\ new.wake_event = Null /\ "sleeping" \in State
  BY <1>1 DEF ScheduleRun, RunTable, RunRow, State, Active
<1>3. /\ wait' = wait /\ \A w \in wait' : w.run # r
      /\ now' = now /\ ckpt' = ckpt /\ \A e \in Event : Payload(e)' = Payload(e)
  BY AwakeHasNoWait DEF ScheduleRun, Payload
<1> HIDE DEF new
<1>4. QuietWaits /\ QuietCheckpoints
  BY <1>2, <1>3, OneRun DEF QuietCheckpoints
<1> QED BY <1>4, Quiet

(* A running run keeps its state and its task; only other columns change.  *)
LEMMA TouchRunning ==
  ASSUME IInv, Linked, NEW r \in RunId, run[r].state = "running",
         NEW new, run' = [run EXCEPT ![r] = new],
         new.state = "running", new.task = run[r].task,
         wait' = wait, now' = now,
         \A e \in Event : Payload(e) = Null => Payload(e)' = Null
  PROVE  /\ QuietWaits
         /\ \A q \in RunId : run[q].state \in State =>
              run'[q].state \in State /\ run'[q].task = run[q].task
<1>1. \A w \in wait' : w.run # r
  BY AwakeHasNoWait
<1>2. "running" \in State
  BY DEF State, Active
<1> QED BY <1>1, <1>2, OneRun

(* extend_claim changes the lease of a running run only.                   *)
LEMMA ExtendLinked ==
  ASSUME IInv, Linked, NEW r \in RunId, NEW x, ExtendClaim(r, x)
  PROVE  Linked'
<1> DEFINE new == [run[r] EXCEPT !.claim_expires_at = now + x]
<1>1. run[r] \in RunRow /\ run \in RunTable
  BY RunFacts DEF ExtendClaim
<1>2. /\ run[r].state = "running"
      /\ run' = [run EXCEPT ![r] = new] /\ new.state = "running" /\ new.task = run[r].task
      /\ wait' = wait /\ now' = now /\ ckpt' = ckpt
      /\ \A e \in Event : Payload(e)' = Payload(e)
  BY <1>1 DEF ExtendClaim, RunTable, RunRow, Payload
<1> HIDE DEF new
<1>3. QuietWaits /\ QuietCheckpoints
  BY <1>2, TouchRunning DEF QuietCheckpoints
<1> QED BY <1>3, Quiet

(* set_task_checkpoint_state writes a checkpoint that the run owns.        *)
LEMMA CheckpointLinked ==
  ASSUME IInv, Linked, NEW r \in RunId, NEW s \in Step, NEW v, NEW x,
         SetTaskCheckpointState(r, s, v, x)
  PROVE  Linked'
<1> DEFINE new == [run[r] EXCEPT !.claim_expires_at = now + x]
<1>1. /\ run[r].state \in State /\ run[r] \in RunRow /\ run \in RunTable
      /\ run[r].task \in Task /\ Rest
  BY RunFacts DEF SetTaskCheckpointState, MayCheckpoint, IInv
<1>2. /\ wait' = wait /\ now' = now /\ now \in Nat
      /\ \A e \in Event : Payload(e)' = Payload(e)
  BY <1>1 DEF SetTaskCheckpointState, Payload, Rest
<1>3. /\ QuietWaits
      /\ \A q \in RunId : run[q].state \in State =>
           run'[q].state \in State /\ run'[q].task = run[q].task
  <2>1. CASE run' = run
    <3>1. Changed = {}
      BY <2>1 DEF Changed
    <3>2. \A w \in wait : Payload(w.event)' = Null
      BY <1>1, <1>2 DEF Rest, WaitRow, Linked, WaitsAgree, Agrees
    <3> QED BY <1>2, <2>1, <3>1, <3>2 DEF QuietWaits
  <2>2. CASE run[r].state = "running" /\ run' = [run EXCEPT ![r].claim_expires_at = now + x]
    <3>1. run' = [run EXCEPT ![r] = new] /\ new.state = "running" /\ new.task = run[r].task
      BY <1>1, <2>2 DEF RunTable, RunRow
    <3> HIDE DEF new
    <3> QED BY ZenonT(120), <1>2, <2>2, <3>1, TouchRunning
  <2> QED BY <2>1, <2>2 DEF SetTaskCheckpointState
<1>4. ASSUME NEW t \in Task, NEW q \in Step, ckpt'[t][q] # ckpt[t][q]
      PROVE  ckpt'[t][q].owner \in RunsOf(run, t)
  <2>1. ckpt' = [ckpt EXCEPT ![run[r].task][s] = [value |-> v, owner |-> r]]
    BY <1>4 DEF SetTaskCheckpointState
  <2>2. t = run[r].task /\ q = s /\ ckpt'[t][q].owner = r
    BY <1>1, <1>4, <2>1 DEF Rest
  <2> QED BY <1>1, <2>2 DEF RunsOf
<1>5. QuietCheckpoints
  BY <1>3, <1>4 DEF QuietCheckpoints
<1> QED BY <1>3, <1>5, Quiet

-----------------------------------------------------------------------------
(* await_event and emit_event.                                             *)

(* Making the row of an event leaves it as unanswered as it was.           *)
LEMMA SentinelIsSilent ==
  ASSUME IInv, NEW r, NEW s, NEW e \in Event, Awaiting(r, s, e)
  PROVE  \A x \in Event : Payload(x)' = Payload(x)
BY DEF Awaiting, Payload, Sentinel, IInv, Rest

(* await_event that finds the payload writes a checkpoint the run owns.    *)
LEMMA ResolvedLinked ==
  ASSUME IInv, Linked, NEW r \in RunId, NEW s \in Step, NEW e \in Event,
         AwaitResolved(r, s, e)
  PROVE  Linked'
<1> DEFINE new == [run[r] EXCEPT !.event_payload = Null]
<1>1. /\ run[r].state = "running" /\ run[r].state \in State /\ run[r] \in RunRow
      /\ run \in RunTable /\ run[r].task \in Task /\ Rest /\ now' = now
  BY AwaitingEvent DEF AwaitResolved
<1>2. \A x \in Event : Payload(x)' = Payload(x)
  BY SentinelIsSilent DEF AwaitResolved
<1>3. /\ run' = [run EXCEPT ![r] = new] /\ new.state = "running" /\ new.task = run[r].task
      /\ wait' = wait
  BY <1>1 DEF AwaitResolved, RunTable, RunRow
<1> HIDE DEF new
<1>4. /\ QuietWaits
      /\ \A q \in RunId : run[q].state \in State =>
           run'[q].state \in State /\ run'[q].task = run[q].task
  BY <1>1, <1>2, <1>3, TouchRunning
<1>5. ASSUME NEW t \in Task, NEW q \in Step, ckpt'[t][q] # ckpt[t][q]
      PROVE  ckpt'[t][q].owner \in RunsOf(run, t)
  <2>1. ckpt' = [ckpt EXCEPT ![run[r].task][s] = [value |-> Payload(e), owner |-> r]]
    BY DEF AwaitResolved
  <2>2. t = run[r].task /\ q = s /\ ckpt'[t][q].owner = r
    BY <1>1, <1>5, <2>1 DEF Rest
  <2> QED BY <1>1, <2>2 DEF RunsOf
<1>6. QuietCheckpoints
  BY <1>4, <1>5 DEF QuietCheckpoints
<1> QED BY <1>4, <1>6, Quiet

(* await_event that timed out: the run goes on without the event.          *)
LEMMA TimedOutLinked ==
  ASSUME IInv, Linked, NEW r \in RunId, NEW s \in Step, NEW e \in Event,
         AwaitTimedOut(r, s, e)
  PROVE  Linked'
<1> DEFINE new == [run[r] EXCEPT !.wake_event = Null]
<1>1. /\ run[r].state = "running" /\ run[r] \in RunRow /\ run \in RunTable /\ now' = now
  BY AwaitingEvent DEF AwaitTimedOut
<1>2. \A x \in Event : Payload(x)' = Payload(x)
  BY SentinelIsSilent DEF AwaitTimedOut
<1>3. /\ run' = [run EXCEPT ![r] = new] /\ new.state = "running" /\ new.task = run[r].task
      /\ wait' = wait /\ ckpt' = ckpt
  BY <1>1 DEF AwaitTimedOut, RunTable, RunRow
<1> HIDE DEF new
<1>4. QuietWaits /\ QuietCheckpoints
  BY <1>1, <1>2, <1>3, TouchRunning DEF QuietCheckpoints
<1> QED BY <1>4, Quiet

(* A run that suspends leaves a wait row that agrees with it.              *)
LEMMA SuspendedLinked ==
  ASSUME IInv, Linked, NEW r \in RunId, NEW s \in Step, NEW e \in Event, NEW x,
         AwaitSuspended(r, s, e, x)
  PROVE  Linked'
<1> DEFINE timeoutAt == IF x = Null THEN Null ELSE now + x
           new == [run[r] EXCEPT !.state = "sleeping", !.claim_expires_at = Null,
                                 !.available_at = WakeTime(timeoutAt), !.wake_event = e,
                                 !.event_payload = Null]
           row == [run |-> r, task |-> run[r].task, step |-> s, event |-> e,
                   timeout_at |-> timeoutAt]
<1>1. /\ run[r].state = "running" /\ run[r] \in RunRow /\ run \in RunTable
      /\ now' = now /\ Payload(e) = Null /\ ckpt' = ckpt /\ Rest
  BY AwaitingEvent DEF AwaitSuspended
<1>2. \A y \in Event : Payload(y)' = Payload(y)
  BY SentinelIsSilent DEF AwaitSuspended
<1>3. /\ run' = [run EXCEPT ![r] = new] /\ new.state = "sleeping" /\ new.task = run[r].task
      /\ new.available_at = WakeTime(timeoutAt) /\ new.wake_event = e
  BY <1>1 DEF AwaitSuspended, RunTable, RunRow
<1>4. \A w \in wait : w.run # r
  BY <1>1, AwakeHasNoWait
<1>5. wait' = wait \union {row}
  BY <1>4 DEF AwaitSuspended
<1>6. row.run = r /\ row.task = run[r].task /\ row.event = e /\ row.timeout_at = timeoutAt
  OBVIOUS
<1> HIDE DEF timeoutAt, new, row
<1>7. run'[r] = new /\ \A q \in RunId : q # r => run'[q] = run[q]
  BY <1>1, <1>3 DEF RunTable
<1>8. ASSUME NEW w \in wait'
      PROVE  Agrees(w)'
  <2>1. CASE w = row
    BY <1>1, <1>2, <1>3, <1>6, <1>7, <2>1 DEF Agrees, WakeTime
  <2>2. CASE w \in wait
    <3>1. w.run \in RunId /\ w.event \in Event /\ Agrees(w) /\ w.run # r
      BY <1>1, <1>4, <2>2 DEF Rest, WaitRow, Linked, WaitsAgree
    <3> QED BY <1>2, <1>7, <3>1 DEF Agrees
  <2> QED BY <1>5, <2>1, <2>2
<1>9. ASSUME NEW q \in RunId, Waits(q)'
      PROVE  Waiting(q)'
  <2>1. CASE q = r
    BY <1>5, <1>6, <2>1 DEF Waiting
  <2>2. CASE q # r
    <3>1. run'[q] = run[q]
      BY <1>7, <2>2
    <3>2. Waiting(q)
      BY <1>9, <3>1 DEF Linked, SleepersWait, Waits
    <3>3. Due(run[q].available_at)' <=> Due(run[q].available_at)
      BY <1>1, <3>1 DEF Due
    <3> QED BY <1>5, <3>2, <3>3 DEF Waiting
  <2> QED BY <2>1, <2>2
<1>10. QuietCheckpoints
  BY <1>1, <1>3, <1>7 DEF QuietCheckpoints, State, Active
<1>11. CheckpointsOwned'
  BY <1>10, CheckpointsQuiet
<1> QED BY <1>8, <1>9, <1>11 DEF Linked, WaitsAgree, SleepersWait

(* A checkpoint that emit_event writes belongs to a run that it wakes.      *)
LEMMA EmitWrites ==
  ASSUME Linked, NEW e, NEW v, EmitEvent(e, v), NEW t \in Task, NEW s \in Step,
         ckpt'[t][s] # ckpt[t][s]
  PROVE  ckpt'[t][s].owner \in Woken(e) /\ run[ckpt'[t][s].owner].task = t
<1> DEFINE stepsOf == {w \in Affected(e) : w.task = t /\ w.run \in Woken(e)}
           w == CHOOSE w \in stepsOf : w.step = s
<1>1. ckpt'[t][s] = IF \E x \in stepsOf : x.step = s
                    THEN [value |-> v, owner |-> w.run]
                    ELSE ckpt[t][s]
  BY DEF EmitEvent, Woken
<1>2. \E x \in stepsOf : x.step = s
  BY <1>1
<1>3. w \in stepsOf /\ ckpt'[t][s].owner = w.run
  BY <1>1, <1>2
<1>4. w \in wait /\ w.task = t /\ w.run \in Woken(e)
  BY <1>3 DEF Affected
<1> HIDE DEF w
<1> QED BY SMTT(60), <1>3, <1>4 DEF Linked, WaitsAgree, Agrees

(* emit_event wakes every run that waits, except those that are due.       *)
LEMMA EmitLinked ==
  ASSUME IInv, Linked, NEW e \in Event, NEW v, EmitEvent(e, v)
  PROVE  Linked'
<1> DEFINE affected == Affected(e)
           woken == {r \in RunId : run[r].state = "sleeping" /\ \E w \in affected : w.run = r}
<1>0. run \in RunTable /\ Rest
  BY DEF IInv, Sound
<1>1. ASSUME NEW r \in woken
      PROVE  /\ r \in RunId /\ run[r].state = "sleeping" /\ run[r].state \in State
             /\ run[r].wake_event = e
             /\ run'[r].state = "pending" /\ run'[r].task = run[r].task
  <2>1. r \in RunId /\ run[r].state = "sleeping" /\ run[r] \in RunRow
    BY RunFacts
  <2>2. run[r].wake_event = e
    BY DEF Affected, Linked, WaitsAgree, Agrees
  <2>3. run'[r] = [run[r] EXCEPT !.state = "pending", !.available_at = now,
                                 !.wake_event = Null, !.event_payload = v,
                                 !.claim_expires_at = Null]
    BY <2>1 DEF EmitEvent
  <2> HIDE DEF woken
  <2> QED BY <2>1, <2>2, <2>3 DEF RunRow, State, Active
<1>2. \A r \in RunId \ woken : run'[r] = run[r]
  BY ZenonT(60) DEF EmitEvent
<1>3. ASSUME NEW w \in wait, w.event # e \/ ~Due(w.timeout_at), w.run \notin woken
      PROVE  w.event # e /\ w \in wait' /\ Payload(w.event)' = Null
  <2>1. Agrees(w) /\ w.run \in RunId /\ w.event \in Event
    BY <1>0 DEF Linked, WaitsAgree, Rest, WaitRow
  <2>2. w.event # e
    BY <1>3, <2>1 DEF Affected, Agrees
  <2>3. w \in wait'
    BY <2>2 DEF EmitEvent
  <2> QED BY <1>0, <2>1, <2>2, <2>3 DEF EmitEvent, Payload, Agrees, Rest
<1>4. ASSUME NEW w \in wait'
      PROVE  w \in wait /\ w.run \notin woken /\ (w.event # e \/ ~Due(w.timeout_at))
  <2>1. w \in wait /\ (w.event = e => ~Due(w.timeout_at) /\ w.run \notin woken)
    BY DEF EmitEvent
  <2>2. Agrees(w)
    BY <2>1 DEF Linked, WaitsAgree
  <2>3. w.event # e => w.run \notin woken
    BY <1>1, <2>2 DEF Agrees
  <2> QED BY <2>1, <2>3
<1>5. ASSUME NEW t \in Task, NEW s \in Step, ckpt'[t][s] # ckpt[t][s]
      PROVE  ckpt'[t][s].owner \in RunsOf(run, t)
  <2>1. ckpt'[t][s].owner \in woken /\ run[ckpt'[t][s].owner].task = t
    BY <1>5, EmitWrites DEF Woken
  <2> HIDE DEF woken
  <2> QED BY <1>1, <2>1 DEF RunsOf
<1> HIDE DEF woken
<1>6. Changed \subseteq woken
  BY <1>2 DEF Changed
<1>7. \A r \in woken : r \in Changed /\ ~Waits(r)'
  BY <1>1 DEF Changed, Waits
<1>8. QuietWaits
  <2>1. now' = now
    BY DEF EmitEvent
  <2> QED BY <1>0, <1>3, <1>4, <1>6, <1>7, <2>1 DEF QuietWaits, Rest
<1>9. QuietCheckpoints
  <2>1. "pending" \in State
    BY DEF State, Active
  <2> QED BY <1>1, <1>2, <1>5, <2>1 DEF QuietCheckpoints
<1> QED BY <1>8, <1>9, Quiet

-----------------------------------------------------------------------------
(* New runs.                                                               *)

(* spawn_task and retry_task insert one run that is free to be claimed.    *)
LEMMA AppendLinked ==
  ASSUME IInv, Linked, nextRun \in RunId, NEW t, NEW n,
         run' = [run EXCEPT ![nextRun] = NewRun(t, n, "pending", now)],
         UNCHANGED <<ckpt, event, wait, now>>
  PROVE  Linked'
<1> DEFINE new == NewRun(t, n, "pending", now)
<1>1. run[nextRun] = NoRun
  BY DEF IInv, Sound, RunId
<1>2. run[nextRun].state \notin State /\ run[nextRun].state # "sleeping"
  BY <1>1, StateFacts DEF NoRun
<1>3. /\ run' = [run EXCEPT ![nextRun] = new] /\ new.state = "pending"
      /\ now' = now /\ wait' = wait /\ \A w \in wait' : w.run # nextRun
      /\ ckpt' = ckpt /\ \A e \in Event : Payload(e)' = Payload(e)
  BY <1>2, AwakeHasNoWait DEF NewRun, Payload
<1> HIDE DEF new
<1>4. QuietWaits /\ QuietCheckpoints
  BY <1>2, <1>3, OneRun DEF QuietCheckpoints
<1> QED BY <1>4, Quiet

(* spawn_task inserts one run.                                             *)
LEMMA SpawnLinked ==
  ASSUME IInv, Linked, NEW t, NEW p, NEW max, NEW k, SpawnTask(t, p, max, k)
  PROVE  Linked'
BY AppendLinked DEF SpawnTask

(* retry_task inserts one run.                                             *)
LEMMA RetryLinked ==
  ASSUME IInv, Linked, NEW t, NEW m, RetryTask(t, m)
  PROVE  Linked'
<1>1. nextRun \in RunId /\ UNCHANGED <<ckpt, event, wait, now>>
  BY DEF RetryTask
<1>2. run' = [run EXCEPT ![nextRun] = NewRun(t, task[t].attempts + 1, "pending", now)]
  BY DEF RetryTask
<1> QED BY <1>1, <1>2, AppendLinked

(* fail_run: the runs of E fail, the new runs do not wait for an event,    *)
(* and the other runs stay as they are.                                    *)
LEMMA FailEffect ==
  ASSUME NEW tk, NEW rn, Sound(tk, rn, nextRun),
         NEW E \in SUBSET RunId, \A r \in E : rn[r].state \in {"running", "sleeping"},
         NEW retryAt,
         NEW id \in FreshIds(Retried(tk, rn, E, retryAt)),
         nextRun + Cardinality(Retried(tk, rn, E, retryAt)) <= MaxRuns + 1
  PROVE  LET rn2 == FailRuns(tk, rn, E, retryAt, id) IN
         /\ \A r \in E : /\ rn2[r].state = "failed" /\ rn2[r].task = rn[r].task
                         /\ rn2[r].wake_event = Null
         /\ \A r \in RunId \ E : rn2[r] = rn[r] \/ (rn[r] = NoRun /\ rn2[r].wake_event = Null)
<1> DEFINE R == Retried(tk, rn, E, retryAt)
           rn2 == FailRuns(tk, rn, E, retryAt, id)
<1>0. rn \in RunTable /\ nextRun \in 1 .. MaxRuns + 1
  BY DEF Sound
<1>1. R \in SUBSET RunId /\ R \subseteq E
  BY DEF Retried
<1>2. id \in [R -> nextRun .. nextRun + Cardinality(R) - 1] /\ Cardinality(R) \in Nat
  <2> HIDE DEF R
  <2> QED BY Fresh, <1>0, <1>1, BoundsAssumption DEF R
<1> HIDE DEF R
<1>3. ASSUME NEW r \in E
      PROVE  /\ rn2[r].state = "failed" /\ rn2[r].task = rn[r].task
             /\ rn2[r].wake_event = Null
  <2>1. rn[r] # NoRun
    BY StateFacts
  <2>2. rn[r] \in RunRow
    BY <1>0, <2>1 DEF RunTable
  <2>3. rn2[r] = [rn[r] EXCEPT !.state = "failed", !.wake_event = Null, !.ended_at = now]
    BY DEF FailRuns
  <2> HIDE DEF rn2
  <2> QED BY <2>2, <2>3 DEF RunRow
<1>4. ASSUME NEW r \in RunId \ E, rn2[r] # rn[r]
      PROVE  rn[r] = NoRun /\ rn2[r].wake_event = Null
  <2>1. \E q \in DOMAIN id : id[q] = r
    BY <1>4 DEF FailRuns
  <2>2. r >= nextRun
    BY <1>0, <1>2, <2>1, BoundsAssumption DEF RunId
  <2>3. rn2[r].wake_event = Null
    BY <2>1 DEF FailRuns, NewRun
  <2> QED BY <2>2, <2>3 DEF Sound
<1> QED BY <1>3, <1>4

(* fail_run: the wait row of the run goes with it.                         *)
LEMMA FailLinked ==
  ASSUME IInv, Linked, NEW r \in RunId, NEW at, FailRun(r, at)
  PROVE  Linked'
<1> DEFINE E == {r}
           R == Retried(task, run, E, at)
<1>1. PICK id \in FreshIds(R) : run' = FailRuns(task, run, E, at, id)
  BY DEF FailRun
<1>2a. /\ Sound(task, run, nextRun) /\ E \in SUBSET RunId
       /\ \A q \in E : run[q].state \in {"running", "sleeping"}
       /\ nextRun + Cardinality(R) <= MaxRuns + 1
  BY DEF FailRun, Failable, IInv
<1>2. /\ Rest /\ run[r].state \in {"running", "sleeping"}
      /\ wait' = {w \in wait : w.run # r} /\ now' = now /\ ckpt' = ckpt
      /\ \A e \in Event : Payload(e)' = Payload(e)
  BY DEF FailRun, Failable, IInv, Payload
<1> HIDE DEF E
<1>3. /\ \A q \in E : /\ run'[q].state = "failed" /\ run'[q].task = run[q].task
                      /\ run'[q].wake_event = Null
      /\ \A q \in RunId \ E : run'[q] = run[q] \/ (run[q] = NoRun /\ run'[q].wake_event = Null)
  <2> DEFINE rn2 == FailRuns(task, run, E, at, id)
  <2>1. /\ \A q \in E : /\ rn2[q].state = "failed" /\ rn2[q].task = run[q].task
                        /\ rn2[q].wake_event = Null
        /\ \A q \in RunId \ E : rn2[q] = run[q] \/ (run[q] = NoRun /\ rn2[q].wake_event = Null)
    BY <1>2a, FailEffect
  <2> HIDE DEF rn2
  <2>2. run' = rn2
    BY <1>1 DEF rn2
  <2> QED BY <2>1, <2>2
<1> HIDE DEF R
<1> USE DEF E
<1>4. ASSUME NEW q \in RunId, q # r, q \in Changed
      PROVE  run[q].state \notin State /\ run[q].state # "sleeping" /\ ~Waits(q)'
  <2>1. run[q] = NoRun /\ run'[q].wake_event = Null
    BY <1>3, <1>4 DEF Changed
  <2>2. run[q].state = "absent"
    BY <2>1 DEF NoRun
  <2> QED BY <2>1, <2>2, StateFacts DEF Waits
<1>5. ~Waits(r)' /\ r \in Changed
  BY <1>2, <1>3 DEF Waits, Changed
<1>6. ASSUME NEW w \in wait
      PROVE  /\ w.run \in RunId /\ run[w.run].state = "sleeping"
             /\ Payload(w.event)' = Null
  BY <1>2 DEF Rest, WaitRow, Linked, WaitsAgree, Agrees
<1>7. \A q \in Changed : q \in RunId
  BY DEF Changed
<1>8. QuietWaits
  BY <1>2, <1>4, <1>5, <1>6, <1>7 DEF QuietWaits, Rest
<1>9. QuietCheckpoints
  <2>1. "failed" \in State
    BY DEF State, Terminal
  <2> QED BY <1>2, <1>3, <2>1, StateFacts DEF QuietCheckpoints, NoRun
<1> QED BY <1>8, <1>9, Quiet

-----------------------------------------------------------------------------
(* Cancellation, cleanup and the clock.                                    *)

(* Cancelling tasks touches their active runs only.                        *)
LEMMA CancelEffect ==
  ASSUME IInv, NEW S, NEW r \in RunId
  PROVE  LET rn2 == CancelRuns(run, S) IN
         IF run[r].state \in Active /\ run[r].task \in S
         THEN rn2[r].state = "cancelled" /\ rn2[r].task = run[r].task
         ELSE rn2[r] = run[r]
<1>1. CASE run[r].state \in Active /\ run[r].task \in S
  <2>1. run[r] \in RunRow
    BY <1>1, ActiveRow
  <2> QED BY <1>1, <2>1 DEF CancelRuns, RunRow
<1>2. CASE ~(run[r].state \in Active /\ run[r].task \in S)
  BY <1>2 DEF CancelRuns
<1> QED BY <1>1, <1>2

(* cancel_task: the wait rows of the task go with its active runs.         *)
LEMMA CancelLinked ==
  ASSUME IInv, Linked, NEW t \in Task, CancelTask(t)
  PROVE  Linked'
<1>1. /\ run' = CancelRuns(run, {t}) /\ wait' = {w \in wait : w.task # t}
      /\ now' = now /\ ckpt' = ckpt /\ \A e \in Event : Payload(e)' = Payload(e)
      /\ Rest
  BY DEF CancelTask, Payload, IInv
<1>2. ASSUME NEW r \in RunId
      PROVE  IF run[r].state \in Active /\ run[r].task = t
             THEN run'[r].state = "cancelled" /\ run'[r].task = run[r].task
             ELSE run'[r] = run[r]
  BY <1>1, CancelEffect
<1>3. ASSUME NEW r \in Changed
      PROVE  /\ r \in RunId /\ run[r].task = t /\ ~Waits(r)'
  BY <1>2 DEF Changed, Waits
<1>4. ASSUME NEW w \in wait
      PROVE  /\ w.run \in Changed <=> w.task = t
             /\ Payload(w.event)' = Null
  <2>1. w.run \in RunId /\ run[w.run].state = "sleeping" /\ run[w.run].task = w.task
        /\ Payload(w.event)' = Null
    BY <1>1 DEF Rest, WaitRow, Linked, WaitsAgree, Agrees
  <2> QED BY <1>2, <2>1 DEF Changed, Active
<1>5. QuietWaits
  BY <1>1, <1>3, <1>4 DEF QuietWaits, Rest
<1>6. QuietCheckpoints
  <2>1. "cancelled" \in State
    BY DEF State, Terminal
  <2> QED BY <1>1, <1>2, <2>1 DEF QuietCheckpoints
<1> QED BY <1>5, <1>6, Quiet

(* cleanup_tasks deletes the rows of a task together.                      *)
LEMMA CleanupTasksLinked ==
  ASSUME IInv, Linked, NEW ttl, CleanupTasks(ttl)
  PROVE  Linked'
<1>1. PICK D \in SUBSET Task :
        /\ run' = [r \in RunId |-> IF run[r].state \in State /\ run[r].task \in D
                                   THEN NoRun ELSE run[r]]
        /\ ckpt' = DeleteCheckpoints(D)
        /\ wait' = {w \in wait : w.task \notin D}
        /\ UNCHANGED <<event, now, nextRun>>
  BY DEF CleanupTasks, OldestBatches
<1>2. Rest /\ \A e \in Event : Payload(e)' = Payload(e)
  BY <1>1 DEF IInv, Payload
<1>3. ASSUME NEW r \in Changed
      PROVE  r \in RunId /\ run[r].task \in D /\ ~Waits(r)'
  BY <1>1, StateFacts DEF Changed, Waits, NoRun
<1>4. ASSUME NEW w \in wait
      PROVE  (w.run \in Changed <=> w.task \in D) /\ Payload(w.event)' = Null
  <2>1. w.run \in RunId /\ run[w.run].state = "sleeping" /\ run[w.run].task = w.task
        /\ Payload(w.event)' = Null
    BY <1>2 DEF Rest, WaitRow, Linked, WaitsAgree, Agrees
  <2>2. run[w.run].state \in State /\ run[w.run] # NoRun
    BY <2>1 DEF NoRun, State, Active
  <2>3. w.task \in D => run'[w.run] = NoRun
    BY <1>1, <2>1, <2>2
  <2> QED BY <1>3, <2>1, <2>2, <2>3 DEF Changed
<1>5. QuietWaits
  BY <1>1, <1>2, <1>3, <1>4 DEF QuietWaits, Rest
<1>6. ASSUME NEW t \in Task, NEW s \in Step, ckpt'[t][s] # Null
      PROVE  ckpt'[t][s].owner \in RunsOf(run', t)
  <2>1. t \notin D /\ ckpt'[t][s] = ckpt[t][s]
    BY <1>1, <1>6 DEF DeleteCheckpoints, NoCkpt
  <2>2. ckpt[t][s].owner \in RunsOf(run, t)
    BY <1>6, <2>1 DEF Linked, CheckpointsOwned, Owned
  <2> QED BY <1>1, <2>1, <2>2 DEF RunsOf
<1> QED BY <1>5, <1>6, WaitsQuiet DEF Linked, CheckpointsOwned, Owned

(* cleanup_events leaves the events that have not been emitted silent.     *)
LEMMA CleanupEventsLinked ==
  ASSUME IInv, Linked, NEW ttl, CleanupEvents(ttl)
  PROVE  Linked'
<1>1. /\ UNCHANGED <<task, run, ckpt, wait, now, nextRun>> /\ Rest
      /\ \A e \in Event : Payload(e) = Null => Payload(e)' = Null
  BY DEF CleanupEvents, Payload, IInv, Rest
<1>2. QuietWaits
  BY <1>1 DEF QuietWaits, Changed, Rest, WaitRow, Linked, WaitsAgree, Agrees
<1>3. QuietCheckpoints
  BY <1>1 DEF QuietCheckpoints
<1> QED BY <1>2, <1>3, Quiet

(* Time and stuttering keep the rows linked: what is due stays due.        *)
LEMMA TickLinked ==
  ASSUME IInv, Linked, Tick \/ UNCHANGED vars
  PROVE  Linked'
<1>1. /\ UNCHANGED <<task, run, ckpt, wait, event, nextRun>> /\ Rest
      /\ now' \in Nat /\ now <= now'
      /\ \A e \in Event : Payload(e)' = Payload(e)
  BY DEF Tick, vars, Payload, IInv, Rest
<1>2. QuietWaits
  BY <1>1 DEF QuietWaits, Changed, Rest, WaitRow, Linked, WaitsAgree, Agrees
<1>3. QuietCheckpoints
  BY <1>1 DEF QuietCheckpoints
<1> QED BY <1>2, <1>3, Quiet

-----------------------------------------------------------------------------
(* claim_task: a wait row that survives names a run that the claim leaves  *)
(* alone, because a run that is due has a wait row that is due.            *)
LEMMA ClaimLinked ==
  ASSUME IInv, Linked, NEW qty, NEW lease, ClaimTask(qty, lease)
  PROVE  Linked'
<1> DEFINE S == DueForCancel
           tk1 == CancelTasks(task, S)
           rn1 == CancelRuns(run, S)
<1>1. Sound(tk1, rn1, nextRun) /\ now \in Nat /\ Rest
  BY CancelSound DEF IInv, Rest, DueForCancel
<1>2. PICK E \in Batches(Expired(rn1), qty) :
        /\ nextRun + Cardinality(Retried(tk1, rn1, E, Null)) <= MaxRuns + 1
        /\ \E id \in FreshIds(Retried(tk1, rn1, E, Null)) :
             \E C \in Batches(Candidates(FailTasks(tk1, rn1, E, Null, id),
                                         FailRuns(tk1, rn1, E, Null, id)), qty) :
               /\ run' = ClaimRuns(FailRuns(tk1, rn1, E, Null, id), C, lease)
               /\ wait' = {w \in wait \ TimedOutWaits(C) : w.task \notin S /\ w.run \notin E}
        /\ UNCHANGED <<ckpt, event, now>>
  BY DEF ClaimTask
<1>3. PICK id \in FreshIds(Retried(tk1, rn1, E, Null)) :
        \E C \in Batches(Candidates(FailTasks(tk1, rn1, E, Null, id),
                                    FailRuns(tk1, rn1, E, Null, id)), qty) :
          /\ run' = ClaimRuns(FailRuns(tk1, rn1, E, Null, id), C, lease)
          /\ wait' = {w \in wait \ TimedOutWaits(C) : w.task \notin S /\ w.run \notin E}
  BY <1>2
<1> DEFINE rn2 == FailRuns(tk1, rn1, E, Null, id)
<1>4. PICK C \in Batches(Candidates(FailTasks(tk1, rn1, E, Null, id), rn2), qty) :
        /\ run' = ClaimRuns(rn2, C, lease)
        /\ wait' = {w \in wait \ TimedOutWaits(C) : w.task \notin S /\ w.run \notin E}
  BY <1>3
<1>5. E \in SUBSET RunId /\ \A r \in E : rn1[r].state \in {"running", "sleeping"}
  BY <1>2 DEF Batches, Expired
<1>5a. \A r \in E : rn1[r].state = "running"
  BY <1>2 DEF Batches, Expired
<1>6. C \in SUBSET RunId /\ \A r \in C : rn2[r].state \in {"pending", "sleeping"} /\ Due(rn2[r].available_at)
  BY <1>4 DEF Batches, Candidates
<1>7. ASSUME NEW r \in RunId
      PROVE  IF run[r].state \in Active /\ run[r].task \in S
             THEN rn1[r].state = "cancelled" /\ rn1[r].task = run[r].task
             ELSE rn1[r] = run[r]
  BY CancelEffect
<1> HIDE DEF S, tk1, rn1
<1>8. /\ \A r \in E : /\ rn2[r].state = "failed" /\ rn2[r].task = rn1[r].task
                      /\ rn2[r].wake_event = Null
      /\ \A r \in RunId \ E : rn2[r] = rn1[r] \/ (rn1[r] = NoRun /\ rn2[r].wake_event = Null)
  BY <1>1, <1>2, <1>5, FailEffect
<1>8a. rn2 \in RunTable
  <2>1. Null \in OrNull(Nat)
    BY DEF OrNull
  <2>2. Sound(FailTasks(tk1, rn1, E, Null, id), rn2,
              nextRun + Cardinality(Retried(tk1, rn1, E, Null)))
    BY <1>1, <1>2, <1>5, <2>1, FailSound
  <2> QED BY <2>2 DEF Sound
<1> HIDE DEF rn2
<1>9. ASSUME NEW r \in RunId
      PROVE  IF r \in C
             THEN run'[r].state = "running" /\ run'[r].task = rn2[r].task
             ELSE run'[r] = rn2[r]
  <2>1. CASE r \notin C
    BY <1>4, <2>1 DEF ClaimRuns
  <2>2. CASE r \in C
    <3> DEFINE until == IF lease > 0 THEN now + lease ELSE Null
    <3>1. run'[r] = [rn2[r] EXCEPT !.state = "running", !.available_at = now,
                                   !.claim_expires_at = until]
      BY <1>4, <2>2 DEF ClaimRuns
    <3>2. rn2[r] \in RunRow
      BY <1>6, <1>8a, <2>2, StateFacts DEF RunTable
    <3> HIDE DEF until
    <3> QED BY <2>2, <3>1, <3>2 DEF RunRow
  <2> QED BY <2>1, <2>2
<1>10. ASSUME NEW r \in RunId
       PROVE  /\ r \in Changed => ~Waits(r)'
              /\ run[r].state \in State => run'[r].state \in State /\ run'[r].task = run[r].task
  <2>1. CASE r \in C
    <3>1. run'[r].state = "running" /\ run'[r].task = rn2[r].task /\ rn2[r].state # "absent"
      BY <1>6, <1>9, <2>1
    <3>2. r \notin E
      BY <1>6, <1>8, <2>1
    <3>3. run[r].state \in State => rn2[r].task = run[r].task
      BY <1>7, <1>8, <3>2, StateFacts
    <3> QED BY <3>1, <3>3 DEF Waits, State, Active
  <2>2. CASE r \notin C /\ r \in E
    <3>1. run'[r].state = "failed" /\ run'[r].task = run[r].task
      BY <1>5a, <1>7, <1>8, <1>9, <2>2
    <3> QED BY <3>1 DEF Waits, State, Terminal
  <2>3. CASE r \notin C /\ r \notin E
    <3>1. run'[r] = rn1[r] \/ (rn1[r] = NoRun /\ run'[r].wake_event = Null)
      BY <1>8, <1>9, <2>3
    <3>2. CASE rn1[r] = NoRun
      <4>1. run[r] = NoRun
        BY <1>7, <3>2, StateFacts DEF NoRun
      <4> QED BY <3>1, <3>2, <4>1, StateFacts DEF Changed, Waits
    <3>3. CASE rn1[r] # NoRun
      <4>1. "cancelled" \in State
        BY DEF State, Terminal
      <4> QED BY <1>7, <3>1, <3>3, <4>1 DEF Changed, Waits
    <3> QED BY <3>2, <3>3
  <2> QED BY <2>1, <2>2, <2>3
<1>11. ASSUME NEW w \in wait
       PROVE  /\ w \in wait' => w.run \notin Changed
              /\ w.run \notin Changed => w \in wait'
              /\ Payload(w.event)' = Null
  <2> DEFINE r == w.run
  <2>1. /\ r \in RunId /\ run[r].state = "sleeping" /\ run[r].state \in Active
        /\ run[r].task = w.task /\ w.event \in Event /\ Payload(w.event) = Null
        /\ Coalesce(w.timeout_at, Infinity) = run[r].available_at
    BY <1>1 DEF Rest, WaitRow, Linked, WaitsAgree, Agrees, Active
  <2>2. Payload(w.event)' = Null
    BY <1>2, <2>1 DEF Payload
  <2> HIDE DEF r
  <2>3. w.task \in S => r \in Changed
    <3>1. ASSUME w.task \in S
          PROVE  run'[r].state # "sleeping"
      <4>1. rn1[r].state = "cancelled" /\ r \notin E /\ rn1[r] # NoRun
        BY <1>5a, <1>7, <2>1, <3>1 DEF NoRun
      <4>2. rn2[r] = rn1[r]
        BY <1>8, <2>1, <4>1
      <4> QED BY <1>6, <1>9, <2>1, <4>1, <4>2
    <3> QED BY <2>1, <3>1 DEF Changed
  <2>4. CASE w.task \notin S
    <3>1. rn1[r] = run[r] /\ r \notin E /\ rn1[r] # NoRun
      BY <1>5a, <1>7, <2>1, <2>4 DEF NoRun
    <3>2. rn2[r] = run[r]
      BY <1>8, <2>1, <3>1
    <3>3. r \in Changed <=> r \in C
      BY <1>9, <2>1, <3>2 DEF Changed
    <3>4. r \in C => w \in TimedOutWaits(C)
      BY <1>6, <2>1, <3>2 DEF TimedOutWaits, Coalesce, Due, r
    <3>5. w \in TimedOutWaits(C) => r \in C
      BY DEF TimedOutWaits, r
    <3> QED BY <1>4, <2>2, <2>4, <3>1, <3>3, <3>4, <3>5 DEF r
  <2> QED BY <1>4, <2>2, <2>3, <2>4 DEF r
<1>12. \A w \in wait' : w \in wait
  BY <1>4
<1>13. \A r \in Changed : r \in RunId
  BY DEF Changed
<1>14. QuietWaits
  BY <1>1, <1>2, <1>10, <1>11, <1>12, <1>13 DEF QuietWaits
<1>15. QuietCheckpoints
  BY <1>2, <1>10 DEF QuietCheckpoints
<1> QED BY <1>14, <1>15, Quiet

-----------------------------------------------------------------------------
(* Every call keeps the rows linked.                                       *)
LEMMA NextLinked == IInv /\ Linked /\ [Next]_vars => Linked'
<1> SUFFICES ASSUME IInv, Linked, [Next]_vars PROVE Linked'
  OBVIOUS
<1>1. ASSUME NEW t \in Task, NEW p \in Policy, NEW k \in OrNull(Key),
             SpawnTask(t, p, p.max_attempts, k)
      PROVE  Linked'
  BY <1>1, SpawnLinked
<1>2. ASSUME NEW qty \in Qty, NEW lease \in Lease, ClaimTask(qty, lease)
      PROVE  Linked'
  BY <1>2, ClaimLinked
<1>3. ASSUME NEW r \in RunId, CompleteRun(r)
      PROVE  Linked'
  BY <1>3, CompleteLinked
<1>4. ASSUME NEW r \in RunId, NEW d \in Delay, ScheduleRun(r, now + d)
      PROVE  Linked'
  BY <1>4, ScheduleLinked
<1>5. ASSUME NEW r \in RunId, NEW at \in {Null} \union {now + d : d \in Delay}, FailRun(r, at)
      PROVE  Linked'
  BY <1>5, FailLinked
<1>6. ASSUME NEW t \in Task, NEW m \in MaxAttempts, RetryTask(t, m)
      PROVE  Linked'
  BY <1>6, RetryLinked
<1>7. ASSUME NEW t \in Task, NEW u \in Task, NEW m \in MaxAttempts, RetryAsNew(t, u, m)
      PROVE  Linked'
  BY <1>7, SpawnLinked DEF RetryAsNew
<1>8. ASSUME NEW r \in RunId, NEW s \in Step, NEW v \in Value, NEW x \in Lease,
             SetTaskCheckpointState(r, s, v, x)
      PROVE  Linked'
  BY <1>8, CheckpointLinked
<1>9. ASSUME NEW r \in RunId, NEW x \in Lease, ExtendClaim(r, x)
      PROVE  Linked'
  BY <1>9, ExtendLinked
<1>10. ASSUME NEW r \in RunId, NEW s \in Step, NEW e \in Event, AwaitResolved(r, s, e)
       PROVE  Linked'
  BY <1>10, ResolvedLinked
<1>11. ASSUME NEW r \in RunId, NEW s \in Step, NEW e \in Event, AwaitTimedOut(r, s, e)
       PROVE  Linked'
  BY <1>11, TimedOutLinked
<1>12. ASSUME NEW r \in RunId, NEW s \in Step, NEW e \in Event, NEW x \in Timeout,
              AwaitSuspended(r, s, e, x)
       PROVE  Linked'
  BY <1>12, SuspendedLinked
<1>13. ASSUME NEW e \in Event, NEW v \in Value, EmitEvent(e, v)
       PROVE  Linked'
  BY <1>13, EmitLinked
<1>14. ASSUME NEW t \in Task, CancelTask(t)
       PROVE  Linked'
  BY <1>14, CancelLinked
<1>15. ASSUME NEW ttl \in Ttl, CleanupTasks(ttl)
       PROVE  Linked'
  BY <1>15, CleanupTasksLinked
<1>16. ASSUME NEW ttl \in Ttl, CleanupEvents(ttl)
       PROVE  Linked'
  BY <1>16, CleanupEventsLinked
<1>17. CASE Tick \/ UNCHANGED vars
  BY <1>17, TickLinked
<1> QED BY <1>1, <1>2, <1>3, <1>4, <1>5, <1>6, <1>7, <1>8, <1>9, <1>10, <1>11, <1>12,
           <1>13, <1>14, <1>15, <1>16, <1>17 DEF Next

(* The two invariants hold in every reachable state.                       *)
LEMMA LinkedInductive == Spec => [](IInv /\ Linked)
<1>1. Init => Linked
  BY StateFacts DEF Init, Linked, WaitsAgree, SleepersWait, CheckpointsOwned, Waits, Owned,
                    NoRun, NoCkpt
<1> QED BY <1>1, InitIInv, NextIInv, NextLinked, PTL DEF Spec

(* No wakeup is lost, however emissions, timeouts, claims, cancellations   *)
(* and cleanups interleave: an event that has a waiter has not been        *)
(* emitted, and a run that sleeps on an event has its wait row or is due.  *)
THEOREM WakeupCorrect == Spec => []NoLostWakeup
<1>1. IInv /\ Linked => NoLostWakeup
  <2> SUFFICES ASSUME IInv, Linked PROVE NoLostWakeup
    OBVIOUS
  <2>1. \A w \in wait : Agrees(w)
    BY DEF Linked, WaitsAgree
  <2>2. ASSUME NEW r \in RunId, run[r].state = "sleeping", run[r].wake_event # Null
        PROVE  \/ Due(run[r].available_at)
               \/ \E w \in wait : /\ w.run = r /\ w.event = run[r].wake_event
                                  /\ Coalesce(w.timeout_at, Infinity) = run[r].available_at
    BY <2>1, <2>2 DEF Linked, SleepersWait, Waits, Waiting, Agrees
  <2> QED BY <2>1, <2>2 DEF NoLostWakeup, Agrees
<1> QED BY <1>1, LinkedInductive, PTL

(* Nothing outlives its task: every run, checkpoint and wait row belongs   *)
(* to a task that exists, and a checkpoint to a run of its task.           *)
THEOREM OrphanFree == Spec => []NoOrphans
<1>1. IInv /\ Linked => NoOrphans
  <2> SUFFICES ASSUME IInv, Linked PROVE NoOrphans
    OBVIOUS
  <2>1. \A r \in RunId : run[r].state \in State => Exists(run[r].task)
    BY DEF IInv, Sound, Placed, Exists
  <2>2. ASSUME NEW t \in Task, NEW s \in Step, ckpt[t][s] # Null
        PROVE  Exists(t) /\ ckpt[t][s].owner \in RunsOf(run, t)
    BY <2>1, <2>2 DEF Linked, CheckpointsOwned, Owned, RunsOf
  <2>3. ASSUME NEW w \in wait
        PROVE  Exists(w.task)
    <3>1. w.run \in RunId /\ run[w.run].state = "sleeping" /\ run[w.run].task = w.task
      BY DEF IInv, Rest, WaitRow, Linked, WaitsAgree, Agrees
    <3> QED BY <2>1, <3>1 DEF State, Active
  <2> QED BY <2>1, <2>2, <2>3 DEF NoOrphans
<1> QED BY <1>1, LinkedInductive, PTL

-----------------------------------------------------------------------------
(***************************************************************************)
(* The steps of AbsurdQueue: how one call moves a task.                    *)
(* Evolves lists what can happen to the rows of one task, in one call or   *)
(* in one stage of claim_task; NextEvolves shows that every call does one  *)
(* of these things to every task.  From it follow the numbering of the     *)
(* attempts, the finality of ended tasks and the refinement of             *)
(* TaskLifecycle.  Orderly says what a call does to single runs and        *)
(* checkpoints: from it follow the deadlines, the standstill of cancelled  *)
(* tasks and the order of checkpoints.                                     *)
(***************************************************************************)

(* What can happen to the rows of the task t between the tables tk, rn and *)
(* the tables tk2, rn2.                                                    *)

SameRuns(rn, rn2, t) ==
  /\ RunsOf(rn2, t) = RunsOf(rn, t)
  /\ \A r \in RunsOf(rn, t) : rn2[r].attempt = rn[r].attempt
NewRunFor(rn, tk2, rn2, t) ==
  \E n \in RunId \ RunsOf(rn, t) :
    /\ RunsOf(rn2, t) = RunsOf(rn, t) \union {n}
    /\ rn2[n].attempt = tk2[t].attempts
    /\ \A r \in RunsOf(rn, t) : rn2[r].attempt = rn[r].attempt
    /\ tk2[t].max_attempts = Null \/ tk2[t].attempts <= tk2[t].max_attempts

(* The states between which a task moves within an attempt, and those      *)
(* between which it moves from one attempt to the next.                    *)
Within(a, b) ==
  \/ a \in {"pending", "sleeping"} /\ b = "running"
  \/ a = "running" /\ b \in {"sleeping", "completed"}
  \/ a = "sleeping" /\ b = "pending"
  \/ a \in Active /\ b \in {"failed", "cancelled"}
Across(a, b) ==
  \/ a \in {"running", "sleeping"} /\ b \in {"pending", "sleeping"}
  \/ a = "running" /\ b = "running"
  \/ a = "failed" /\ b = "pending"

Stays(tk, rn, tk2, rn2, t) == tk2[t] = tk[t] /\ SameRuns(rn, rn2, t)
Moves(tk, rn, tk2, rn2, t) ==
  /\ Within(tk[t].state, tk2[t].state)
  /\ tk2[t].attempts = tk[t].attempts /\ tk2[t].max_attempts = tk[t].max_attempts
  /\ SameRuns(rn, rn2, t)
Retries(tk, rn, tk2, rn2, t) ==
  /\ Across(tk[t].state, tk2[t].state)
  /\ tk2[t].attempts = tk[t].attempts + 1
  /\ tk[t].state = "failed" => tk2[t].max_attempts # Null
  /\ NewRunFor(rn, tk2, rn2, t)
Begins(tk, rn, tk2, rn2, t) ==
  /\ tk[t] = NoTask /\ tk2[t].state = "pending" /\ tk2[t].attempts = 1
  /\ NewRunFor(rn, tk2, rn2, t)
Ends(tk, rn, tk2, rn2, t) == tk[t].state \in Terminal /\ tk2[t] = GoneTask

Evolves(tk, rn, tk2, rn2, t) ==
  \/ Stays(tk, rn, tk2, rn2, t) \/ Moves(tk, rn, tk2, rn2, t)
  \/ Retries(tk, rn, tk2, rn2, t) \/ Begins(tk, rn, tk2, rn2, t)
  \/ Ends(tk, rn, tk2, rn2, t)

-----------------------------------------------------------------------------
(* The stages.                                                             *)

(* Runs that move with their tasks.                                        *)
LEMMA MovedTask ==
  ASSUME NEW tk, NEW rn, NEW next, NEW tk2, NEW rn2, NEW M, NEW st,
         Sound(tk, rn, next), MoveTogether(tk, rn, tk2, rn2, M, st), NEW t \in Task
  PROVE  /\ SameRuns(rn, rn2, t)
         /\ \/ tk2[t] = tk[t] /\ \A r \in M : rn[r].task # t
            \/ /\ \E r \in M : rn[r].task = t /\ tk[t].state = rn[r].state
               /\ tk[t].state \in Active /\ tk2[t].state = st
               /\ tk2[t].attempts = tk[t].attempts
               /\ tk2[t].max_attempts = tk[t].max_attempts
<1>1. ASSUME NEW r \in RunId
      PROVE  /\ rn2[r].state \in State <=> rn[r].state \in State
             /\ rn[r].state \in State => rn2[r].task = rn[r].task /\ rn2[r].attempt = rn[r].attempt
  <2>1. CASE r \in M
    BY ZenonT(60), <2>1, StateFacts DEF MoveTogether
  <2>2. CASE r \notin M
    BY <2>2 DEF MoveTogether
  <2> QED BY <2>1, <2>2
<1>2. SameRuns(rn, rn2, t)
  BY <1>1 DEF SameRuns, RunsOf
<1>3. CASE \A r \in M : rn[r].task # t
  BY <1>2, <1>3 DEF MoveTogether
<1>4. CASE \E r \in M : rn[r].task = t
  <2>1. PICK r \in M : rn[r].task = t
    BY <1>4
  <2>2. r \in RunId /\ rn[r].state \in Active
    BY DEF MoveTogether
  <2>3. tk[t].state = rn[r].state /\ rn[r].attempt = tk[t].attempts
    BY <2>1, <2>2, ActiveIsLast
  <2>4. /\ tk2[t].state = st /\ tk2[t].attempts = rn[r].attempt
        /\ tk2[t].max_attempts = tk[t].max_attempts
    BY <2>1 DEF MoveTogether
  <2> QED BY <1>2, <2>1, <2>2, <2>3, <2>4
<1> QED BY <1>3, <1>4

(* Runs that fail, with or without a successor.                            *)
LEMMA FailedTask ==
  ASSUME NEW tk, NEW rn, NEW tk2, NEW rn2, NEW E \in SUBSET RunId, NEW retryAt, NEW id, NEW next,
         Sound(tk, rn, nextRun), \A r \in E : rn[r].state \in {"running", "sleeping"},
         FailedRows(tk, rn, tk2, rn2, E, Retried(tk, rn, E, retryAt), id, next),
         id \in FreshIds(Retried(tk, rn, E, retryAt)), NEW t \in Task
  PROVE  \/ Stays(tk, rn, tk2, rn2, t) /\ \A r \in E : rn[r].task # t
         \/ /\ \E r \in E : rn[r].task = t /\ tk[t].state = rn[r].state
            /\ \/ Moves(tk, rn, tk2, rn2, t) /\ tk2[t].state \in {"failed", "cancelled"}
               \/ Retries(tk, rn, tk2, rn2, t) /\ tk2[t].state \in {"pending", "sleeping"}
<1> DEFINE R == Retried(tk, rn, E, retryAt)
<1>0. \A q, r \in R : id[q] = id[r] => q = r
  BY DEF FreshIds
<1>1. \A r \in R : LET max == tk[rn[r].task].max_attempts IN max = Null \/ rn[r].attempt + 1 <= max
  BY DEF Retried, AttemptsLeft
<1> HIDE DEF R
<1>2. ASSUME NEW r \in RunId, \A q \in R : id[q] # r
      PROVE  /\ rn2[r].state \in State <=> rn[r].state \in State
             /\ rn[r].state \in State => rn2[r].task = rn[r].task /\ rn2[r].attempt = rn[r].attempt
  <2>1. CASE r \in E
    BY <2>1 DEF FailedRows, State, Active, Terminal, R
  <2>2. CASE r \notin E
    BY <1>2, <2>2 DEF FailedRows, R
  <2> QED BY <2>1, <2>2
<1>3. ASSUME NEW q \in R
      PROVE  /\ id[q] \in RunId /\ rn[id[q]].state \notin State
             /\ rn2[id[q]].state \in State
             /\ rn2[id[q]].task = rn[q].task /\ rn2[id[q]].attempt = rn[q].attempt + 1
             /\ q \in E /\ rn[q].task \in Task
  BY StateFacts DEF FailedRows, R, State, Active
<1>4. ASSUME \A q \in R : rn[q].task # t
      PROVE  SameRuns(rn, rn2, t)
  <2>1. ASSUME NEW r \in RunId
        PROVE  r \in RunsOf(rn2, t) <=> r \in RunsOf(rn, t)
    <3>1. CASE \A q \in R : id[q] # r
      BY <1>2, <3>1 DEF RunsOf
    <3>2. CASE \E q \in R : id[q] = r
      BY <1>3, <1>4, <3>2 DEF RunsOf
    <3> QED BY <3>1, <3>2
  <2>2. \A r \in RunsOf(rn, t) : rn2[r].attempt = rn[r].attempt
    BY <1>2, <1>3 DEF RunsOf
  <2>3. RunsOf(rn2, t) \subseteq RunId /\ RunsOf(rn, t) \subseteq RunId
    BY DEF RunsOf
  <2> QED BY <2>1, <2>2, <2>3 DEF SameRuns
<1>5. ASSUME NEW q \in R, rn[q].task = t
      PROVE  NewRunFor(rn, tk2, rn2, t) /\ tk2[t].attempts = tk[t].attempts + 1
  <2> DEFINE n == id[q]
  <2>1. n \in RunId \ RunsOf(rn, t)
    BY <1>3 DEF RunsOf
  <2>2. ASSUME NEW p \in R, p # q
        PROVE  rn[p].task # t
    BY <1>3, <1>5, <2>2 DEF FailedRows
  <2>3. ASSUME NEW r \in RunId
        PROVE  r \in RunsOf(rn2, t) <=> r \in RunsOf(rn, t) \union {n}
    <3>1. CASE \A p \in R : id[p] # r
      BY <1>2, <3>1 DEF RunsOf
    <3>2. CASE \E p \in R : id[p] = r
      BY <1>3, <1>5, <2>2, <3>2 DEF RunsOf
    <3> QED BY <3>1, <3>2
  <2>4. RunsOf(rn2, t) = RunsOf(rn, t) \union {n}
    BY <1>3, <2>3 DEF RunsOf
  <2>5. \A r \in RunsOf(rn, t) : rn2[r].attempt = rn[r].attempt
    BY <1>2, <1>3 DEF RunsOf
  <2>6. /\ tk2[t].attempts = rn[q].attempt + 1 /\ rn[q].attempt = tk[t].attempts
        /\ tk2[t].max_attempts = tk[t].max_attempts
    BY <1>3, <1>5 DEF FailedRows, R
  <2>7. tk2[t].max_attempts = Null \/ tk2[t].attempts <= tk2[t].max_attempts
    BY <1>1, <1>5, <2>6
  <2>8. rn2[n].attempt = tk2[t].attempts
    BY <1>3, <2>6
  <2> HIDE DEF n
  <2> QED BY <2>1, <2>4, <2>5, <2>6, <2>7, <2>8 DEF NewRunFor
<1>6. CASE \A r \in E : rn[r].task # t
  <2>1. tk2[t] = tk[t]
    BY <1>6 DEF FailedRows
  <2> QED BY <1>3, <1>4, <1>6, <2>1 DEF Stays
<1>7. ASSUME NEW r \in E, rn[r].task = t
      PROVE  /\ tk[t].state = rn[r].state
             /\ \/ Moves(tk, rn, tk2, rn2, t) /\ tk2[t].state \in {"failed", "cancelled"}
                \/ Retries(tk, rn, tk2, rn2, t) /\ tk2[t].state \in {"pending", "sleeping"}
  <2>1. tk[t].state = rn[r].state /\ tk[t].state \in {"running", "sleeping"}
    BY <1>7 DEF FailedRows
  <2>2. CASE r \in R
    <3>1. tk2[t].state \in {"pending", "sleeping"}
      BY <1>7, <2>2 DEF FailedRows, R
    <3> QED BY <1>5, <1>7, <2>1, <2>2, <3>1 DEF Retries, Across
  <2>3. CASE r \notin R
    <3>1. /\ tk2[t].state \in {"failed", "cancelled"} /\ tk2[t].attempts = tk[t].attempts
          /\ tk2[t].max_attempts = tk[t].max_attempts
      BY SMTT(60), <1>7, <2>3 DEF FailedRows, R
    <3>2. \A q \in R : rn[q].task # t
      BY <1>3, <1>7, <2>3 DEF FailedRows
    <3> QED BY <1>4, <2>1, <3>1, <3>2 DEF Moves, Within, Active
  <2> QED BY <2>1, <2>2, <2>3
<1> QED BY <1>6, <1>7

-----------------------------------------------------------------------------
(* The calls.                                                              *)

TaskEvolves(t) == Evolves(task, run, task', run', t)

(* Calls that move runs together with their tasks.                         *)
LEMMA MoveEvolves ==
  ASSUME IInv, NEW M, NEW st, MoveTogether(task, run, task', run', M, st),
         \A r \in M : Within(run[r].state, st), NEW t \in Task
  PROVE  TaskEvolves(t)
<1>1. Sound(task, run, nextRun)
  BY DEF IInv
<1>2. /\ SameRuns(run, run', t)
      /\ \/ task'[t] = task[t]
         \/ /\ \E r \in M : run[r].task = t /\ task[t].state = run[r].state
            /\ task'[t].state = st
            /\ task'[t].attempts = task[t].attempts
            /\ task'[t].max_attempts = task[t].max_attempts
  BY <1>1, MovedTask
<1> QED BY <1>2 DEF TaskEvolves, Evolves, Stays, Moves

(* Calls that change neither the tasks nor what identifies a run.          *)
LEMMA TouchEvolves ==
  ASSUME IInv, NEW r \in RunId, NEW new, run[r].state \in State,
         task' = task, run' = run \/ run' = [run EXCEPT ![r] = new],
         new.state = run[r].state, new.task = run[r].task, new.attempt = run[r].attempt,
         NEW t \in Task
  PROVE  TaskEvolves(t)
<1>1. run \in RunTable
  BY DEF IInv, Sound
<1>2. \A q \in RunId : /\ run'[q].state = run[q].state
                       /\ run[q].state \in State =>
                            run'[q].task = run[q].task /\ run'[q].attempt = run[q].attempt
  BY <1>1 DEF RunTable
<1> QED BY <1>2 DEF TaskEvolves, Evolves, Stays, SameRuns, RunsOf

(* spawn_task and retry_task add a run to a task that has none or whose    *)
(* runs have all failed.                                                   *)
LEMMA AppendEvolves ==
  ASSUME IInv, nextRun \in RunId, NEW u \in Task, NEW row, NEW n,
         run' = [run EXCEPT ![nextRun] = NewRun(u, n, "pending", now)],
         task' = [task EXCEPT ![u] = row], row.attempts = n,
         row.max_attempts = Null \/ n <= row.max_attempts,
         NEW t \in Task
  PROVE  IF t = u
         THEN NewRunFor(run, task', run', t) /\ task'[t] = row
         ELSE Stays(task, run, task', run', t)
<1>1. run \in RunTable /\ task \in TaskTable /\ run[nextRun] = NoRun
  BY DEF IInv, Sound, RunId
<1>2. /\ \A r \in RunId : r # nextRun => run'[r] = run[r]
      /\ run'[nextRun].state \in State /\ run'[nextRun].task = u /\ run'[nextRun].attempt = n
      /\ run[nextRun].state \notin State
  BY <1>1, StateFacts DEF RunTable, NewRun, State, Active
<1>3. task'[u] = row /\ (t # u => task'[t] = task[t])
  BY <1>1 DEF TaskTable
<1>4. CASE t = u
  <2>1. nextRun \in RunId \ RunsOf(run, t)
    BY <1>2 DEF RunsOf
  <2>2. RunsOf(run', t) = RunsOf(run, t) \union {nextRun}
    BY <1>2, <1>4 DEF RunsOf
  <2>3. \A r \in RunsOf(run, t) : run'[r].attempt = run[r].attempt
    BY <1>2 DEF RunsOf
  <2> QED BY ZenonT(60), <1>2, <1>3, <1>4, <2>1, <2>2, <2>3 DEF NewRunFor
<1>5. CASE t # u
  <2>1. RunsOf(run', t) = RunsOf(run, t)
    BY <1>2, <1>5 DEF RunsOf
  <2>2. \A r \in RunsOf(run, t) : run'[r].attempt = run[r].attempt
    BY <1>2 DEF RunsOf
  <2> QED BY <1>3, <1>5, <2>1, <2>2 DEF Stays, SameRuns
<1> QED BY <1>4, <1>5

(* spawn_task begins a task.                                               *)
LEMMA SpawnEvolves ==
  ASSUME IInv, NEW u \in Task, NEW p, NEW max \in OrNull(Nat \ {0}), NEW k,
         SpawnTask(u, p, max, k), NEW t \in Task
  PROVE  TaskEvolves(t)
<1> DEFINE row == NewTask(p, max, k, nextRun)
<1>1. /\ nextRun \in RunId /\ task' = [task EXCEPT ![u] = row]
      /\ run' = [run EXCEPT ![nextRun] = NewRun(u, 1, "pending", now)]
  BY DEF SpawnTask
<1>2. /\ row.attempts = 1 /\ row.max_attempts = max /\ row.state = "pending"
      /\ max = Null \/ 1 <= max
  BY DEF NewTask, OrNull
<1>3. task[u] = NoTask
  BY DEF SpawnTask, IInv, Sound, TaskTable, TaskRow, State, Active, Terminal, GoneTask
<1> HIDE DEF row
<1>4. IF t = u THEN NewRunFor(run, task', run', t) /\ task'[t] = row
               ELSE Stays(task, run, task', run', t)
  BY <1>1, <1>2, AppendEvolves
<1> QED BY <1>2, <1>3, <1>4 DEF TaskEvolves, Evolves, Begins

(* retry_task gives a failed task another attempt.                         *)
LEMMA RetryEvolves ==
  ASSUME IInv, NEW u \in Task, NEW m \in OrNull(Nat \ {0}), RetryTask(u, m), NEW t \in Task
  PROVE  TaskEvolves(t)
<1> DEFINE n == task[u].attempts + 1
           max == Coalesce(m, Coalesce(task[u].max_attempts, task[u].attempts) + 1)
           row == [task[u] EXCEPT !.state = "pending", !.attempts = n,
                                  !.max_attempts = max, !.cancelled_at = Null,
                                  !.last_attempt_run = nextRun]
<1>1. task[u].state = "failed" /\ task[u] \in TaskRow
  BY Rows DEF RetryTask, Retriable, State, Terminal, IInv, Sound
<1>2. /\ nextRun \in RunId /\ task' = [task EXCEPT ![u] = row]
      /\ run' = [run EXCEPT ![nextRun] = NewRun(u, n, "pending", now)]
      /\ max > task[u].attempts
  BY DEF RetryTask
<1>3. max \in Nat /\ max # Null /\ task[u].attempts \in Nat
  BY <1>1, NullAssumption DEF Coalesce, OrNull, TaskRow
<1>4. row.attempts = n /\ row.max_attempts = max /\ row.state = "pending"
  <2> HIDE DEF n, max
  <2> QED BY <1>1 DEF TaskRow
<1>5. n <= max
  BY <1>2, <1>3
<1> HIDE DEF row, max
<1>6. IF t = u THEN NewRunFor(run, task', run', t) /\ task'[t] = row
               ELSE Stays(task, run, task', run', t)
  BY <1>2, <1>4, <1>5, AppendEvolves
<1> QED BY <1>1, <1>3, <1>4, <1>6 DEF TaskEvolves, Evolves, Retries, Across

(* fail_run ends the task or starts its next attempt.                      *)
LEMMA FailEvolves ==
  ASSUME IInv, NEW r \in RunId, NEW at \in OrNull(Nat), FailRun(r, at), NEW t \in Task
  PROVE  TaskEvolves(t)
<1> DEFINE E == {r}
           R == Retried(task, run, E, at)
<1>1. PICK id \in FreshIds(R) :
        /\ task' = FailTasks(task, run, E, at, id)
        /\ run' = FailRuns(task, run, E, at, id)
  BY DEF FailRun
<1>2. /\ Sound(task, run, nextRun) /\ E \in SUBSET RunId /\ now \in Nat
      /\ \A q \in E : run[q].state \in {"running", "sleeping"}
      /\ nextRun + Cardinality(R) <= MaxRuns + 1
  BY DEF FailRun, Failable, IInv, Rest
<1> HIDE DEF E
<1>3. FailedRows(task, run, FailTasks(task, run, E, at, id), FailRuns(task, run, E, at, id),
                 E, R, id, nextRun + Cardinality(R))
  BY <1>2, FailRows
<1>4. FailedRows(task, run, task', run', E, R, id, nextRun + Cardinality(R))
  BY <1>1, <1>3
<1>5. \/ Stays(task, run, task', run', t)
      \/ Moves(task, run, task', run', t)
      \/ Retries(task, run, task', run', t)
  BY <1>2, <1>4, FailedTask
<1> QED BY <1>5 DEF TaskEvolves, Evolves

(* cancel_task moves the active runs of the task.                          *)
LEMMA CancelEvolves ==
  ASSUME IInv, NEW u \in Task, CancelTask(u), NEW t \in Task
  PROVE  TaskEvolves(t)
<1> DEFINE S == {u}
           M == {r \in RunId : run[r].state \in Active /\ run[r].task \in S}
<1>1. /\ Sound(task, run, nextRun) /\ now \in Nat /\ S \in SUBSET Task
      /\ \A v \in S : task[v].state \in Active
      /\ task' = CancelTasks(task, S) /\ run' = CancelRuns(run, S)
  BY DEF CancelTask, Cancellable, IInv, Rest
<1> HIDE DEF S
<1>2. MoveTogether(task, run, CancelTasks(task, S), CancelRuns(run, S), M, "cancelled")
  BY <1>1, CancelMoves
<1>3. MoveTogether(task, run, task', run', M, "cancelled")
  BY <1>1, <1>2
<1> QED BY <1>3, MoveEvolves DEF Within

(* cleanup_tasks removes tasks that have ended.                            *)
LEMMA CleanupTasksEvolves ==
  ASSUME IInv, NEW ttl, CleanupTasks(ttl), NEW t \in Task
  PROVE  TaskEvolves(t)
<1>1. PICK D \in SUBSET {u \in Task : task[u].state \in Terminal} :
        /\ task' = [u \in Task |-> IF u \in D THEN GoneTask ELSE task[u]]
        /\ run' = [r \in RunId |-> IF run[r].state \in State /\ run[r].task \in D
                                   THEN NoRun ELSE run[r]]
  BY DEF CleanupTasks, OldestBatches
<1>2. CASE t \in D
  BY <1>1, <1>2 DEF TaskEvolves, Evolves, Ends
<1>3. CASE t \notin D
  <2>1. task'[t] = task[t] /\ \A r \in RunsOf(run, t) : run'[r] = run[r]
    BY <1>1, <1>3 DEF RunsOf
  <2>2. RunsOf(run', t) = RunsOf(run, t)
    BY <1>1, <1>3, StateFacts DEF RunsOf
  <2> QED BY <2>1, <2>2 DEF TaskEvolves, Evolves, Stays, SameRuns
<1> QED BY <1>2, <1>3

(* The stages of claim_task compose.                                       *)
LEMMA SameRunsCompose ==
  ASSUME NEW a, NEW b, NEW c, NEW t, SameRuns(a, b, t), SameRuns(b, c, t)
  PROVE  SameRuns(a, c, t)
BY DEF SameRuns

(* A new run among stages that keep the others.                            *)
LEMMA NewRunCompose ==
  ASSUME NEW a, NEW b, NEW c, NEW d, NEW tk, NEW tk2, NEW t,
         SameRuns(a, b, t), NewRunFor(b, tk, c, t), SameRuns(c, d, t),
         tk2[t].attempts = tk[t].attempts, tk2[t].max_attempts = tk[t].max_attempts
  PROVE  NewRunFor(a, tk2, d, t)
<1>1. PICK n \in RunId \ RunsOf(b, t) :
        /\ RunsOf(c, t) = RunsOf(b, t) \union {n}
        /\ c[n].attempt = tk[t].attempts
        /\ \A r \in RunsOf(b, t) : c[r].attempt = b[r].attempt
        /\ tk[t].max_attempts = Null \/ tk[t].attempts <= tk[t].max_attempts
  BY DEF NewRunFor
<1>2. RunsOf(b, t) = RunsOf(a, t) /\ RunsOf(d, t) = RunsOf(c, t)
  BY DEF SameRuns
<1>3. /\ n \in RunId \ RunsOf(a, t)
      /\ RunsOf(d, t) = RunsOf(a, t) \union {n}
      /\ d[n].attempt = tk2[t].attempts
  BY <1>1, <1>2 DEF SameRuns
<1>4. \A r \in RunsOf(a, t) : d[r].attempt = a[r].attempt
  BY <1>1, <1>2 DEF SameRuns
<1> QED BY <1>1, <1>3, <1>4 DEF NewRunFor

(* claim_task cancels a task, or fails its run and may start the next one, *)
(* or starts its run.  A task that starts was not past its deadline.       *)
LEMMA ClaimEvolves ==
  ASSUME IInv, NEW qty, NEW lease \in Nat, ClaimTask(qty, lease), NEW t \in Task
  PROVE  /\ TaskEvolves(t)
         /\ \A r \in RunId : run'[r].state = "running" /\ run[r].state # "running" =>
              ~PastDeadline(task[run'[r].task])
<1> DEFINE S == DueForCancel
           tk1 == CancelTasks(task, S)
           rn1 == CancelRuns(run, S)
           M == {r \in RunId : run[r].state \in Active /\ run[r].task \in S}
<1>1. Sound(task, run, nextRun) /\ now \in Nat /\ S \in SUBSET Task
      /\ \A u \in S : task[u].state \in Active
  BY DEF IInv, Rest, DueForCancel
<1>2. PICK E \in Batches(Expired(rn1), qty) :
        /\ nextRun + Cardinality(Retried(tk1, rn1, E, Null)) <= MaxRuns + 1
        /\ \E id \in FreshIds(Retried(tk1, rn1, E, Null)) :
             \E C \in Batches(Candidates(FailTasks(tk1, rn1, E, Null, id),
                                         FailRuns(tk1, rn1, E, Null, id)), qty) :
               /\ task' = ClaimTasks(FailTasks(tk1, rn1, E, Null, id),
                                     FailRuns(tk1, rn1, E, Null, id), C)
               /\ run' = ClaimRuns(FailRuns(tk1, rn1, E, Null, id), C, lease)
  BY DEF ClaimTask
<1> DEFINE R == Retried(tk1, rn1, E, Null)
<1>3. PICK id \in FreshIds(R) :
        \E C \in Batches(Candidates(FailTasks(tk1, rn1, E, Null, id),
                                    FailRuns(tk1, rn1, E, Null, id)), qty) :
          /\ task' = ClaimTasks(FailTasks(tk1, rn1, E, Null, id),
                                FailRuns(tk1, rn1, E, Null, id), C)
          /\ run' = ClaimRuns(FailRuns(tk1, rn1, E, Null, id), C, lease)
  BY <1>2
<1> DEFINE tk2 == FailTasks(tk1, rn1, E, Null, id)
           rn2 == FailRuns(tk1, rn1, E, Null, id)
           next == nextRun + Cardinality(R)
<1>4. PICK C \in Batches(Candidates(tk2, rn2), qty) :
        task' = ClaimTasks(tk2, rn2, C) /\ run' = ClaimRuns(rn2, C, lease)
  BY <1>3
<1> HIDE DEF S
<1>5. MoveTogether(task, run, tk1, rn1, M, "cancelled") /\ Sound(tk1, rn1, nextRun)
  BY <1>1, CancelMoves, CancelSound
<1> HIDE DEF tk1, rn1, M
<1>6. E \in SUBSET RunId /\ \A r \in E : rn1[r].state \in {"running", "sleeping"}
  BY <1>2 DEF Batches, Expired
<1>7. \A r \in E : rn1[r].state = "running"
  BY <1>2 DEF Batches, Expired
<1>8. FailedRows(tk1, rn1, tk2, rn2, E, R, id, next) /\ Sound(tk2, rn2, next)
  <2>1. Null \in OrNull(Nat)
    BY DEF OrNull
  <2> QED BY <1>1, <1>2, <1>5, <1>6, <2>1, FailRows, FailSound
<1> HIDE DEF tk2, rn2, next
<1>9. C \in SUBSET Candidates(tk2, rn2)
  BY <1>4 DEF Batches
<1>10. MoveTogether(tk2, rn2, task', run', C, "running")
  BY <1>1, <1>4, <1>8, <1>9, ClaimMoves
<1>11. \A r \in C : /\ r \in RunId /\ rn2[r].state \in {"pending", "sleeping"}
                    /\ tk2[rn2[r].task].state \in Active
  BY <1>9 DEF Candidates
<1>12. ASSUME NEW u \in Task
       PROVE  /\ SameRuns(run, rn1, u)
              /\ \/ tk1[u] = task[u]
                 \/ /\ task[u].state \in Active /\ tk1[u].state = "cancelled"
                    /\ tk1[u].attempts = task[u].attempts
                    /\ tk1[u].max_attempts = task[u].max_attempts
  BY <1>1, <1>5, MovedTask
<1>13. ASSUME NEW u \in Task
       PROVE  \/ Stays(tk1, rn1, tk2, rn2, u)
              \/ /\ tk1[u].state = "running"
                 /\ \/ Moves(tk1, rn1, tk2, rn2, u) /\ tk2[u].state \in {"failed", "cancelled"}
                    \/ Retries(tk1, rn1, tk2, rn2, u) /\ tk2[u].state \in {"pending", "sleeping"}
  <2>1. \/ Stays(tk1, rn1, tk2, rn2, u)
        \/ /\ \E r \in E : rn1[r].task = u /\ tk1[u].state = rn1[r].state
           /\ \/ Moves(tk1, rn1, tk2, rn2, u) /\ tk2[u].state \in {"failed", "cancelled"}
              \/ Retries(tk1, rn1, tk2, rn2, u) /\ tk2[u].state \in {"pending", "sleeping"}
    BY <1>3, <1>5, <1>6, <1>8, FailedTask
  <2> QED BY <1>7, <2>1
<1>14. /\ SameRuns(rn2, run', t)
       /\ \/ task'[t] = tk2[t]
          \/ /\ tk2[t].state \in {"pending", "sleeping"} /\ task'[t].state = "running"
             /\ task'[t].attempts = tk2[t].attempts
             /\ task'[t].max_attempts = tk2[t].max_attempts
  BY <1>8, <1>10, <1>11, MovedTask
<1> HIDE DEF R
<1>15. TaskEvolves(t)
  <2>1. CASE tk1[t] # task[t]
    <3>1. tk1[t].state = "cancelled" /\ Stays(tk1, rn1, tk2, rn2, t)
      BY <1>12, <1>13, <2>1
    <3>2. tk2[t] = tk1[t] /\ task'[t] = tk1[t] /\ SameRuns(run, run', t)
      BY <1>12, <1>14, <3>1, SameRunsCompose DEF Stays
    <3> QED BY <1>12, <2>1, <3>1, <3>2 DEF TaskEvolves, Evolves, Moves, Within
  <2>2. CASE tk1[t] = task[t] /\ Stays(tk1, rn1, tk2, rn2, t)
    <3>1. tk2[t] = task[t] /\ SameRuns(run, run', t)
      BY <1>12, <1>14, <2>2, SameRunsCompose DEF Stays
    <3> QED BY <1>14, <3>1 DEF TaskEvolves, Evolves, Stays, Moves, Within
  <2>3. CASE /\ tk1[t] = task[t] /\ Moves(tk1, rn1, tk2, rn2, t)
             /\ tk2[t].state \in {"failed", "cancelled"} /\ tk1[t].state = "running"
    <3>1. task'[t] = tk2[t] /\ SameRuns(run, run', t)
      BY <1>12, <1>14, <2>3, SameRunsCompose DEF Moves
    <3> QED BY <2>3, <3>1 DEF TaskEvolves, Evolves, Moves
  <2>4. CASE /\ tk1[t] = task[t] /\ Retries(tk1, rn1, tk2, rn2, t)
             /\ tk2[t].state \in {"pending", "sleeping"} /\ tk1[t].state = "running"
    <3>1. task'[t].attempts = tk2[t].attempts /\ task'[t].max_attempts = tk2[t].max_attempts
      BY <1>14
    <3>2. NewRunFor(run, task', run', t)
      BY <1>12, <1>14, <2>4, <3>1, NewRunCompose DEF Retries
    <3> QED BY <1>14, <2>4, <3>1, <3>2 DEF TaskEvolves, Evolves, Retries, Across
  <2> QED BY <1>12, <1>13, <2>1, <2>2, <2>3, <2>4
<1>16. ASSUME NEW r \in RunId, run'[r].state = "running", run[r].state # "running"
       PROVE  ~PastDeadline(task[run'[r].task])
  <2>1. r \in C
    <3>1. ASSUME r \notin C
          PROVE  FALSE
      <4>1. rn2[r].state = "running"
        BY <1>10, <1>16, <3>1 DEF MoveTogether
      <4>2. rn1[r].state = "running"
        BY <1>8, <4>1 DEF FailedRows
      <4> QED BY <1>5, <1>16, <4>2 DEF MoveTogether
    <3> QED BY <3>1
  <2> DEFINE u == rn2[r].task
  <2>2. run'[r].task = u /\ u \in Task /\ tk2[u].state \in Active
    <3>1. rn2[r].state \in Active
      BY <1>11, <2>1 DEF Active
    <3> QED BY <1>8, <1>10, <1>11, <2>1, <3>1, ActiveIsLast DEF MoveTogether
  <2> HIDE DEF u
  <2>3. tk1[u].state \in Active
    <3>1. CASE Stays(tk1, rn1, tk2, rn2, u)
      BY <2>2, <3>1 DEF Stays
    <3>2. CASE tk1[u].state = "running"
      BY <3>2 DEF Active
    <3> QED BY <1>13, <2>2, <3>1, <3>2
  <2>4. tk1[u] = task[u]
    BY <1>12, <2>2, <2>3 DEF Active
  <2>5. u \notin S
    <3>1. u \in S => tk1[u].state = "cancelled"
      <4>1. u \in S => task[u] \in TaskRow
        BY <1>1, Rows, StateFacts DEF Sound
      <4> QED BY <2>2, <4>1 DEF tk1, CancelTasks, TaskRow
    <3> QED BY <2>3, <3>1 DEF Active
  <2> QED BY <2>2, <2>3, <2>4, <2>5 DEF S, DueForCancel
<1> QED BY <1>15, <1>16

(* Every call moves every task in one of the ways that Evolves lists.      *)
LEMMA NextEvolves ==
  ASSUME IInv, [Next]_vars, NEW t \in Task
  PROVE  TaskEvolves(t)
<1> USE InputAssumption
<1>0. now \in Nat /\ Null \in OrNull(Nat) /\ Rest
  BY DEF IInv, Rest, OrNull
<1>1. ASSUME NEW u \in Task, NEW p \in Policy, NEW k \in OrNull(Key),
             SpawnTask(u, p, p.max_attempts, k)
      PROVE  TaskEvolves(t)
  <2>1. p.max_attempts \in OrNull(Nat \ {0})
    BY DEF PolicyType
  <2> QED BY <1>1, <2>1, SpawnEvolves
<1>2. ASSUME NEW qty \in Qty, NEW lease \in Lease, ClaimTask(qty, lease)
      PROVE  TaskEvolves(t)
  BY <1>2, ClaimEvolves
<1>3. ASSUME NEW r \in RunId, CompleteRun(r)
      PROVE  TaskEvolves(t)
  <2>1. MoveTogether(task, run, task', run', {r}, "completed")
    BY <1>3, CompleteMoves
  <2>2. \A q \in {r} : Within(run[q].state, "completed")
    BY <1>3 DEF CompleteRun, Within
  <2> QED BY <2>1, <2>2, MoveEvolves
<1>4. ASSUME NEW r \in RunId, NEW d \in Delay, ScheduleRun(r, now + d)
      PROVE  TaskEvolves(t)
  <2>1. now + d \in Nat
    BY <1>0
  <2>2. MoveTogether(task, run, task', run', {r}, "sleeping")
    BY <1>4, <2>1, ScheduleMoves
  <2>3. \A q \in {r} : Within(run[q].state, "sleeping")
    BY <1>4 DEF ScheduleRun, Within
  <2> QED BY <2>2, <2>3, MoveEvolves
<1>5. ASSUME NEW r \in RunId, NEW at \in {Null} \union {now + d : d \in Delay}, FailRun(r, at)
      PROVE  TaskEvolves(t)
  <2>1. at \in OrNull(Nat)
    BY <1>0 DEF OrNull
  <2> QED BY <1>5, <2>1, FailEvolves
<1>6. ASSUME NEW u \in Task, NEW m \in MaxAttempts, RetryTask(u, m)
      PROVE  TaskEvolves(t)
  BY <1>6, RetryEvolves
<1>7. ASSUME NEW o \in Task, NEW u \in Task, NEW m \in MaxAttempts, RetryAsNew(o, u, m)
      PROVE  TaskEvolves(t)
  <2>1. task[o] \in TaskRow
    BY <1>7, Rows DEF RetryAsNew, Retriable, State, Terminal, IInv, Sound
  <2>2. Coalesce(m, task[o].max_attempts) \in OrNull(Nat \ {0})
    BY <2>1 DEF TaskRow, Coalesce, OrNull
  <2>3. SpawnTask(u, task[o].policy, Coalesce(m, task[o].max_attempts), Null)
    BY <1>7 DEF RetryAsNew
  <2> QED BY <2>2, <2>3, SpawnEvolves
<1>8. ASSUME NEW r \in RunId, NEW s \in Step, NEW v \in Value, NEW x \in Lease,
             SetTaskCheckpointState(r, s, v, x)
      PROVE  TaskEvolves(t)
  <2> DEFINE new == [run[r] EXCEPT !.claim_expires_at = now + x]
  <2>1. run[r].state \in State /\ run[r] \in RunRow /\ run \in RunTable
    BY <1>8, RunFacts DEF SetTaskCheckpointState, MayCheckpoint
  <2>2. /\ new.state = run[r].state /\ new.task = run[r].task /\ new.attempt = run[r].attempt
        /\ run' = run \/ run' = [run EXCEPT ![r] = new]
        /\ task' = task
    BY <1>8, <2>1 DEF SetTaskCheckpointState, RunTable, RunRow
  <2> HIDE DEF new
  <2> QED BY <2>1, <2>2, TouchEvolves
<1>9. ASSUME NEW r \in RunId, NEW x \in Lease, ExtendClaim(r, x)
      PROVE  TaskEvolves(t)
  <2> DEFINE new == [run[r] EXCEPT !.claim_expires_at = now + x]
  <2>1. run[r].state \in State /\ run[r] \in RunRow /\ run \in RunTable
    BY <1>9, RunFacts DEF ExtendClaim
  <2>2. /\ new.state = run[r].state /\ new.task = run[r].task /\ new.attempt = run[r].attempt
        /\ run' = [run EXCEPT ![r] = new] /\ task' = task
    BY <1>9, <2>1 DEF ExtendClaim, RunTable, RunRow
  <2> HIDE DEF new
  <2> QED BY <2>1, <2>2, TouchEvolves
<1>10. ASSUME NEW r \in RunId, NEW s \in Step, NEW e \in Event, AwaitResolved(r, s, e)
       PROVE  TaskEvolves(t)
  <2> DEFINE new == [run[r] EXCEPT !.event_payload = Null]
  <2>1. run[r].state \in State /\ run[r] \in RunRow /\ run \in RunTable
    BY <1>10, AwaitingEvent DEF AwaitResolved
  <2>2. /\ new.state = run[r].state /\ new.task = run[r].task /\ new.attempt = run[r].attempt
        /\ run' = [run EXCEPT ![r] = new] /\ task' = task
    BY <1>10, <2>1 DEF AwaitResolved, RunTable, RunRow
  <2> HIDE DEF new
  <2> QED BY <2>1, <2>2, TouchEvolves
<1>11. ASSUME NEW r \in RunId, NEW s \in Step, NEW e \in Event, AwaitTimedOut(r, s, e)
       PROVE  TaskEvolves(t)
  <2> DEFINE new == [run[r] EXCEPT !.wake_event = Null]
  <2>1. run[r].state \in State /\ run[r] \in RunRow /\ run \in RunTable
    BY <1>11, AwaitingEvent DEF AwaitTimedOut
  <2>2. /\ new.state = run[r].state /\ new.task = run[r].task /\ new.attempt = run[r].attempt
        /\ run' = [run EXCEPT ![r] = new] /\ task' = task
    BY <1>11, <2>1 DEF AwaitTimedOut, RunTable, RunRow
  <2> HIDE DEF new
  <2> QED BY <2>1, <2>2, TouchEvolves
<1>12. ASSUME NEW r \in RunId, NEW s \in Step, NEW e \in Event, NEW x \in Timeout,
              AwaitSuspended(r, s, e, x)
       PROVE  TaskEvolves(t)
  <2>1. MoveTogether(task, run, task', run', {r}, "sleeping")
    BY <1>12, SuspendedMoves
  <2>2. \A q \in {r} : Within(run[q].state, "sleeping")
    BY <1>12 DEF AwaitSuspended, Awaiting, Within
  <2> QED BY <2>1, <2>2, MoveEvolves
<1>13. ASSUME NEW e \in Event, NEW v \in Value, EmitEvent(e, v)
       PROVE  TaskEvolves(t)
  <2>1. MoveTogether(task, run, task', run', Woken(e), "pending")
    BY <1>13, EmitMoves
  <2>2. \A q \in Woken(e) : Within(run[q].state, "pending")
    BY DEF Woken, Within
  <2> QED BY <2>1, <2>2, MoveEvolves
<1>14. ASSUME NEW u \in Task, CancelTask(u)
       PROVE  TaskEvolves(t)
  BY <1>14, CancelEvolves
<1>15. ASSUME NEW ttl \in Ttl, CleanupTasks(ttl)
       PROVE  TaskEvolves(t)
  BY <1>15, CleanupTasksEvolves
<1>16. CASE UNCHANGED <<task, run>>
  BY <1>16 DEF TaskEvolves, Evolves, Stays, SameRuns, RunsOf
<1>17. ASSUME NEW ttl \in Ttl, CleanupEvents(ttl)
       PROVE  TaskEvolves(t)
  BY <1>16, <1>17 DEF CleanupEvents
<1>18. CASE Tick \/ UNCHANGED vars
  BY <1>16, <1>18 DEF Tick, vars
<1> QED BY <1>1, <1>2, <1>3, <1>4, <1>5, <1>6, <1>7, <1>8, <1>9, <1>10, <1>11, <1>12,
           <1>13, <1>14, <1>15, <1>17, <1>18 DEF Next

-----------------------------------------------------------------------------
(* The numbering of the attempts.                                          *)

Numbered(tk, rn, t) ==
  /\ {rn[r].attempt : r \in RunsOf(rn, t)} = 1 .. tk[t].attempts
  /\ \A q, r \in RunsOf(rn, t) : rn[q].attempt = rn[r].attempt => q = r
  /\ tk[t].max_attempts = Null \/ tk[t].attempts <= tk[t].max_attempts

(* A step that evolves keeps the attempts of a task numbered.              *)
LEMMA StepNumbered ==
  ASSUME IInv, IInv', AttemptAccounting, NEW t \in Task, TaskEvolves(t), Exists(t)'
  PROVE  Numbered(task', run', t)
<1>1. task[t].state \in State => Numbered(task, run, t)
  BY DEF AttemptAccounting, Exists, Numbered
<1>2. /\ task[t].state \in State => task[t].attempts \in Nat
      /\ task'[t].state \in State
  BY Rows DEF Exists, IInv, Sound, TaskRow
<1>3. ASSUME SameRuns(run, run', t), task[t].state \in State,
             task'[t].attempts = task[t].attempts,
             task'[t].max_attempts = task[t].max_attempts
      PROVE  Numbered(task', run', t)
  <2>1. {run'[r].attempt : r \in RunsOf(run', t)} = {run[r].attempt : r \in RunsOf(run, t)}
    BY <1>3 DEF SameRuns
  <2> QED BY <1>1, <1>3, <2>1 DEF Numbered, SameRuns
<1>4. ASSUME NewRunFor(run, task', run', t), NEW a \in Nat, task'[t].attempts = a + 1,
             {run[r].attempt : r \in RunsOf(run, t)} = 1 .. a,
             \A q, r \in RunsOf(run, t) : run[q].attempt = run[r].attempt => q = r
      PROVE  Numbered(task', run', t)
  <2>1. PICK n \in RunId \ RunsOf(run, t) :
          /\ RunsOf(run', t) = RunsOf(run, t) \union {n}
          /\ run'[n].attempt = task'[t].attempts
          /\ \A r \in RunsOf(run, t) : run'[r].attempt = run[r].attempt
          /\ task'[t].max_attempts = Null \/ task'[t].attempts <= task'[t].max_attempts
    BY <1>4 DEF NewRunFor
  <2>2. \A r \in RunsOf(run, t) : run[r].attempt \in 1 .. a
    BY <1>4
  <2>3. {run'[r].attempt : r \in RunsOf(run', t)} = (1 .. a) \union {a + 1}
    <3>1. {run'[r].attempt : r \in RunsOf(run', t)} =
            {run[r].attempt : r \in RunsOf(run, t)} \union {a + 1}
      BY <1>4, <2>1
    <3> QED BY <1>4, <3>1
  <2>4. (1 .. a) \union {a + 1} = 1 .. a + 1
    OBVIOUS
  <2>5. \A q, r \in RunsOf(run', t) : run'[q].attempt = run'[r].attempt => q = r
    BY <1>4, <2>1, <2>2
  <2> QED BY <1>4, <2>1, <2>3, <2>4, <2>5 DEF Numbered
<1>5. CASE Stays(task, run, task', run', t)
  BY <1>2, <1>3, <1>5 DEF Stays
<1>6. CASE Moves(task, run, task', run', t)
  BY <1>3, <1>6 DEF Moves, Within, State, Active
<1>7. CASE Retries(task, run, task', run', t)
  <2>1. task[t].state \in State
    BY <1>7 DEF Retries, Across, State, Active, Terminal
  <2> QED BY <1>1, <1>2, <1>4, <1>7, <2>1 DEF Retries, Numbered
<1>8. CASE Begins(task, run, task', run', t)
  <2>1. RunsOf(run, t) = {}
    BY <1>8, StateFacts DEF Begins, RunsOf, IInv, Sound, Placed
  <2>2. {run[r].attempt : r \in RunsOf(run, t)} = 1 .. 0
    BY <2>1
  <2> QED BY <1>4, <1>8, <2>1, <2>2 DEF Begins
<1>9. CASE Ends(task, run, task', run', t)
  BY <1>2, <1>9, StateFacts DEF Ends
<1> QED BY <1>5, <1>6, <1>7, <1>8, <1>9 DEF TaskEvolves, Evolves

(* No attempt is skipped, repeated or beyond max_attempts, whichever call  *)
(* numbered it.                                                            *)
THEOREM AttemptsCounted == Spec => []AttemptAccounting
<1>1. Init => AttemptAccounting
  BY StateFacts DEF Init, AttemptAccounting, Exists
<1>2. IInv /\ AttemptAccounting /\ [Next]_vars => AttemptAccounting'
  <2> SUFFICES ASSUME IInv, AttemptAccounting, [Next]_vars PROVE AttemptAccounting'
    OBVIOUS
  <2>1. \A t \in Task : Exists(t)' => Numbered(task', run', t)
    BY NextIInv, NextEvolves, StepNumbered
  <2> QED BY <2>1 DEF AttemptAccounting, Numbered
<1> QED BY <1>1, <1>2, Inductive, PTL DEF Spec

-----------------------------------------------------------------------------
(* Action properties.                                                      *)

(* A finished task stays finished: no call of a late worker, and no claim, *)
(* moves it; a failed one comes back only for a further attempt.           *)
THEOREM FinalityKept == Spec => TerminalIsFinal
<1>1. IInv /\ [Next]_vars =>
        [\A t \in Task : task[t].state \in Terminal =>
           \/ task'[t] \in {task[t], GoneTask}
           \/ /\ task[t].state = "failed" /\ task'[t].state = "pending"
              /\ task'[t].attempts = task[t].attempts + 1
              /\ task'[t].attempts <= task'[t].max_attempts]_vars
  <2> SUFFICES ASSUME IInv, [Next]_vars, NEW t \in Task, task[t].state \in Terminal
               PROVE  \/ task'[t] \in {task[t], GoneTask}
                      \/ /\ task[t].state = "failed" /\ task'[t].state = "pending"
                         /\ task'[t].attempts = task[t].attempts + 1
                         /\ task'[t].attempts <= task'[t].max_attempts
    OBVIOUS
  <2>1. TaskEvolves(t)
    BY NextEvolves
  <2>2. CASE Moves(task, run, task', run', t)
    BY <2>2 DEF Moves, Within, Active, Terminal
  <2>3. CASE Retries(task, run, task', run', t)
    BY <2>3 DEF Retries, Across, NewRunFor, Terminal
  <2>4. CASE Begins(task, run, task', run', t)
    BY <2>4, StateFacts DEF Begins, Terminal
  <2> QED BY <2>1, <2>2, <2>3, <2>4 DEF TaskEvolves, Evolves, Stays, Ends
<1> QED BY <1>1, Inductive, PTL DEF Spec, TerminalIsFinal

(* Every call moves each task along TaskLifecycle.                         *)
THEOREM LifecycleImplemented == Spec => ImplementsLifecycle
<1>1. Init => Lifecycle!Init
  BY StateFacts DEF Init, Lifecycle!Init, Phase, Attempt, Exists, NoTask
<1>2. IInv /\ [Next]_vars => [Lifecycle!Next]_(Lifecycle!vars)
  <2> SUFFICES ASSUME IInv, [Next]_vars PROVE Lifecycle!Next
    OBVIOUS
  <2> SUFFICES ASSUME NEW t \in Task
               PROVE  \/ Lifecycle!Submit(t) \/ Lifecycle!Start(t) \/ Lifecycle!Suspend(t)
                      \/ Lifecycle!Complete(t) \/ Lifecycle!GiveUp(t) \/ Lifecycle!TryAgain(t)
                      \/ Lifecycle!Forget(t) \/ Lifecycle!Stay(t)
    BY DEF Lifecycle!Next
  <2>1. TaskEvolves(t)
    BY NextEvolves
  <2> USE DEF Lifecycle!Move, Lifecycle!Same, Phase, Attempt, Exists, Within, Across,
              State, Active, Terminal
  <2>2. CASE Stays(task, run, task', run', t)
    BY <2>2 DEF Stays, Lifecycle!Stay
  <2>3. CASE Moves(task, run, task', run', t)
    BY <2>3 DEF Moves, Lifecycle!Start, Lifecycle!Suspend, Lifecycle!Complete,
                Lifecycle!GiveUp, Lifecycle!Stay, Lifecycle!Open
  <2>4. CASE Retries(task, run, task', run', t)
    BY <2>4 DEF Retries, Lifecycle!TryAgain, Lifecycle!Open
  <2>5. CASE Begins(task, run, task', run', t)
    BY <2>5, StateFacts DEF Begins, Lifecycle!Submit
  <2>6. CASE Ends(task, run, task', run', t)
    BY <2>6, StateFacts DEF Ends, Lifecycle!Forget, Lifecycle!Ended
  <2> QED BY <2>1, <2>2, <2>3, <2>4, <2>5, <2>6 DEF TaskEvolves, Evolves
<1> QED BY <1>1, <1>2, Inductive, PTL DEF Spec, ImplementsLifecycle, Lifecycle!Spec

-----------------------------------------------------------------------------
(* What a call does to single runs and checkpoints: it starts no run of a  *)
(* task past its deadline, changes no run that has ended, and replaces a   *)
(* checkpoint only for an attempt as late as the one that wrote it.        *)

InTime(r) == run'[r].state = "running" /\ run[r].state # "running" =>
               ~PastDeadline(task[run'[r].task])
Settled(r) == run[r].state \in Terminal => run'[r] = run[r] \/ task'[run[r].task] = GoneTask
Written(t, s) ==
  \/ ckpt'[t][s] = ckpt[t][s]
  \/ task'[t] = GoneTask
  \/ /\ task[t].state # "cancelled"
     /\ ckpt'[t][s].owner \in RunsOf(run, t)
     /\ ckpt[t][s] # Null =>
          run[ckpt[t][s].owner].attempt <= run[ckpt'[t][s].owner].attempt
Orderly == /\ \A r \in RunId : InTime(r) /\ Settled(r)
           /\ \A t \in Task, s \in Step : Written(t, s)

(* Active runs that move, other than into execution.                       *)
LEMMA MoveSettled ==
  ASSUME NEW M, NEW st, MoveTogether(task, run, task', run', M, st), st # "running"
  PROVE  \A r \in RunId : InTime(r) /\ Settled(r)
<1> SUFFICES ASSUME NEW r \in RunId PROVE InTime(r) /\ Settled(r)
  OBVIOUS
<1>1. CASE r \in M
  BY <1>1 DEF MoveTogether, InTime, Settled, Active, Terminal
<1>2. CASE r \notin M
  BY <1>2 DEF MoveTogether, InTime, Settled
<1> QED BY <1>1, <1>2

(* Active runs that move without a checkpoint being written.               *)
LEMMA MoveOrderly ==
  ASSUME NEW M, NEW st, MoveTogether(task, run, task', run', M, st), st # "running",
         ckpt' = ckpt
  PROVE  Orderly
BY MoveSettled DEF Orderly, Written

(* A call that changes one run which has not ended.                        *)
LEMMA OneRunOrderly ==
  ASSUME IInv, NEW r \in RunId, NEW new, run' = run \/ run' = [run EXCEPT ![r] = new],
         run[r].state \notin Terminal \/ run' = run,
         new.state # "running" \/ run[r].state = "running"
  PROVE  \A q \in RunId : InTime(q) /\ Settled(q)
<1>1. run \in RunTable
  BY DEF IInv, Sound
<1> QED BY <1>1 DEF RunTable, InTime, Settled

(* spawn_task and retry_task insert a run that is pending.                 *)
LEMMA AppendOrderly ==
  ASSUME IInv, nextRun \in RunId, NEW t, NEW n,
         run' = [run EXCEPT ![nextRun] = NewRun(t, n, "pending", now)], ckpt' = ckpt
  PROVE  Orderly
<1>1. run[nextRun].state = "absent"
  BY StateFacts DEF IInv, Sound, RunId
<1>2. \A q \in RunId : InTime(q) /\ Settled(q)
  BY <1>1, OneRunOrderly DEF NewRun, Terminal
<1> QED BY <1>2 DEF Orderly, Written

(* fail_run changes a run that has not ended and inserts one.              *)
LEMMA FailOrderly ==
  ASSUME IInv, NEW r \in RunId, NEW at, FailRun(r, at)
  PROVE  Orderly
<1> DEFINE E == {r}
           R == Retried(task, run, E, at)
<1>1. PICK id \in FreshIds(R) : run' = FailRuns(task, run, E, at, id)
  BY DEF FailRun
<1>2. /\ Sound(task, run, nextRun) /\ E \in SUBSET RunId
      /\ \A q \in E : run[q].state \in {"running", "sleeping"}
      /\ nextRun + Cardinality(R) <= MaxRuns + 1
  BY DEF FailRun, Failable, IInv
<1>3. ckpt' = ckpt
  BY DEF FailRun
<1> HIDE DEF E
<1> DEFINE rn2 == FailRuns(task, run, E, at, id)
<1>4. /\ \A q \in E : /\ rn2[q].state = "failed" /\ rn2[q].task = run[q].task
                      /\ rn2[q].wake_event = Null
      /\ \A q \in RunId \ E : rn2[q] = run[q] \/ (run[q] = NoRun /\ rn2[q].wake_event = Null)
  BY <1>2, FailEffect
<1>5. \A q \in RunId : run[q] = NoRun => rn2[q].state # "running"
  <2>1. ASSUME NEW q \in RunId, q \notin E
        PROVE  rn2[q] = run[q] \/ rn2[q].state \in {"pending", "sleeping"}
    BY <2>1 DEF FailRuns, NewRun, RetryState
  <2> HIDE DEF rn2
  <2> QED BY <1>4, <2>1, StateFacts
<1> HIDE DEF rn2
<1>6. run' = rn2
  BY <1>1 DEF rn2
<1>7. ASSUME NEW q \in RunId
      PROVE  InTime(q) /\ Settled(q)
  <2>1. CASE q \in E
    BY <1>2, <1>4, <1>6, <2>1 DEF InTime, Settled, Terminal
  <2>2. CASE q \notin E /\ run'[q] = run[q]
    BY <2>2 DEF InTime, Settled
  <2>3. CASE run[q] = NoRun
    <3>1. run[q].state \notin Terminal
      BY <2>3, StateFacts DEF Terminal
    <3> QED BY <1>5, <1>6, <2>3, <3>1 DEF InTime, Settled
  <2> QED BY <1>4, <1>6, <2>1, <2>2, <2>3
<1> QED BY <1>3, <1>7 DEF Orderly, Written

(* claim_task changes active runs only, besides those it inserts.          *)
LEMMA ClaimOrderly ==
  ASSUME IInv, NEW qty \in Qty, NEW lease \in Nat, ClaimTask(qty, lease)
  PROVE  Orderly
<1> DEFINE S == DueForCancel
           tk1 == CancelTasks(task, S)
           rn1 == CancelRuns(run, S)
<1>1. Sound(tk1, rn1, nextRun)
  BY CancelSound DEF IInv, Rest, DueForCancel
<1>2. PICK E \in Batches(Expired(rn1), qty) :
        /\ nextRun + Cardinality(Retried(tk1, rn1, E, Null)) <= MaxRuns + 1
        /\ \E id \in FreshIds(Retried(tk1, rn1, E, Null)) :
             \E C \in Batches(Candidates(FailTasks(tk1, rn1, E, Null, id),
                                         FailRuns(tk1, rn1, E, Null, id)), qty) :
               run' = ClaimRuns(FailRuns(tk1, rn1, E, Null, id), C, lease)
        /\ ckpt' = ckpt
  BY DEF ClaimTask
<1>3. PICK id \in FreshIds(Retried(tk1, rn1, E, Null)) :
        \E C \in Batches(Candidates(FailTasks(tk1, rn1, E, Null, id),
                                    FailRuns(tk1, rn1, E, Null, id)), qty) :
          run' = ClaimRuns(FailRuns(tk1, rn1, E, Null, id), C, lease)
  BY <1>2
<1> DEFINE rn2 == FailRuns(tk1, rn1, E, Null, id)
<1>4. PICK C \in Batches(Candidates(FailTasks(tk1, rn1, E, Null, id), rn2), qty) :
        run' = ClaimRuns(rn2, C, lease)
  BY <1>3
<1>5. /\ E \in SUBSET RunId /\ \A r \in E : rn1[r].state \in {"running", "sleeping"}
      /\ \A r \in C : rn2[r].state \in {"pending", "sleeping"}
  BY <1>2, <1>4 DEF Batches, Expired, Candidates
<1>6. ASSUME NEW r \in RunId, run[r].state \in Terminal
      PROVE  rn1[r] = run[r]
  BY <1>6 DEF CancelRuns, Active, Terminal
<1> HIDE DEF tk1, rn1
<1>7. /\ \A r \in E : /\ rn2[r].state = "failed" /\ rn2[r].task = rn1[r].task
                      /\ rn2[r].wake_event = Null
      /\ \A r \in RunId \ E : rn2[r] = rn1[r] \/ (rn1[r] = NoRun /\ rn2[r].wake_event = Null)
  BY <1>1, <1>2, <1>3, <1>5, FailEffect
<1> HIDE DEF rn2
<1>8. ASSUME NEW r \in RunId, run[r].state \in Terminal
      PROVE  run'[r] = run[r]
  <2>1. rn1[r] = run[r] /\ r \notin E /\ rn1[r] # NoRun
    BY <1>5, <1>6, <1>8, StateFacts DEF Terminal
  <2>2. rn2[r] = run[r]
    BY <1>7, <2>1
  <2>3. r \notin C
    BY <1>5, <1>8, <2>2 DEF Terminal
  <2> QED BY <1>4, <2>2, <2>3 DEF ClaimRuns
<1>9. \A r \in RunId : InTime(r)
  <2>1. ASSUME NEW r \in RunId, run'[r].state = "running", run[r].state # "running"
        PROVE  ~PastDeadline(task[run'[r].task])
    <3>1. run'[r].task \in Task
      <4>1. run' \in RunTable
        BY ClaimInv DEF IInv, Sound
      <4> QED BY <2>1, <4>1 DEF RunTable, RunRow, NoRun
    <3> QED BY <2>1, <3>1, ClaimEvolves
  <2> QED BY <2>1 DEF InTime
<1> QED BY <1>2, <1>8, <1>9 DEF Orderly, Settled, Written

(* The attempts of the runs of a task are numbers up to that of the task.  *)
LEMMA AttemptsBelow ==
  ASSUME IInv, AttemptAccounting, NEW t \in Task, NEW r \in RunsOf(run, t)
  PROVE  /\ r \in RunId /\ Exists(t) /\ task[t].attempts \in Nat
         /\ run[r].attempt \in 1 .. task[t].attempts
<1>1. r \in RunId /\ run[r].state \in State /\ run[r].task = t
  BY DEF RunsOf
<1>2. Exists(t) /\ task[t] \in TaskRow
  BY <1>1, Rows DEF IInv, Sound, Placed, Exists
<1> QED BY <1>1, <1>2 DEF AttemptAccounting, TaskRow

(* set_task_checkpoint_state compares the attempts before it writes.       *)
LEMMA CheckpointOrderly ==
  ASSUME IInv, Linked, NEW r \in RunId, NEW s \in Step, NEW v, NEW x,
         SetTaskCheckpointState(r, s, v, x)
  PROVE  Orderly
<1> DEFINE new == [run[r] EXCEPT !.claim_expires_at = now + x]
<1>1. /\ run[r].state \in State /\ run[r] \in RunRow /\ run \in RunTable
      /\ run[r].task \in Task /\ Rest
  BY RunFacts DEF SetTaskCheckpointState, MayCheckpoint, IInv
<1>2. \A q \in RunId : InTime(q) /\ Settled(q)
  <2>1. run' = run \/ (run[r].state = "running" /\ run' = [run EXCEPT ![r] = new])
    BY SMTT(60), <1>1 DEF SetTaskCheckpointState, RunTable, RunRow
  <2> HIDE DEF new
  <2> QED BY <2>1, OneRunOrderly DEF Terminal
<1>3. ASSUME NEW t \in Task, NEW q \in Step, ckpt'[t][q] # ckpt[t][q]
      PROVE  Written(t, q)
  <2>1. /\ ckpt' = [ckpt EXCEPT ![run[r].task][s] = [value |-> v, owner |-> r]]
        /\ MayWrite(r, ckpt[run[r].task][s]) /\ task[run[r].task].state # "cancelled"
    BY <1>3 DEF SetTaskCheckpointState, MayCheckpoint
  <2>2. t = run[r].task /\ q = s /\ ckpt'[t][q].owner = r
    BY <1>1, <1>3, <2>1 DEF Rest
  <2>3. r \in RunsOf(run, t)
    BY SMTT(60), <1>1, <2>2 DEF RunsOf
  <2>4. ckpt[t][q] # Null => run[ckpt[t][q].owner].attempt <= run[r].attempt
    <3> SUFFICES ASSUME ckpt[t][q] # Null
                 PROVE  run[ckpt[t][q].owner].attempt <= run[r].attempt
      OBVIOUS
    <3>1. ckpt[t][q].owner \in RunsOf(run, t)
      BY DEF Linked, CheckpointsOwned, Owned
    <3>2. run[ckpt[t][q].owner].state # "absent"
      BY <3>1, StateFacts DEF RunsOf
    <3>3. run[ckpt[t][q].owner].attempt \in Nat /\ run[r].attempt \in Nat
      <4>1. ckpt[t][q].owner \in RunId /\ run[ckpt[t][q].owner] \in RunRow
        BY <3>1, <3>2, RunFacts DEF RunsOf
      <4> QED BY <1>1, <4>1 DEF RunRow
    <3> QED BY <2>1, <2>2, <3>2, <3>3 DEF MayWrite
  <2> QED BY <2>1, <2>2, <2>3, <2>4 DEF Written
<1> QED BY <1>2, <1>3 DEF Orderly, Written

(* await_event writes only a step that has no checkpoint.                  *)
LEMMA ResolvedOrderly ==
  ASSUME IInv, Linked, NEW r \in RunId, NEW s \in Step, NEW e \in Event,
         AwaitResolved(r, s, e)
  PROVE  Orderly
<1> DEFINE new == [run[r] EXCEPT !.event_payload = Null]
<1>1. /\ run[r].state = "running" /\ run[r].state \in State
      /\ run[r] \in RunRow /\ run \in RunTable /\ run[r].task \in Task /\ Rest
  BY AwaitingEvent DEF AwaitResolved
<1>2. \A q \in RunId : InTime(q) /\ Settled(q)
  <2>1. run' = [run EXCEPT ![r] = new]
    BY <1>1 DEF AwaitResolved, RunTable, RunRow
  <2> HIDE DEF new
  <2> QED BY <1>1, <2>1, OneRunOrderly DEF Terminal
<1>3. ASSUME NEW t \in Task, NEW q \in Step, ckpt'[t][q] # ckpt[t][q]
      PROVE  Written(t, q)
  <2>1. /\ ckpt' = [ckpt EXCEPT ![run[r].task][s] = [value |-> Payload(e), owner |-> r]]
        /\ ckpt[run[r].task][s] = Null /\ task[run[r].task].state # "cancelled"
    BY DEF AwaitResolved, Awaiting
  <2>2. t = run[r].task /\ q = s /\ ckpt'[t][q].owner = r
    BY <1>1, <1>3, <2>1 DEF Rest
  <2> QED BY <1>1, <2>1, <2>2 DEF Written, RunsOf
<1> QED BY <1>2, <1>3 DEF Orderly, Written

(* await_event that times out changes one running run.                     *)
LEMMA TimedOutOrderly ==
  ASSUME IInv, NEW r \in RunId, NEW s \in Step, NEW e \in Event, AwaitTimedOut(r, s, e)
  PROVE  Orderly
<1> DEFINE new == [run[r] EXCEPT !.wake_event = Null]
<1>1. run[r].state = "running" /\ run[r] \in RunRow /\ run \in RunTable
  BY AwaitingEvent DEF AwaitTimedOut
<1>2. run' = [run EXCEPT ![r] = new] /\ ckpt' = ckpt
  BY <1>1 DEF AwaitTimedOut, RunTable, RunRow
<1> HIDE DEF new
<1>3. \A q \in RunId : InTime(q) /\ Settled(q)
  BY <1>1, <1>2, OneRunOrderly DEF Terminal
<1> QED BY <1>2, <1>3 DEF Orderly, Written

(* extend_claim changes one running run.                                   *)
LEMMA ExtendOrderly ==
  ASSUME IInv, NEW r \in RunId, NEW x, ExtendClaim(r, x)
  PROVE  Orderly
<1> DEFINE new == [run[r] EXCEPT !.claim_expires_at = now + x]
<1>1. run[r].state = "running" /\ run[r] \in RunRow /\ run \in RunTable
  BY RunFacts DEF ExtendClaim
<1>2. run' = [run EXCEPT ![r] = new] /\ ckpt' = ckpt
  BY <1>1 DEF ExtendClaim, RunTable, RunRow
<1> HIDE DEF new
<1>3. \A q \in RunId : InTime(q) /\ Settled(q)
  BY <1>1, <1>2, OneRunOrderly DEF Terminal
<1> QED BY <1>2, <1>3 DEF Orderly, Written

(* emit_event writes for the run that waits, which is that of the last     *)
(* attempt.                                                                *)
LEMMA EmitOrderly ==
  ASSUME IInv, Linked, AttemptAccounting, NEW e \in Event, NEW v \in Value, EmitEvent(e, v)
  PROVE  Orderly
<1>1. \A r \in RunId : InTime(r) /\ Settled(r)
  BY EmitMoves, MoveSettled
<1>2. ASSUME NEW t \in Task, NEW s \in Step, ckpt'[t][s] # ckpt[t][s]
      PROVE  Written(t, s)
  <2> DEFINE r == ckpt'[t][s].owner
  <2>1. r \in Woken(e) /\ run[r].task = t
    BY <1>2, EmitWrites
  <2> HIDE DEF r
  <2>2. r \in RunId /\ run[r].state = "sleeping" /\ run[r].state \in Active
    BY <2>1 DEF Woken, Active
  <2>3. task[t].state = "sleeping" /\ run[r].attempt = task[t].attempts
    BY <2>1, <2>2, ActiveIsLast DEF IInv
  <2>4. r \in RunsOf(run, t)
    BY <2>1, <2>2, StateFacts DEF RunsOf
  <2>5. ckpt[t][s] # Null => run[ckpt[t][s].owner].attempt <= run[r].attempt
    BY <2>3, AttemptsBelow DEF Linked, CheckpointsOwned, Owned
  <2> QED BY <2>3, <2>4, <2>5 DEF Written, r
<1> QED BY <1>1, <1>2 DEF Orderly, Written

(* cleanup_tasks deletes runs and checkpoints with their task.             *)
LEMMA CleanupTasksOrderly ==
  ASSUME IInv, NEW ttl, CleanupTasks(ttl)
  PROVE  Orderly
<1>1. PICK D \in SUBSET Task :
        /\ task' = [t \in Task |-> IF t \in D THEN GoneTask ELSE task[t]]
        /\ run' = [r \in RunId |-> IF run[r].state \in State /\ run[r].task \in D
                                   THEN NoRun ELSE run[r]]
        /\ ckpt' = DeleteCheckpoints(D)
  BY DEF CleanupTasks, OldestBatches
<1>2. \A r \in RunId : InTime(r) /\ Settled(r)
  BY <1>1, StateFacts DEF InTime, Settled
<1>3. \A t \in Task, s \in Step : Written(t, s)
  BY <1>1 DEF DeleteCheckpoints, Written
<1> QED BY <1>2, <1>3 DEF Orderly

(* cancel_task changes active runs only.                                   *)
LEMMA CancelOrderly ==
  ASSUME IInv, NEW t \in Task, CancelTask(t)
  PROVE  Orderly
<1> DEFINE M == {r \in RunId : run[r].state \in Active /\ run[r].task \in {t}}
<1>1. /\ Sound(task, run, nextRun) /\ now \in Nat /\ {t} \in SUBSET Task
      /\ \A u \in {t} : task[u].state \in Active
  BY DEF IInv, Rest, CancelTask, Cancellable
<1>2. MoveTogether(task, run, CancelTasks(task, {t}), CancelRuns(run, {t}), M, "cancelled")
  BY <1>1, CancelMoves
<1> HIDE DEF M
<1>3. MoveTogether(task, run, task', run', M, "cancelled") /\ ckpt' = ckpt
  BY <1>2 DEF CancelTask
<1> QED BY <1>3, MoveOrderly

(* Every call is orderly.                                                  *)
LEMMA NextOrderly ==
  ASSUME IInv, Linked, AttemptAccounting, [Next]_vars
  PROVE  Orderly
<1> USE InputAssumption
<1>0. now \in Nat /\ Null \in OrNull(Nat)
  BY DEF IInv, Rest, OrNull
<1>1. ASSUME NEW t, NEW p, NEW max, NEW k, SpawnTask(t, p, max, k)
      PROVE  Orderly
  BY <1>1, AppendOrderly DEF SpawnTask
<1>2. ASSUME NEW qty \in Qty, NEW lease \in Lease, ClaimTask(qty, lease)
      PROVE  Orderly
  BY <1>2, ClaimOrderly
<1>3. ASSUME NEW r \in RunId, CompleteRun(r)
      PROVE  Orderly
  <2>1. MoveTogether(task, run, task', run', {r}, "completed") /\ ckpt' = ckpt
    BY <1>3, CompleteMoves DEF CompleteRun
  <2> QED BY <2>1, MoveOrderly
<1>4. ASSUME NEW r \in RunId, NEW d \in Delay, ScheduleRun(r, now + d)
      PROVE  Orderly
  <2>1. now + d \in Nat
    BY <1>0
  <2>2. MoveTogether(task, run, task', run', {r}, "sleeping")
    BY <1>4, <2>1, ScheduleMoves
  <2>3. ckpt' = ckpt
    BY <1>4 DEF ScheduleRun
  <2> QED BY <2>2, <2>3, MoveOrderly
<1>5. ASSUME NEW r \in RunId, NEW at, FailRun(r, at)
      PROVE  Orderly
  BY <1>5, FailOrderly
<1>6. ASSUME NEW t \in Task, NEW m, RetryTask(t, m)
      PROVE  Orderly
  <2>1. run' = [run EXCEPT ![nextRun] = NewRun(t, task[t].attempts + 1, "pending", now)]
    BY <1>6 DEF RetryTask
  <2>2. nextRun \in RunId /\ ckpt' = ckpt
    BY <1>6 DEF RetryTask
  <2> QED BY <2>1, <2>2, AppendOrderly
<1>7. ASSUME NEW t, NEW u, NEW m, RetryAsNew(t, u, m)
      PROVE  Orderly
  BY <1>1, <1>7 DEF RetryAsNew
<1>8. ASSUME NEW r \in RunId, NEW s \in Step, NEW v, NEW x, SetTaskCheckpointState(r, s, v, x)
      PROVE  Orderly
  BY <1>8, CheckpointOrderly
<1>9. ASSUME NEW r \in RunId, NEW x, ExtendClaim(r, x)
      PROVE  Orderly
  BY <1>9, ExtendOrderly
<1>10. ASSUME NEW r \in RunId, NEW s \in Step, NEW e \in Event, AwaitResolved(r, s, e)
       PROVE  Orderly
  BY <1>10, ResolvedOrderly
<1>11. ASSUME NEW r \in RunId, NEW s \in Step, NEW e \in Event, AwaitTimedOut(r, s, e)
       PROVE  Orderly
  BY <1>11, TimedOutOrderly
<1>12. ASSUME NEW r \in RunId, NEW s \in Step, NEW e \in Event, NEW x \in Timeout,
              AwaitSuspended(r, s, e, x)
       PROVE  Orderly
  <2>1. MoveTogether(task, run, task', run', {r}, "sleeping")
    BY <1>12, SuspendedMoves
  <2>2. ckpt' = ckpt
    BY <1>12 DEF AwaitSuspended
  <2> QED BY <2>1, <2>2, MoveOrderly
<1>13. ASSUME NEW e \in Event, NEW v \in Value, EmitEvent(e, v)
       PROVE  Orderly
  BY <1>13, EmitOrderly
<1>14. ASSUME NEW t \in Task, CancelTask(t)
       PROVE  Orderly
  BY <1>14, CancelOrderly
<1>15. ASSUME NEW ttl, CleanupTasks(ttl)
       PROVE  Orderly
  BY <1>15, CleanupTasksOrderly
<1>16. CASE UNCHANGED <<run, ckpt>>
  BY <1>16 DEF Orderly, InTime, Settled, Written
<1>17. ASSUME NEW ttl, CleanupEvents(ttl)
       PROVE  Orderly
  BY <1>16, <1>17 DEF CleanupEvents
<1>18. CASE Tick \/ UNCHANGED vars
  BY <1>16, <1>18 DEF Tick, vars
<1> QED BY <1>1, <1>2, <1>3, <1>4, <1>5, <1>6, <1>7, <1>8, <1>9, <1>10, <1>11, <1>12,
           <1>13, <1>14, <1>15, <1>17, <1>18 DEF Next

-----------------------------------------------------------------------------
(* claim_task starts no run of a task whose max_delay or max_duration has  *)
(* run out.                                                                *)
THEOREM NoneStartsLate == Spec => NoStartPastDeadline
<1>1. IInv /\ Linked /\ AttemptAccounting /\ [Next]_vars =>
        [\A r \in RunId : run'[r].state = "running" /\ run[r].state # "running" =>
           ~PastDeadline(task[run'[r].task])]_vars
  BY NextOrderly DEF Orderly, InTime
<1> QED BY <1>1, LinkedInductive, AttemptsCounted, PTL DEF Spec, NoStartPastDeadline

(* A cancelled task gains no run and no checkpoint, and its runs stay as   *)
(* they are, whatever calls its late workers make.                         *)
THEOREM CancelledStays == Spec => CancelledIsFrozen
<1>1. IInv /\ Linked /\ AttemptAccounting /\ IInv' /\ [Next]_vars =>
        [\A t \in Task : task[t].state = "cancelled" =>
           \/ task'[t] = GoneTask
           \/ /\ ckpt'[t] = ckpt[t]
              /\ RunsOf(run', t) = RunsOf(run, t)
              /\ \A r \in RunsOf(run, t) : run'[r] = run[r]]_vars
  <2> SUFFICES ASSUME IInv, Linked, AttemptAccounting, IInv', [Next]_vars,
                      NEW t \in Task, task[t].state = "cancelled", task'[t] # GoneTask
               PROVE  /\ ckpt'[t] = ckpt[t]
                      /\ RunsOf(run', t) = RunsOf(run, t)
                      /\ \A r \in RunsOf(run, t) : run'[r] = run[r]
    OBVIOUS
  <2>1. Orderly
    BY NextOrderly
  <2>2. ckpt'[t] = ckpt[t]
    <3>1. \A s \in Step : ckpt'[t][s] = ckpt[t][s]
      BY <2>1 DEF Orderly, Written
    <3>2. /\ ckpt[t] \in [Step -> Checkpoint \union {Null}]
          /\ ckpt'[t] \in [Step -> Checkpoint \union {Null}]
      BY DEF IInv, Rest
    <3> QED BY <3>1, <3>2
  <2>3. SameRuns(run, run', t)
    <3>1. TaskEvolves(t)
      BY NextEvolves
    <3> QED BY <3>1, StateFacts DEF TaskEvolves, Evolves, Stays, Moves, Within, Retries, Across,
                                    Begins, Ends, Active
  <2>4. ASSUME NEW r \in RunsOf(run, t)
        PROVE  run'[r] = run[r]
    <3>1. r \in RunId /\ run[r].state \in State /\ run[r].task = t
      BY DEF RunsOf
    <3>2. run[r].state \notin Active
      BY <3>1, ActiveIsLast DEF IInv, Active
    <3>3. run[r].state \in Terminal
      BY <3>1, <3>2 DEF State
    <3> QED BY <2>1, <3>1, <3>3 DEF Orderly, Settled
  <2> QED BY <2>2, <2>3, <2>4 DEF SameRuns
<1> QED BY <1>1, LinkedInductive, AttemptsCounted, PTL DEF Spec, CancelledIsFrozen

(* A checkpoint never goes back to the value of an earlier attempt,        *)
(* whichever function writes it.                                           *)
THEOREM CheckpointsMonotone == Spec => CheckpointsNeverRegress
<1>1. IInv /\ Linked /\ AttemptAccounting /\ IInv' /\ Linked' /\ [Next]_vars =>
        [\A t \in Task, s \in Step : ckpt[t][s] # Null /\ ckpt'[t][s] # Null =>
           run[ckpt[t][s].owner].attempt <= run'[ckpt'[t][s].owner].attempt]_vars
  <2> SUFFICES ASSUME IInv, Linked, AttemptAccounting, IInv', Linked', [Next]_vars,
                      NEW t \in Task, NEW s \in Step,
                      ckpt[t][s] # Null, ckpt'[t][s] # Null
               PROVE  run[ckpt[t][s].owner].attempt <= run'[ckpt'[t][s].owner].attempt
    OBVIOUS
  <2>1. /\ ckpt[t][s].owner \in RunsOf(run, t)
        /\ ckpt'[t][s].owner \in RunsOf(run', t)
    BY DEF Linked, CheckpointsOwned, Owned
  <2>2. task'[t] # GoneTask
    BY <2>1, StateFacts DEF RunsOf, IInv, Sound, Placed
  <2>3. \A r \in RunsOf(run, t) : run'[r].attempt = run[r].attempt
    <3>1. TaskEvolves(t)
      BY NextEvolves
    <3> QED BY <2>2, <3>1 DEF TaskEvolves, Evolves, Stays, Moves, Retries, Begins, Ends,
                              SameRuns, NewRunFor
  <2>4. run[ckpt[t][s].owner].attempt \in Nat
    BY <2>1, RunFacts, StateFacts DEF RunsOf, RunRow
  <2>5. CASE ckpt'[t][s] = ckpt[t][s]
    BY <2>1, <2>3, <2>4, <2>5
  <2>6. CASE ckpt'[t][s] # ckpt[t][s]
    <3>1. Written(t, s)
      BY NextOrderly DEF Orderly
    <3> QED BY <2>2, <2>3, <2>6, <3>1 DEF Written
  <2> QED BY <2>5, <2>6
<1> QED BY <1>1, LinkedInductive, AttemptsCounted, PTL DEF Spec, CheckpointsNeverRegress
=============================================================================
