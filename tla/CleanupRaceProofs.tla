------------------------- MODULE CleanupRaceProofs -------------------------
(***************************************************************************)
(* Proofs about CleanupRace, for any callers and bounds, in both storage   *)
(* modes.  The index is what makes a key one task: while one caller has    *)
(* inserted it, there is no row with it and no other insertion (KeyFree).  *)
(* A locked row stays (Locked), and ids that a caller was given as created *)
(* are not used again (Given).                                             *)
(***************************************************************************)
EXTENDS CleanupRace, TLAPS

TaskState == {"absent", "open", "completed", "failed", "deleted"}

Types ==
  /\ task \in [TaskId -> TaskState]
  /\ inserting \subseteq Caller
  /\ retrying \in TaskId \union {None}
  /\ chosen # None => chosen.task \in TaskId
KeyFree ==
  /\ \A c, d \in inserting : c = d
  /\ inserting # {} => Existing = {}
Locked == retrying # None => task[retrying] = "failed"
Given ==
  /\ DOMAIN answer = Caller
  /\ \A c \in Caller : answer[c] # None /\ answer[c].created =>
       answer[c].task \in TaskId /\ task[answer[c].task] # "absent"

Inv == Types /\ KeyFree /\ Locked /\ Given /\ KeyIsOneTask

(* None is no task id.                                                     *)
LEMMA Facts == None \notin TaskId /\ \A t \in TaskId : t # None
BY BoundsAssumption

(* The invariant holds at first.                                           *)
LEMMA InitInv == Init => Inv
BY DEF Init, Inv, Types, KeyFree, Locked, Given, KeyIsOneTask, Existing, TaskState, Ended

(* A key that is not there, and that nobody inserts, may be inserted.      *)
LEMMA InsertInv ==
  ASSUME Inv, NEW c \in Caller, SpawnInsert(c)
  PROVE  Inv'
BY DEF SpawnInsert, InsertKey, taskVars, Inv, Types, KeyFree, Locked, Given, KeyIsOneTask, Existing

(* A commit keeps the invariant.                                           *)
LEMMA CommitInv ==
  ASSUME Inv, NEW c \in Caller, SpawnCommit(c)
  PROVE  Inv'
<1> USE Facts DEF Inv
<1>1. PICK t \in Unused : /\ task' = [task EXCEPT ![t] = "open"]
                          /\ answer' = [answer EXCEPT ![c] = Result(t, TRUE)]
  BY DEF SpawnCommit
<1>2. t \in TaskId /\ task[t] = "absent" /\ c \in inserting /\ inserting' = inserting \ {c}
  BY DEF SpawnCommit, Unused
<1>3. inserting' = {} /\ Existing = {}
  BY <1>2 DEF KeyFree
<1>4. Existing' = {t}
  BY <1>1, <1>2, <1>3 DEF Existing, Types, Ended
<1>5. Types' /\ KeyFree' /\ Locked'
  BY <1>1, <1>2, <1>3 DEF SpawnCommit, Types, TaskState, KeyFree, Locked
<1>6. answer'[c].task = t /\ task'[t] = "open" /\ DOMAIN answer' = Caller
  BY <1>1, <1>2 DEF Given, Types, Result
<1>7. \A d \in Caller : d # c => answer'[d] = answer[d]
  BY <1>1 DEF Given
<1>8. Given'
  BY ZenonT(60), <1>1, <1>2, <1>6, <1>7 DEF Given, Types
<1>9. KeyIsOneTask'
  BY <1>2, <1>4, <1>6, <1>7 DEF KeyIsOneTask, Given
<1> QED BY <1>5, <1>8, <1>9

(* What is looked up is not created, and the rest is not touched.          *)
LEMMA LookupInv ==
  ASSUME Inv, NEW c \in Caller, SpawnLookup(c) \/ SpawnAbort(c)
  PROVE  Inv'
<1> USE DEF Inv
<1>1. Types' /\ KeyFree' /\ Locked'
  BY DEF SpawnLookup, SpawnAbort, taskVars, Types, KeyFree, Locked, Existing
<1>2. DOMAIN answer' = Caller /\ task' = task
  BY DEF SpawnLookup, SpawnAbort, taskVars, Answer, Given
<1>3. \A d \in Caller : answer'[d] = answer[d] \/ ~answer'[d].created
  BY DEF SpawnLookup, SpawnAbort, Answer, Found, NotFound, Result, Given
<1>4. Given' /\ KeyIsOneTask'
  BY <1>2, <1>3 DEF Given, KeyIsOneTask, Existing
<1> QED BY <1>1, <1>4

(* Nothing but spawn_task makes a task exist, or frees an id.              *)
LEMMA TaskInv ==
  ASSUME Inv, \/ \E t \in TaskId : TaskEnds(t) \/ RetryLock(t) \/ CleanupChoose(t)
              \/ RetryCommit \/ RetryAbort \/ CleanupDelete
  PROVE  Inv'
<1> USE Facts DEF Inv
<1>1. task' \in [TaskId -> TaskState]
  BY DEF TaskEnds, RetryLock, CleanupChoose, RetryCommit, RetryAbort, CleanupDelete, Types,
    TaskState, Ended
<1>2. Existing' \subseteq Existing /\ \A t \in TaskId : task[t] # "absent" => task'[t] # "absent"
  BY DEF TaskEnds, RetryLock, CleanupChoose, RetryCommit, RetryAbort, CleanupDelete, Types,
    Existing, Ended, Locked
<1>3. answer' = answer /\ inserting' = inserting
  BY DEF TaskEnds, RetryLock, CleanupChoose, RetryCommit, RetryAbort, CleanupDelete, spawnVars
<1>4. Types' /\ Locked'
  BY <1>1, <1>3 DEF TaskEnds, RetryLock, CleanupChoose, RetryCommit, RetryAbort, CleanupDelete,
    Types, Locked
<1>5. KeyFree' /\ Given' /\ KeyIsOneTask'
  BY <1>2, <1>3 DEF KeyFree, Given, KeyIsOneTask
<1> QED BY <1>4, <1>5

(* Every step keeps the invariant.                                         *)
LEMMA NextInv == Inv /\ [Next]_vars => Inv'
<1>1. ASSUME Inv, vars' = vars PROVE Inv'
  BY <1>1 DEF vars, Inv, Types, KeyFree, Locked, Given, KeyIsOneTask, Existing
<1> QED BY <1>1, InsertInv, CommitInv, LookupInv, TaskInv DEF Next, SpawnTask

(* A key is one task, however spawns, retries and cleanups overlap.        *)
THEOREM KeyOwnsOneTask == Spec => []KeyIsOneTask
<1>1. Inv => KeyIsOneTask
  BY DEF Inv
<1> QED BY <1>1, InitInv, NextInv, PTL DEF Spec

-----------------------------------------------------------------------------
(* A partitioned queue: what a caller is told is a task that was there.    *)

(* No caller has an answer at first.                                       *)
LEMMA FindsInit == Init => SpawnFindsTaskIfPartitioned
BY DEF Init, SpawnFindsTaskIfPartitioned, SpawnFindsTask

(* Only a commit and a lookup answer, the lookup of a task that exists.    *)
LEMMA FindsStep ==
  ASSUME Inv, SpawnFindsTaskIfPartitioned, [Next]_vars
  PROVE  SpawnFindsTaskIfPartitioned'
<1> USE Facts DEF SpawnFindsTaskIfPartitioned, SpawnFindsTask
<1>1. DOMAIN answer = Caller /\ partitioned' = partitioned
  BY DEF Inv, Given, vars, Next, SpawnTask, SpawnInsert, SpawnCommit, SpawnAbort, SpawnLookup, taskVars,
    TaskEnds, RetryLock, RetryCommit, RetryAbort, CleanupChoose, CleanupDelete
<1>2. ASSUME NEW c \in Caller, SpawnCommit(c) PROVE SpawnFindsTaskIfPartitioned'
  <2>1. PICK t \in Unused : answer' = [answer EXCEPT ![c] = Result(t, TRUE)]
    BY <1>2 DEF SpawnCommit
  <2>2. \A d \in Caller : answer'[d] = answer[d] \/ answer'[d].task = t
    BY <1>1, <2>1 DEF Result
  <2> QED BY <1>1, <2>2 DEF Unused
<1>3. ASSUME NEW c \in Caller, SpawnLookup(c), partitioned PROVE SpawnFindsTaskIfPartitioned'
  <2>1. answer' = answer \/ \E t \in Existing : answer' = [answer EXCEPT ![c] = Result(t, FALSE)]
    BY <1>3 DEF SpawnLookup, Answer, Found
  <2>2. \A d \in Caller : answer'[d] = answer[d] \/ answer'[d].task \in Existing
    BY <1>1, <2>1 DEF Result
  <2> QED BY <1>1, <2>2 DEF Existing
<1>4. CASE answer' = answer
  BY <1>1, <1>4
<1> QED BY <1>1, <1>2, <1>3, <1>4 DEF vars, Next, SpawnTask, SpawnInsert, SpawnAbort, TaskEnds, RetryLock,
  RetryCommit, RetryAbort, CleanupChoose, CleanupDelete, spawnVars

(* In a partitioned queue no caller is given an empty answer.              *)
THEOREM SpawnAnswersTask == Spec => []SpawnFindsTaskIfPartitioned
<1>1. Spec => []Inv
  BY InitInv, NextInv, PTL DEF Spec
<1>2. Inv /\ SpawnFindsTaskIfPartitioned /\ [Next]_vars => SpawnFindsTaskIfPartitioned'
  BY FindsStep
<1> QED BY <1>1, <1>2, FindsInit, PTL DEF Spec
=============================================================================
