--------------------------- MODULE CheckpointRace ---------------------------
(***************************************************************************)
(* The steps of one task, as TaskContext executes them, over the           *)
(* statements of set_task_checkpoint_state.  That call reads the states    *)
(* of its run and its task, extends the lease, and reads the owner of the  *)
(* checkpoint, all before it writes; only the extension locks anything.    *)
(* Between its statements the lease may expire, so that a claim fails the  *)
(* run and starts the next attempt, or the task may be cancelled.          *)
(***************************************************************************)
EXTENDS Integers

CONSTANTS
  NSteps,        \* steps of the handler, executed in order
  MaxAttempts,   \* BOUND: attempts of the task
  None           \* no row

ASSUME BoundsAssumption ==
  NSteps \in Nat \ {0} /\ MaxAttempts \in Nat \ {0} /\ None \notin Nat

StepNo == 1 .. NSteps
Attempt == 1 .. MaxAttempts

VARIABLES
  run,        \* attempt -> state of its run, absent before it is claimed
  cancelled,  \* the task is
  ckpt,       \* step -> the attempt whose value is stored, or None
  at,         \* attempt -> what its handler is doing
  step,       \* attempt -> the step it is at
  seen,       \* attempt -> the owner its call read
  holds,      \* attempts whose call has locked its run row
  overrun     \* attempt -> its writes since the task was cancelled
vars == <<run, cancelled, ckpt, at, step, seen, holds, overrun>>
tableVars == <<run, cancelled, ckpt, overrun>>


Init ==
  /\ run = [a \in Attempt |-> "absent"]
  /\ cancelled = FALSE
  /\ ckpt = [s \in StepNo |-> None]
  /\ at = [a \in Attempt |-> "off"]
  /\ step = [a \in Attempt |-> 1]
  /\ seen = [a \in Attempt |-> None]
  /\ holds = {}
  /\ overrun = [a \in Attempt |-> 0]

Goto(a, label) == at' = [at EXCEPT ![a] = label]

-----------------------------------------------------------------------------
(* Claims and cancellation, one transaction each.                          *)

(* claim_task: the first attempt, or the lease of the previous one has     *)
(* expired.  A run that a call has locked is not there to be claimed.      *)
Claim(a) ==
  /\ ~cancelled /\ run[a] = "absent" /\ at[a] = "off"
  /\ \/ a = 1 /\ run' = [run EXCEPT ![a] = "running"]
     \/ /\ a > 1 /\ run[a - 1] = "running" /\ a - 1 \notin holds
        /\ run' = [run EXCEPT ![a - 1] = "failed", ![a] = "running"]
  /\ Goto(a, "between")
  /\ UNCHANGED <<cancelled, ckpt, step, seen, holds, overrun>>

(* cancel_task waits for the runs of the task that are locked.             *)
CancelTask ==
  /\ ~cancelled /\ holds = {}
  /\ \E a \in Attempt : run[a] = "running"
  /\ cancelled' = TRUE
  /\ run' = [a \in Attempt |-> IF run[a] = "running" THEN "cancelled" ELSE run[a]]
  /\ UNCHANGED <<ckpt, at, step, seen, holds, overrun>>

-----------------------------------------------------------------------------
(* step: look for the checkpoint, execute, persist.                        *)

NextStep(a) ==
  /\ step' = [step EXCEPT ![a] = @ + 1]
  /\ Goto(a, "between")
BeginStep(a) ==
  /\ at[a] = "between" /\ step[a] \in StepNo
  /\ \/ ckpt[step[a]] # None /\ NextStep(a)
     \/ ckpt[step[a]] = None /\ Goto(a, "executing") /\ UNCHANGED step
  /\ UNCHANGED <<tableVars, seen, holds>>

(* First statement.  AB001 and AB002 end the handler.                      *)
RefusedIfFailed(a) == run[a] = "failed"   \* a mistake: the run alone
Refused(a) == cancelled \/ run[a] = "failed"
ReadStates(a) ==
  /\ at[a] = "executing"
  /\ Goto(a, IF Refused(a) THEN "off" ELSE "admitted")
  /\ UNCHANGED <<tableVars, step, seen, holds>>

(* update of the lease: locks the run row if it still executes.            *)
ExtendWhateverState(a) ==   \* a mistake: a lease for a run that has ended
  /\ at[a] = "admitted"
  /\ holds' = holds \union {a}
  /\ Goto(a, "extended")
  /\ UNCHANGED <<tableVars, step, seen>>
ExtendClaim(a) ==
  /\ at[a] = "admitted"
  /\ holds' = IF run[a] = "running" THEN holds \union {a} ELSE holds
  /\ Goto(a, "extended")
  /\ UNCHANGED <<tableVars, step, seen>>

ReadOwner(a) ==
  /\ at[a] = "extended"
  /\ seen' = [seen EXCEPT ![a] = ckpt[step[a]]]
  /\ Goto(a, "compared")
  /\ UNCHANGED <<tableVars, step, holds>>

(* insert ... on conflict do update, unless a later attempt was seen.  The *)
(* handler goes on either way.                                             *)
MayWrite(a) == seen[a] = None \/ a >= seen[a]
WriteCheckpoint(a) ==
  /\ at[a] = "compared"
  /\ IF MayWrite(a)
     THEN /\ ckpt' = [ckpt EXCEPT ![step[a]] = a]
          /\ overrun' = [overrun EXCEPT ![a] = IF cancelled THEN @ + 1 ELSE @]
     ELSE UNCHANGED <<ckpt, overrun>>
  /\ holds' = holds \ {a}
  /\ seen' = [seen EXCEPT ![a] = None]
  /\ NextStep(a)
  /\ UNCHANGED <<run, cancelled>>

(* complete_run: only a run that executes.                                 *)
CompleteRun(a) ==
  /\ at[a] = "between" /\ step[a] > NSteps
  /\ run' = [run EXCEPT ![a] = IF @ = "running" THEN "completed" ELSE @]
  /\ Goto(a, "off")
  /\ UNCHANGED <<cancelled, ckpt, step, seen, holds, overrun>>

(* The worker is lost, and with it a call that has not committed.          *)
WorkerLost(a) ==
  /\ at[a] # "off"
  /\ Goto(a, "off")
  /\ holds' = holds \ {a}
  /\ UNCHANGED <<tableVars, step, seen>>

Next ==
  \/ CancelTask
  \/ \E a \in Attempt :
       \/ Claim(a) \/ BeginStep(a) \/ ReadStates(a) \/ ExtendClaim(a) \/ ReadOwner(a)
       \/ WriteCheckpoint(a) \/ CompleteRun(a) \/ WorkerLost(a)
Spec == Init /\ [][Next]_vars

-----------------------------------------------------------------------------
(* Properties.                                                             *)

(* A handler of a cancelled task persists at most the step whose call was  *)
(* under way: the next checkpoint write stops it.                          *)
OverrunBounded == \A a \in Attempt : overrun[a] <= 1

(* While a run is locked by its call, its attempt is the last one, and     *)
(* the task is not cancelled: a call whose lease extension took effect is  *)
(* not overtaken, whatever the clock says.                                 *)
ExtendedCallIsCurrent ==
  \A a \in holds : run[a] = "running" /\ ~cancelled /\ \A b \in Attempt : b > a => run[b] = "absent"

(* Once a step has completed, its value is persisted for good              *)
(* (docs/concepts.md, Steps).                                              *)
PersistedStays == [][\A s \in StepNo : ckpt[s] # None => ckpt'[s] = ckpt[s]]_vars
=============================================================================
