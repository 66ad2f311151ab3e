----------------------------- MODULE EventRace -----------------------------
(***************************************************************************)
(* One event of a queue, statement by statement: the row of e_<queue> and  *)
(* its row lock, the calls of await_event and emit_event that meet on it,  *)
(* and cleanup_events.  AbsurdQueue lets each of these calls see one       *)
(* state; here a call is a transaction of several statements at READ       *)
(* COMMITTED, each of which sees what was committed when it began.         *)
(*                                                                         *)
(* A transaction may hold the row exclusively, with a version of it that   *)
(* nobody else sees (draft), or share it with others (share).  The steps   *)
(* of other rows that need no lock of the event are folded into the        *)
(* statement after which they commit.                                      *)
(***************************************************************************)
EXTENDS FiniteSets

CONSTANTS
  Run,       \* runs that await the event, each in a session of its own
  Timed,     \* those of them that await it with a timeout
  Emitter,   \* sessions that emit it
  Payload,   \* what they emit with
  None       \* SQL NULL, and no row

Row == [payload : Payload \union {None}, old : BOOLEAN]
Draft == [by : Run \union Emitter, payload : Payload \union {None}]

ASSUME NamesAssumption ==
  /\ Run \intersect Emitter = {} /\ Timed \subseteq Run
  /\ None \notin Payload \union Row \union Draft
  /\ Payload \intersect {"running", "waiting", "overdue", "resumed", "timedout"} = {}

VARIABLES
  row,       \* the committed row: its payload and whether it is older than the TTL
  draft,     \* the version a transaction has written and not committed
  share,     \* runs whose transaction holds the row FOR SHARE
  at,        \* the last statement of await_event that a run has executed
  saw,       \* the payload that the run's await_event read
  outcome,   \* where the run stands: see EventPromise; resumed by its timeout
  emitting,  \* emitters between their upsert and their commit
  chosen     \* cleanup_events is executing and its snapshot chose the row
cleanVars == <<emitting, chosen>>
callVars == <<at, saw>>
vars == <<row, draft, share, at, saw, outcome, emitting, chosen>>

(* The row of an event that is awaited and not emitted is dated 1970.      *)
Committed(d) == [payload |-> d.payload, old |-> d.payload = None]
Mine(x) == draft # None /\ draft.by = x

Init ==
  /\ row = None /\ draft = None /\ share = {}
  /\ at = [r \in Run |-> "idle"]
  /\ saw = [r \in Run |-> None]
  /\ outcome = [r \in Run |-> "running"]
  /\ emitting = {} /\ chosen = FALSE

-----------------------------------------------------------------------------
(* await_event.  A run that was answered finds its checkpoint and returns  *)
(* before the first of these statements.                                   *)

(* insert ... on conflict do nothing.  It waits for a row that is being    *)
(* inserted; for one that is being updated the next statement waits.       *)
AwaitInsert(r) ==
  /\ at[r] = "idle" /\ outcome[r] \in {"running", "resumed"}
  /\ row # None \/ draft = None
  /\ draft' = IF row = None THEN [by |-> r, payload |-> None] ELSE draft
  /\ at' = [at EXCEPT ![r] = "inserted"]
  /\ UNCHANGED <<row, share, saw, outcome, cleanVars>>

(* A mistake: read the row as it is, without a lock.                       *)
AwaitNoShare(r) ==
  /\ at[r] = "inserted"
  /\ at' = [at EXCEPT ![r] = "shared"]
  /\ UNCHANGED <<row, draft, share, saw, outcome, cleanVars>>

(* select 1 ... for share.  It waits for the writer of an existing row,    *)
(* and returns without a lock when it finds none.                          *)
AwaitShare(r) ==
  /\ at[r] = "inserted"
  /\ row # None => draft = None
  /\ share' = IF row # None THEN share \union {r} ELSE share
  /\ at' = [at EXCEPT ![r] = "shared"]
  /\ UNCHANGED <<row, draft, saw, outcome, cleanVars>>

(* select payload.  The run row, locked just before, is the caller's own.  *)
AwaitRead(r) ==
  /\ at[r] = "shared"
  /\ saw' = [saw EXCEPT ![r] = IF row = None THEN None ELSE row.payload]
  /\ at' = [at EXCEPT ![r] = "read"]
  /\ UNCHANGED <<row, draft, share, outcome, cleanVars>>

(* The end of a transaction of await_event, committed or not.              *)
Release(r) ==
  /\ at' = [at EXCEPT ![r] = "idle"]
  /\ saw' = [saw EXCEPT ![r] = None]
  /\ share' = share \ {r}
  /\ draft' = IF Mine(r) THEN None ELSE draft
  /\ UNCHANGED cleanVars

Answered(r) ==
  IF saw[r] # None THEN saw[r]
  ELSE IF outcome[r] = "resumed" THEN "timedout" ELSE "waiting"

AwaitCommit(r) ==
  /\ at[r] = "read"
  /\ row' = IF Mine(r) THEN Committed(draft) ELSE row
  /\ outcome' = [outcome EXCEPT ![r] = Answered(r)]
  /\ Release(r)

(* The session is lost, or the call cancelled.                             *)
AwaitAbort(r) ==
  /\ at[r] # "idle"
  /\ Release(r)
  /\ UNCHANGED <<row, outcome>>

(* The timeout of a wait passes; a claim finds it, ends the wait and       *)
(* leaves wake_event on the run, which executes again.                     *)
TimeoutPasses(r) ==
  /\ r \in Timed /\ outcome[r] = "waiting"
  /\ outcome' = [outcome EXCEPT ![r] = "overdue"]
  /\ UNCHANGED <<row, draft, share, callVars, cleanVars>>
ClaimTimedOut(r) ==
  /\ outcome[r] = "overdue"
  /\ outcome' = [outcome EXCEPT ![r] = "resumed"]
  /\ UNCHANGED <<row, draft, share, callVars, cleanVars>>

-----------------------------------------------------------------------------
(* emit_event.                                                             *)

(* The upsert waits for whoever writes or shares the row.  It writes only  *)
(* a row that is new or holds no payload; the call returns otherwise.      *)
MayUpsert == draft = None /\ (row # None => share = {})
FirstEmission == row # None => row.payload = None
EmitUpsert(e, p) ==
  /\ e \notin emitting /\ MayUpsert /\ FirstEmission
  /\ draft' = [by |-> e, payload |-> p]
  /\ emitting' = emitting \union {e}
  /\ UNCHANGED <<row, share, callVars, outcome, chosen>>
EmitAgain(e) ==
  /\ e \notin emitting /\ MayUpsert /\ ~FirstEmission
  /\ UNCHANGED vars

(* Runs whose registered wait the second statement answers: those whose    *)
(* timeout has not passed by the clock of this transaction.                *)
Woken == {r \in Run : outcome[r] = "waiting"}
Late == {r \in Run : outcome[r] = "overdue"}
EmitCommit(e) ==
  /\ e \in emitting
  /\ row' = Committed(draft)
  /\ draft' = None
  /\ \E late \in SUBSET Late :
       outcome' = [r \in Run |-> IF r \in Woken \union late THEN draft.payload ELSE outcome[r]]
  /\ emitting' = emitting \ {e}
  /\ UNCHANGED <<share, callVars, chosen>>
EmitAbort(e) ==
  /\ e \in emitting
  /\ draft' = None /\ emitting' = emitting \ {e}
  /\ UNCHANGED <<row, share, callVars, outcome, chosen>>

AwaitEvent(r) ==
  AwaitInsert(r) \/ AwaitShare(r) \/ AwaitRead(r) \/ AwaitCommit(r) \/ AwaitAbort(r)
EmitEvent(e) ==
  (\E p \in Payload : EmitUpsert(e, p)) \/ EmitAgain(e) \/ EmitCommit(e) \/ EmitAbort(e)

Next ==
  \/ \E r \in Run : AwaitEvent(r) \/ TimeoutPasses(r) \/ ClaimTimedOut(r)
  \/ \E e \in Emitter : EmitEvent(e)
Spec == Init /\ [][Next]_vars

-----------------------------------------------------------------------------
(* cleanup_events, one statement that takes its snapshot first and deletes *)
(* afterwards.  A row it chose may have been updated in between: only its  *)
(* name is compared again, and its date is not.                            *)

CleanupChoose ==
  /\ ~chosen /\ row # None /\ row.old
  /\ chosen' = TRUE
  /\ UNCHANGED <<row, draft, share, callVars, outcome, emitting>>

CleanupDelete ==
  /\ chosen /\ draft = None /\ share = {}
  /\ row' = None /\ chosen' = FALSE
  /\ UNCHANGED <<draft, share, callVars, outcome, emitting>>

EventGetsOld ==
  /\ row # None /\ ~row.old
  /\ row' = [row EXCEPT !.old = TRUE]
  /\ UNCHANGED <<draft, share, callVars, outcome, cleanVars>>

NextWithCleanup == Next \/ CleanupChoose \/ CleanupDelete \/ EventGetsOld
SpecWithCleanup == Init /\ [][NextWithCleanup]_vars

-----------------------------------------------------------------------------
(* Properties.                                                             *)

Outcome == {"running", "waiting", "overdue", "resumed", "timedout"} \union Payload

(* Types: one draft at a time, and at most one row.                        *)
TypeOK ==
  /\ row \in Row \union {None}
  /\ draft \in Draft \union {None}
  /\ share \subseteq Run
  /\ at \in [Run -> {"idle", "inserted", "shared", "read"}]
  /\ saw \in [Run -> Payload \union {None}]
  /\ outcome \in [Run -> Outcome]
  /\ emitting \subseteq Emitter
  /\ chosen \in BOOLEAN

Value == IF row = None THEN None ELSE row.payload

(* No run sleeps on an event whose payload is there: await_event decides   *)
(* to sleep from a payload it read some statements ago, and emit_event     *)
(* wakes only the waits that were registered by then.                      *)
WakeupNotLost == Value # None => Woken = {}

(* A run that has locked the row may rely on what it read until it ends    *)
(* its transaction, whatever emitters and cleanup_events do meanwhile.     *)
LockedReadIsStable ==
  \A r \in share : row # None /\ (at[r] = "read" => saw[r] = row.payload)

(* Statement by statement, await_event and emit_event keep the promise of  *)
(* two atomic calls: the first payload answers every wait that is on, and  *)
(* no run sleeps, or is told of a timeout, while there is a payload.       *)
Promise == INSTANCE EventPromise WITH
  value <- Value,
  outcome <- [r \in Run |-> IF outcome[r] = "resumed" THEN "overdue" ELSE outcome[r]]
KeepsPromise == Promise!Spec
=============================================================================
