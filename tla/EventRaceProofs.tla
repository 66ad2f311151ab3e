-------------------------- MODULE EventRaceProofs --------------------------
(***************************************************************************)
(* Proofs about EventRace: without cleanup_events, the statements of       *)
(* await_event and emit_event keep the promise of atomic calls, for any    *)
(* runs, emitters and payloads.                                            *)
(*                                                                         *)
(* The inductive invariant LockInv says who may hold what: a version that  *)
(* is being written belongs to one transaction that is still open, nobody  *)
(* shares the row meanwhile, a run past its FOR SHARE shares the row or    *)
(* has inserted it, and therefore what it read is still what is committed. *)
(***************************************************************************)
EXTENDS EventRace, TLAPS

(* Writers: the version of a run is a new row without payload, that of an  *)
(* emitter has a payload and replaces none.                                *)
DraftOwned ==
  draft # None =>
    /\ draft.by \in Run => draft.payload = None /\ row = None /\ at[draft.by] # "idle"
    /\ draft.by \in Emitter => draft.by \in emitting /\ Value = None
EmittersOwn == \A e \in emitting : Mine(e) /\ draft.payload # None
ShareExcludes == share # {} => row # None /\ draft = None

(* Readers: where each run stands between its statements.                  *)
Holding(r) ==
  /\ at[r] # "idle" => outcome[r] \in {"running", "resumed"} /\ (row # None \/ Mine(r))
  /\ at[r] \in {"shared", "read"} => r \in share \/ Mine(r)
  /\ at[r] = "read" => saw[r] = Value

LockInv ==
  /\ TypeOK /\ DraftOwned /\ EmittersOwn /\ ShareExcludes
  /\ \A r \in Run : Holding(r)
  /\ WakeupNotLost

(* Names of states are no payloads, and None is no payload and no row.     *)
LEMMA Names ==
  /\ \A x \in Run : x \notin Emitter
  /\ \A p \in Payload : p # None /\ p \notin {"running", "waiting", "overdue", "resumed", "timedout"}
  /\ None \notin Row /\ None \notin Draft
BY NamesAssumption

(* A draft and a row are records, which None must not be.                  *)
LEMMA Records ==
  ASSUME TypeOK
  PROVE  /\ draft # None => draft \in Draft
         /\ row # None => row \in Row
         /\ \A d \in Draft : Committed(d) \in Row /\ Committed(d).payload = d.payload
         /\ Value \in Payload \union {None}
BY DEF TypeOK, Draft, Row, Committed, Value

LEMMA InitInv == Init => LockInv
BY ZenonT(60), Names DEF Init, LockInv, TypeOK, DraftOwned, EmittersOwn, ShareExcludes, Holding,
  WakeupNotLost, Value, Woken, Mine, Outcome

-----------------------------------------------------------------------------
(* Steps of await_event.                                                   *)

(* A new row without payload belongs to the run that inserts it.           *)
LEMMA InsertInv ==
  ASSUME LockInv, NEW r \in Run, AwaitInsert(r)
  PROVE  LockInv'
<1> USE Names, Records DEF LockInv
<1>1. TypeOK'
  BY DEF AwaitInsert, TypeOK, Draft, cleanVars
<1>2. DraftOwned' /\ EmittersOwn' /\ ShareExcludes'
  BY DEF AwaitInsert, TypeOK, DraftOwned, EmittersOwn, ShareExcludes, Mine, Value, cleanVars
<1>3. \A q \in Run : Holding(q)'
  <2>1. row = None => draft' # None /\ draft'.by = r
    BY DEF AwaitInsert, Draft
  <2> QED BY <2>1 DEF AwaitInsert, TypeOK, Holding, Mine, Value, cleanVars
<1>4. WakeupNotLost'
  BY DEF AwaitInsert, WakeupNotLost, Woken, Value
<1> QED BY <1>1, <1>2, <1>3, <1>4

(* A run that inserted, or found, a row always gets the lock.              *)
LEMMA ShareInv ==
  ASSUME LockInv, NEW r \in Run, AwaitShare(r)
  PROVE  LockInv'
<1> USE Names, Records DEF LockInv
<1>1. TypeOK'
  BY DEF AwaitShare, TypeOK, cleanVars
<1>2. DraftOwned' /\ EmittersOwn' /\ ShareExcludes'
  BY DEF AwaitShare, TypeOK, DraftOwned, EmittersOwn, ShareExcludes, Mine, Value, cleanVars
<1>3. \A q \in Run : Holding(q)'
  BY DEF AwaitShare, TypeOK, Holding, Mine, Value, cleanVars
<1>4. WakeupNotLost'
  BY DEF AwaitShare, WakeupNotLost, Woken, Value
<1> QED BY <1>1, <1>2, <1>3, <1>4

LEMMA ReadInv ==
  ASSUME LockInv, NEW r \in Run, AwaitRead(r)
  PROVE  LockInv'
<1> USE Names, Records DEF LockInv
<1>1. TypeOK'
  BY DEF AwaitRead, TypeOK, Row, cleanVars
<1>2. DraftOwned' /\ EmittersOwn' /\ ShareExcludes'
  BY DEF AwaitRead, TypeOK, DraftOwned, EmittersOwn, ShareExcludes, Mine, Value, cleanVars
<1>3. \A q \in Run : Holding(q)'
  BY DEF AwaitRead, TypeOK, Holding, Mine, Value, cleanVars
<1>4. WakeupNotLost'
  BY DEF AwaitRead, WakeupNotLost, Woken, Value
<1> QED BY <1>1, <1>2, <1>3, <1>4

(* The row a run commits, if it wrote one, has no payload, as before.      *)
LEMMA CommitKeepsValue ==
  ASSUME LockInv, NEW r \in Run, AwaitCommit(r)
  PROVE  /\ Value' = Value /\ (row # None => row' = row)
         /\ row' \in Row \union {None} /\ (Mine(r) => row' # None)
BY Names, Records DEF LockInv, AwaitCommit, DraftOwned, Mine, Value, TypeOK

LEMMA CommitInv ==
  ASSUME LockInv, NEW r \in Run, AwaitCommit(r)
  PROVE  LockInv'
<1> USE Names, Records, CommitKeepsValue DEF LockInv
<1>1. outcome[r] \in {"running", "resumed"} /\ saw[r] = Value /\ (r \in share \/ Mine(r))
  BY DEF AwaitCommit, Holding
<1>2. TypeOK'
  <2>1. Answered(r) \in Outcome
    BY <1>1 DEF Answered, Outcome
  <2> QED BY <2>1 DEF AwaitCommit, Release, TypeOK, cleanVars
<1>3. DraftOwned' /\ EmittersOwn' /\ ShareExcludes'
  <2>1. CASE Mine(r)
    <3>1. draft' = None /\ emitting' = emitting /\ share' = share \ {r} /\ row' # None
      BY <2>1 DEF AwaitCommit, Release, cleanVars
    <3>2. emitting = {} /\ share = {}
      BY <2>1 DEF DraftOwned, EmittersOwn, ShareExcludes, Mine, TypeOK
    <3> QED BY <3>1, <3>2 DEF DraftOwned, EmittersOwn, ShareExcludes
  <2>2. CASE ~Mine(r)
    <3>1. draft' = draft /\ emitting' = emitting /\ share' = share \ {r} /\ row' = row
      BY <2>2 DEF AwaitCommit, Release, cleanVars
    <3>2. share # {} /\ draft = None
      BY <1>1, <2>2 DEF ShareExcludes
    <3> QED BY <3>1, <3>2 DEF DraftOwned, EmittersOwn, ShareExcludes, Mine
  <2> QED BY <2>1, <2>2
<1>4. \A q \in Run : Holding(q)'
  <2> TAKE q \in Run
  <2>1. CASE q = r
    BY <2>1 DEF AwaitCommit, Release, Holding, TypeOK
  <2>2. CASE q # r
    <3>1. at'[q] = at[q] /\ saw'[q] = saw[q] /\ outcome'[q] = outcome[q] /\ (q \in share' <=> q \in share)
      BY <2>2 DEF AwaitCommit, Release, TypeOK
    <3>2. Mine(q) => ~Mine(r) /\ draft' = draft
      BY <2>2 DEF AwaitCommit, Release, Mine
    <3> QED BY <3>1, <3>2 DEF Holding, Mine
  <2> QED BY <2>1, <2>2
<1>5. WakeupNotLost'
  <2> SUFFICES ASSUME Value' # None, NEW q \in Run, outcome'[q] = "waiting" PROVE FALSE
    BY DEF WakeupNotLost, Woken
  <2>1. CASE q = r
    BY <1>1, <2>1 DEF AwaitCommit, Answered, TypeOK
  <2>2. CASE q # r
    BY <2>2 DEF AwaitCommit, WakeupNotLost, Woken, TypeOK
  <2> QED BY <2>1, <2>2
<1> QED BY <1>2, <1>3, <1>4, <1>5

LEMMA AbortInv ==
  ASSUME LockInv, NEW r \in Run, AwaitAbort(r)
  PROVE  LockInv'
<1> USE Names, Records DEF LockInv
<1>1. TypeOK'
  BY DEF AwaitAbort, Release, TypeOK, cleanVars
<1>2. DraftOwned' /\ EmittersOwn' /\ ShareExcludes'
  BY DEF AwaitAbort, Release, TypeOK, DraftOwned, EmittersOwn, ShareExcludes, Mine, Value, cleanVars
<1>3. \A q \in Run : Holding(q)'
  BY DEF AwaitAbort, Release, TypeOK, Holding, Mine, Value
<1>4. WakeupNotLost'
  BY DEF AwaitAbort, WakeupNotLost, Woken, Value
<1> QED BY <1>1, <1>2, <1>3, <1>4

(* Timeouts concern runs that are between two calls.                       *)
LEMMA TimeoutInv ==
  ASSUME LockInv, NEW r \in Run, TimeoutPasses(r) \/ ClaimTimedOut(r)
  PROVE  LockInv'
<1> USE Names, Records DEF LockInv
<1>1. TypeOK'
  BY DEF TimeoutPasses, ClaimTimedOut, TypeOK, Outcome, cleanVars, callVars
<1>2. DraftOwned' /\ EmittersOwn' /\ ShareExcludes'
  BY DEF TimeoutPasses, ClaimTimedOut, DraftOwned, EmittersOwn, ShareExcludes, Mine, Value,
    cleanVars, callVars
<1>3. \A q \in Run : Holding(q)'
  BY DEF TimeoutPasses, ClaimTimedOut, TypeOK, Holding, Mine, Value, cleanVars, callVars
<1>4. WakeupNotLost'
  BY DEF TimeoutPasses, ClaimTimedOut, WakeupNotLost, Woken, Value, TypeOK
<1> QED BY <1>1, <1>2, <1>3, <1>4

-----------------------------------------------------------------------------
(* Steps of emit_event.                                                    *)

(* An emitter that gets the lock excludes every run past its first         *)
(* statement, except one that found the row and waits for the lock.        *)
LEMMA UpsertInv ==
  ASSUME LockInv, NEW e \in Emitter, NEW p \in Payload, EmitUpsert(e, p)
  PROVE  LockInv'
<1> USE Names, Records DEF LockInv
<1>1. TypeOK'
  BY DEF EmitUpsert, TypeOK, Draft, callVars
<1>2. DraftOwned' /\ EmittersOwn' /\ ShareExcludes'
  <2>1. draft' # None /\ draft'.by = e /\ draft'.payload = p
    BY DEF EmitUpsert, Draft
  <2>2. emitting = {} /\ draft = None /\ emitting' = {e} /\ Value' = None
    BY DEF EmitUpsert, MayUpsert, FirstEmission, EmittersOwn, Mine, Value
  <2>3. share' = {}
    BY DEF EmitUpsert, MayUpsert, ShareExcludes
  <2> QED BY <2>1, <2>2, <2>3 DEF DraftOwned, EmittersOwn, ShareExcludes, Mine
<1>3. \A q \in Run : Holding(q)'
  BY DEF EmitUpsert, MayUpsert, TypeOK, Holding, Mine, Value, callVars
<1>4. WakeupNotLost'
  BY DEF EmitUpsert, WakeupNotLost, Woken, Value
<1> QED BY <1>1, <1>2, <1>3, <1>4

(* An emission ends while no run is between its FOR SHARE and its commit.  *)
LEMMA EmissionAlone ==
  ASSUME LockInv, NEW e \in Emitter, e \in emitting
  PROVE  /\ draft \in Draft /\ draft.by = e /\ draft.payload \in Payload /\ Value = None
         /\ emitting = {e} /\ share = {}
         /\ \A q \in Run : ~Mine(q) /\ at[q] \in {"idle", "inserted"}
BY Names, Records DEF LockInv, TypeOK, DraftOwned, EmittersOwn, ShareExcludes, Holding, Mine, Draft

LEMMA EmissionInv ==
  ASSUME LockInv, NEW e \in Emitter, EmitCommit(e)
  PROVE  LockInv'
<1> USE Names, Records DEF LockInv
<1> DEFINE new(late) == [r \in Run |-> IF r \in Woken \union late THEN draft.payload ELSE outcome[r]]
<1>1. PICK late \in SUBSET Late : outcome' = new(late)
  BY DEF EmitCommit
<1>2. e \in emitting
  BY DEF EmitCommit
<1>3. row' \in Row /\ row' # None /\ draft' = None /\ emitting' = {} /\ share' = {}
  BY <1>2, EmissionAlone DEF EmitCommit
<1>4. TypeOK'
  <2>1. outcome' \in [Run -> Outcome]
    BY <1>1, <1>2, EmissionAlone DEF TypeOK, Outcome
  <2> QED BY <1>3, <2>1 DEF EmitCommit, TypeOK, callVars
<1>5. DraftOwned' /\ EmittersOwn' /\ ShareExcludes'
  BY <1>3 DEF DraftOwned, EmittersOwn, ShareExcludes
<1>6. \A q \in Run : Holding(q)'
  <2> TAKE q \in Run
  <2>1. at'[q] = at[q] /\ at[q] \in {"idle", "inserted"}
    BY <1>2, EmissionAlone DEF EmitCommit, callVars
  <2>2. at[q] # "idle" => outcome[q] \in {"running", "resumed"} /\ q \notin Woken \union late
    BY DEF Holding, Woken, Late
  <2> QED BY <1>1, <1>3, <2>1, <2>2 DEF Holding
<1>7. WakeupNotLost'
  BY <1>1, <1>2, EmissionAlone DEF WakeupNotLost, Woken
<1> QED BY <1>4, <1>5, <1>6, <1>7

LEMMA EmitAbortInv ==
  ASSUME LockInv, NEW e \in Emitter, EmitAbort(e)
  PROVE  LockInv'
<1> USE Names, Records DEF LockInv
<1>1. e \in emitting /\ draft' = None /\ emitting' = {} /\ share' = {} /\ row' = row
  BY EmissionAlone DEF EmitAbort
<1>2. TypeOK'
  BY <1>1 DEF EmitAbort, TypeOK, callVars
<1>3. DraftOwned' /\ EmittersOwn' /\ ShareExcludes'
  BY <1>1 DEF DraftOwned, EmittersOwn, ShareExcludes
<1>4. \A q \in Run : Holding(q)'
  BY <1>1, EmissionAlone DEF EmitAbort, Holding, Mine, Value, callVars
<1>5. WakeupNotLost'
  BY <1>1 DEF EmitAbort, WakeupNotLost, Woken, Value
<1> QED BY <1>2, <1>3, <1>4, <1>5

(* Every step of a queue without cleanup_events keeps the invariant.       *)
LEMMA StepInv == LockInv /\ [Next]_vars => LockInv'
<1> SUFFICES ASSUME LockInv, [Next]_vars PROVE LockInv'
  OBVIOUS
<1>1. ASSUME NEW r \in Run, AwaitEvent(r) PROVE LockInv'
  BY <1>1, InsertInv, ShareInv, ReadInv, CommitInv, AbortInv DEF AwaitEvent
<1>2. ASSUME NEW r \in Run, TimeoutPasses(r) \/ ClaimTimedOut(r) PROVE LockInv'
  BY <1>2, TimeoutInv
<1>3. ASSUME vars' = vars PROVE LockInv'
  BY <1>3 DEF vars, LockInv, TypeOK, DraftOwned, EmittersOwn, ShareExcludes, Holding,
    WakeupNotLost, Value, Woken, Mine
<1>4. ASSUME NEW e \in Emitter, EmitEvent(e) PROVE LockInv'
  BY <1>3, <1>4, UpsertInv, EmissionInv, EmitAbortInv DEF EmitEvent, EmitAgain
<1> QED BY <1>1, <1>2, <1>3, <1>4 DEF Next

(* The locks, and with them: no run sleeps on an event that has a payload. *)
THEOREM WakeupKept == Spec => []WakeupNotLost
<1>1. LockInv => WakeupNotLost
  BY DEF LockInv
<1> QED BY <1>1, InitInv, StepInv, PTL DEF Spec

(* Rows, drafts, locks and outcomes keep their types, through lost         *)
(* sessions too.                                                           *)
THEOREM RaceTypeCorrect == Spec => []TypeOK
<1>1. LockInv => TypeOK
  BY DEF LockInv
<1> QED BY <1>1, InitInv, StepInv, PTL DEF Spec

-----------------------------------------------------------------------------
(* Refinement: each statement is a step of the promise or none.            *)

Seen == [r \in Run |-> IF outcome[r] = "resumed" THEN "overdue" ELSE outcome[r]]
Unseen == Value' = Value /\ outcome' = outcome

(* A commit of await_event is where a run waits, is answered or timed out. *)
LEMMA CommitPromise ==
  ASSUME LockInv, NEW r \in Run, AwaitCommit(r)
  PROVE  Promise!Next
<1> USE Names DEF LockInv
<1>1. outcome[r] \in {"running", "resumed"} /\ saw[r] = Value /\ Value' = Value
  BY CommitKeepsValue DEF AwaitCommit, Holding
<1>2. outcome' = [outcome EXCEPT ![r] = Answered(r)] /\ outcome \in [Run -> Outcome]
  BY DEF AwaitCommit, TypeOK
<1>3. Answered(r) # "resumed" => Seen' = [Seen EXCEPT ![r] = Answered(r)]
  BY <1>2 DEF Seen
<1>4. CASE Value # None
  <2>1. Answered(r) = Value /\ Value \in Payload
    BY <1>1, <1>4, Records DEF Answered
  <2>2. Promise!Answer(r)
    BY <1>1, <1>2, <1>3, <1>4, <2>1 DEF Seen, Promise!Answer
  <2> QED BY <2>2 DEF Promise!Next
<1>5. CASE Value = None /\ outcome[r] = "resumed"
  <2>1. Promise!TimeOut(r)
    BY <1>1, <1>2, <1>3, <1>5 DEF Answered, Seen, Promise!TimeOut
  <2> QED BY <2>1 DEF Promise!Next
<1>6. CASE Value = None /\ outcome[r] = "running"
  <2>1. Promise!Wait(r)
    BY <1>1, <1>2, <1>3, <1>6 DEF Answered, Seen, Promise!Wait
  <2> QED BY <2>1 DEF Promise!Next
<1> QED BY <1>1, <1>4, <1>5, <1>6

(* A commit of emit_event is the emission.                                 *)
LEMMA EmissionPromise ==
  ASSUME LockInv, NEW e \in Emitter, EmitCommit(e)
  PROVE  Promise!Next
<1> USE Names DEF LockInv
<1>1. PICK p \in Payload : e \in emitting /\ draft.payload = p /\ Value = None
  BY EmissionAlone DEF EmitCommit
<1>2. PICK late \in SUBSET Late :
        outcome' = [r \in Run |-> IF r \in Woken \union late THEN p ELSE outcome[r]]
  BY <1>1 DEF EmitCommit
<1>3. Value' = p
  BY <1>1, EmissionAlone, Records DEF EmitCommit, Value
<1>4. late \in SUBSET {r \in Run : Seen[r] = "overdue"}
  BY DEF Late, Seen
<1>5. Seen' = [r \in Run |-> IF Seen[r] = "waiting" \/ r \in late THEN p ELSE Seen[r]]
  BY <1>1, <1>2 DEF Seen, Woken, Late
<1>6. Promise!Emit(p)
  BY <1>1, <1>3, <1>4, <1>5 DEF Promise!Emit, Seen
<1> QED BY <1>6 DEF Promise!Next

LEMMA TimeoutPromise ==
  ASSUME LockInv, NEW r \in Run, TimeoutPasses(r) \/ ClaimTimedOut(r)
  PROVE  [Promise!Next]_(Promise!vars)
<1>1. Value' = Value /\ outcome \in [Run -> Outcome]
  BY DEF TimeoutPasses, ClaimTimedOut, Value, LockInv, TypeOK
<1>2. CASE TimeoutPasses(r)
  <2>1. Promise!Expire(r)
    BY <1>1, <1>2 DEF TimeoutPasses, Promise!Expire
  <2> QED BY <2>1 DEF Promise!Next
<1>3. CASE ClaimTimedOut(r)
  BY <1>1, <1>3 DEF ClaimTimedOut, Promise!vars
<1> QED BY <1>2, <1>3

LEMMA UnseenPromise ==
  ASSUME Unseen
  PROVE  [Promise!Next]_(Promise!vars)
BY DEF Unseen, Promise!vars

(* await_event and emit_event, statement by statement, implement the       *)
(* atomic calls: the first payload answers every wait that is on.          *)
THEOREM PromiseKept == Spec => KeepsPromise
<1>1. Init => Promise!Init
  BY DEF Init, Promise!Init, Value
<1>2. LockInv /\ [Next]_vars => [Promise!Next]_(Promise!vars)
  <2> SUFFICES ASSUME LockInv, [Next]_vars PROVE [Promise!Next]_(Promise!vars)
    OBVIOUS
  <2>1. ASSUME NEW r \in Run, AwaitEvent(r) PROVE [Promise!Next]_(Promise!vars)
    <3>1. AwaitInsert(r) \/ AwaitShare(r) \/ AwaitRead(r) \/ AwaitAbort(r) => Unseen
      BY DEF AwaitInsert, AwaitShare, AwaitRead, AwaitAbort, Unseen, Value
    <3> QED BY <2>1, <3>1, UnseenPromise, CommitPromise DEF AwaitEvent
  <2>2. ASSUME NEW r \in Run, TimeoutPasses(r) \/ ClaimTimedOut(r)
        PROVE  [Promise!Next]_(Promise!vars)
    BY <2>2, TimeoutPromise
  <2>3. ASSUME NEW e \in Emitter, EmitEvent(e) PROVE [Promise!Next]_(Promise!vars)
    <3>1. (\E p \in Payload : EmitUpsert(e, p)) \/ EmitAgain(e) \/ EmitAbort(e) => Unseen
      BY DEF EmitUpsert, EmitAgain, EmitAbort, Unseen, Value, vars
    <3> QED BY <2>3, <3>1, UnseenPromise, EmissionPromise DEF EmitEvent
  <2>4. vars' = vars => Unseen
    BY DEF vars, Unseen, Value
  <2> QED BY <2>1, <2>2, <2>3, <2>4, UnseenPromise DEF Next
<1> QED BY <1>1, <1>2, InitInv, StepInv, PTL DEF Spec, KeepsPromise, Promise!Spec

-----------------------------------------------------------------------------
(* With cleanup_events the promise is lost, but a run that has found the   *)
(* row still keeps it: its lock is one that cleanup_events respects.       *)

StableInv == TypeOK /\ EmittersOwn /\ ShareExcludes /\ LockedReadIsStable

LEMMA StableStep == StableInv /\ [NextWithCleanup]_vars => StableInv'
<1> SUFFICES ASSUME StableInv, [NextWithCleanup]_vars PROVE StableInv'
  OBVIOUS
<1> USE Names, Records DEF StableInv, TypeOK, EmittersOwn, ShareExcludes, LockedReadIsStable, Mine
<1>1. ASSUME NEW r \in Run, AwaitEvent(r) PROVE StableInv'
  <2>1. CASE AwaitInsert(r) \/ AwaitShare(r)
    BY <2>1 DEF AwaitInsert, AwaitShare, cleanVars, Draft
  <2>2. CASE AwaitRead(r)
    BY <2>2 DEF AwaitRead, cleanVars, Row
  <2>3. CASE AwaitAbort(r)
    BY <2>3 DEF AwaitAbort, Release, cleanVars
  <2>4. CASE AwaitCommit(r)
    <3>1. row' \in Row \union {None} /\ (share # {} => row' = row)
      BY <2>4 DEF AwaitCommit, Mine
    <3>2. Answered(r) \in Outcome
      BY DEF Answered, Outcome
    <3> QED BY <2>4, <3>1, <3>2 DEF AwaitCommit, Release, cleanVars
  <2> QED BY <1>1, <2>1, <2>2, <2>3, <2>4 DEF AwaitEvent
<1>2. ASSUME NEW r \in Run, TimeoutPasses(r) \/ ClaimTimedOut(r) PROVE StableInv'
  BY <1>2 DEF TimeoutPasses, ClaimTimedOut, cleanVars, callVars, Outcome
<1>3. ASSUME NEW e \in Emitter, EmitEvent(e) PROVE StableInv'
  <2>1. CASE \E p \in Payload : EmitUpsert(e, p)
    <3>1. draft' # None /\ draft'.by = e /\ draft'.payload # None /\ draft' \in Draft
      BY <2>1 DEF EmitUpsert, Draft
    <3>2. draft = None /\ emitting = {} /\ (row # None => share = {})
      BY <2>1 DEF EmitUpsert, MayUpsert
    <3> QED BY <2>1, <3>1, <3>2 DEF EmitUpsert, callVars
  <2>2. CASE EmitCommit(e)
    <3>1. draft # None /\ draft.by = e /\ share = {} /\ emitting = {e}
      BY <2>2 DEF EmitCommit
    <3>2. row' \in Row /\ row' # None /\ draft.payload \in Payload
      BY <2>2, <3>1 DEF EmitCommit, Draft
    <3>3. PICK late \in SUBSET Late :
            outcome' = [r \in Run |-> IF r \in Woken \union late THEN draft.payload ELSE outcome[r]]
      BY <2>2 DEF EmitCommit
    <3> QED BY <2>2, <3>1, <3>2, <3>3 DEF EmitCommit, callVars, Outcome
  <2>3. CASE EmitAgain(e) \/ EmitAbort(e)
    BY <2>3 DEF EmitAgain, EmitAbort, vars, callVars
  <2> QED BY <1>3, <2>1, <2>2, <2>3 DEF EmitEvent
<1>4. CASE CleanupChoose \/ CleanupDelete \/ EventGetsOld
  <2>1. CASE CleanupChoose \/ CleanupDelete
    BY ZenonT(60), <2>1 DEF CleanupChoose, CleanupDelete, callVars
  <2>2. CASE EventGetsOld
    <3>1. row' \in Row /\ row' # None /\ row'.payload = row.payload /\ row # None
      BY ZenonT(60), <2>2 DEF EventGetsOld, Row
    <3> QED BY <2>2, <3>1 DEF EventGetsOld, callVars, cleanVars
  <2> QED BY <1>4, <2>1, <2>2
<1>5. CASE vars' = vars
  BY <1>5 DEF vars
<1> QED BY <1>1, <1>2, <1>3, <1>4, <1>5 DEF NextWithCleanup, Next

THEOREM LockedReadsStable == SpecWithCleanup => []LockedReadIsStable
<1>1. Init => StableInv
  BY Names DEF Init, StableInv, TypeOK, EmittersOwn, ShareExcludes, LockedReadIsStable, Outcome
<1>2. StableInv => LockedReadIsStable
  BY DEF StableInv
<1> QED BY <1>1, <1>2, StableStep, PTL DEF SpecWithCleanup
=============================================================================
