----------------------- MODULE CheckpointRaceProofs -----------------------
(***************************************************************************)
(* Proofs about CheckpointRace, for any number of steps and attempts.      *)
(*                                                                         *)
(* Both properties need to know where each handler stands: InCall says     *)
(* that a call which has been admitted has not been overtaken by a write   *)
(* of its own handler, and Ordered that attempts are claimed in order,     *)
(* each when its predecessor has ended.                                    *)
(***************************************************************************)
EXTENDS CheckpointRace, TLAPS

Label == {"off", "between", "executing", "admitted", "extended", "compared"}
RunState == {"absent", "running", "completed", "failed", "cancelled"}

TypeOK ==
  /\ run \in [Attempt -> RunState]
  /\ cancelled \in BOOLEAN
  /\ at \in [Attempt -> Label]
  /\ holds \subseteq Attempt
  /\ overrun \in [Attempt -> Nat]

Ordered(a) ==
  /\ run[a] = "running" => ~cancelled
  /\ run[a] \in {"absent", "running"} => \A b \in Attempt : b > a => run[b] = "absent"
InCall(a) ==
  /\ overrun[a] <= 1
  /\ ~cancelled \/ at[a] \in {"admitted", "extended", "compared"} => overrun[a] = 0
Held(a) == a \in holds => run[a] = "running" /\ ~cancelled /\ at[a] \in {"extended", "compared"}

Inv ==
  /\ TypeOK
  /\ \A a \in Attempt : Ordered(a) /\ InCall(a) /\ Held(a)

LEMMA InitInv == Init => Inv
<1> SUFFICES ASSUME Init PROVE Inv
  OBVIOUS
<1>1. TypeOK
  BY DEF Init, TypeOK, Label, RunState
<1>2. \A a \in Attempt : Ordered(a) /\ InCall(a) /\ Held(a)
  BY DEF Init, Ordered, InCall, Held
<1> QED BY <1>1, <1>2 DEF Inv

(* A claim finds no later attempt, and no lock on the one it gives up.     *)
LEMMA ClaimInv ==
  ASSUME Inv, NEW a \in Attempt, Claim(a)
  PROVE  Inv'
<1> USE DEF Inv, TypeOK, Label, RunState
<1>1. \A b \in Attempt : b > a => run[b] = "absent"
  BY DEF Claim, Ordered
<1>2. TypeOK'
  BY DEF Claim, Goto
<1>3. \A b \in Attempt : Ordered(b)'
  <2> TAKE b \in Attempt
  <2>1. CASE a = 1
    BY <1>1, <2>1, BoundsAssumption DEF Claim, Ordered, Attempt
  <2>2. CASE a > 1
    BY SMTT(60), <1>1, <2>2, BoundsAssumption DEF Claim, Ordered, Attempt
  <2> QED BY <2>1, <2>2, BoundsAssumption DEF Attempt
<1>4. \A b \in Attempt : InCall(b)' /\ Held(b)'
  BY DEF Claim, Goto, InCall, Held
<1> QED BY <1>2, <1>3, <1>4

LEMMA CancelInv ==
  ASSUME Inv, CancelTask
  PROVE  Inv'
<1> USE DEF Inv, TypeOK, RunState
<1>1. TypeOK'
  BY DEF CancelTask
<1>2. \A b \in Attempt : Ordered(b)' /\ InCall(b)' /\ Held(b)'
  BY DEF CancelTask, Ordered, InCall, Held
<1> QED BY <1>1, <1>2

(* A refused handler is off before it has written twice.                   *)
LEMMA StepInv ==
  ASSUME Inv, NEW a \in Attempt,
         BeginStep(a) \/ ReadStates(a) \/ ReadOwner(a) \/ WorkerLost(a)
  PROVE  Inv'
<1> USE DEF Inv, TypeOK, Label, tableVars, Goto
<1>1. TypeOK'
  BY DEF BeginStep, ReadStates, ReadOwner, WorkerLost, NextStep
<1>2. \A b \in Attempt : Ordered(b)'
  BY DEF BeginStep, ReadStates, ReadOwner, WorkerLost, Ordered
<1>3. \A b \in Attempt : InCall(b)' /\ Held(b)'
  BY DEF BeginStep, ReadStates, ReadOwner, WorkerLost, NextStep, Refused, InCall, Held
<1> QED BY <1>1, <1>2, <1>3

LEMMA ExtendInv ==
  ASSUME Inv, NEW a \in Attempt, ExtendClaim(a)
  PROVE  Inv'
<1> USE DEF Inv, TypeOK, Label, tableVars, Goto
<1>1. TypeOK'
  BY DEF ExtendClaim
<1>2. run[a] = "running" => ~cancelled
  BY DEF Ordered
<1>3. \A b \in Attempt : Ordered(b)' /\ InCall(b)' /\ Held(b)'
  BY <1>2 DEF ExtendClaim, Ordered, InCall, Held
<1> QED BY <1>1, <1>3

LEMMA WriteInv ==
  ASSUME Inv, NEW a \in Attempt, WriteCheckpoint(a)
  PROVE  Inv'
<1> USE DEF Inv, TypeOK, Label, tableVars, Goto
<1>1. overrun'[a] <= 1 /\ (~cancelled => overrun'[a] = 0) /\ overrun' \in [Attempt -> Nat]
  BY DEF WriteCheckpoint, InCall
<1>2. \A b \in Attempt : b # a => overrun'[b] = overrun[b]
  BY DEF WriteCheckpoint
<1>3. TypeOK'
  BY <1>1 DEF WriteCheckpoint, NextStep
<1>4. \A b \in Attempt : Ordered(b)'
  BY DEF WriteCheckpoint, Ordered
<1>5. \A b \in Attempt : InCall(b)' /\ Held(b)'
  BY <1>1, <1>2 DEF WriteCheckpoint, NextStep, InCall, Held
<1> QED BY <1>3, <1>4, <1>5

LEMMA CompleteInv ==
  ASSUME Inv, NEW a \in Attempt, CompleteRun(a)
  PROVE  Inv'
<1> USE DEF Inv, TypeOK, Label, RunState, Goto
<1>1. TypeOK'
  BY DEF CompleteRun
<1>2. \A b \in Attempt : Ordered(b)' /\ InCall(b)' /\ Held(b)'
  BY DEF CompleteRun, Ordered, InCall, Held
<1> QED BY <1>1, <1>2

LEMMA NextInv == Inv /\ [Next]_vars => Inv'
<1> SUFFICES ASSUME Inv, [Next]_vars PROVE Inv'
  OBVIOUS
<1>1. CASE vars' = vars
  BY <1>1 DEF vars, Inv, TypeOK, Ordered, InCall, Held
<1>2. ASSUME NEW a \in Attempt,
             \/ Claim(a) \/ BeginStep(a) \/ ReadStates(a) \/ ExtendClaim(a) \/ ReadOwner(a)
             \/ WriteCheckpoint(a) \/ CompleteRun(a) \/ WorkerLost(a)
      PROVE  Inv'
  BY <1>2, ClaimInv, StepInv, ExtendInv, WriteInv, CompleteInv
<1> QED BY <1>1, <1>2, CancelInv DEF Next

(* A handler of a cancelled task persists at most one more step.           *)
THEOREM OverrunIsBounded == Spec => []OverrunBounded
<1>1. Inv => OverrunBounded
  BY DEF Inv, InCall, OverrunBounded
<1> QED BY <1>1, InitInv, NextInv, PTL DEF Spec

(* A call whose lease extension took effect is not overtaken.              *)
THEOREM ExtendedCallsCurrent == Spec => []ExtendedCallIsCurrent
<1>1. Inv => ExtendedCallIsCurrent
  BY DEF Inv, TypeOK, Held, Ordered, ExtendedCallIsCurrent
<1> QED BY <1>1, InitInv, NextInv, PTL DEF Spec
=============================================================================
