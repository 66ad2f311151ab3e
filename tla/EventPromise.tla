---------------------------- MODULE EventPromise ----------------------------
(***************************************************************************)
(* What a queue promises to the runs that wait for one event, if each call *)
(* took no time.  The first emission fixes the payload and answers, in the *)
(* same instant, everyone whose wait is on; a wait goes on only while the  *)
(* event has not been emitted; and a run is told that its wait timed out   *)
(* only if, as it is told, there is no payload it could be given instead.  *)
(***************************************************************************)
CONSTANTS Run, Payload, None
VARIABLES
  value,     \* the payload of the event, None until it is emitted
  outcome    \* run -> running, waiting, overdue, timedout or its payload
vars == <<value, outcome>>

Init == value = None /\ outcome = [r \in Run |-> "running"]

(* An overdue run, whose timeout has passed, asks again before it is told. *)
Wait(r) ==
  /\ value = None /\ outcome[r] = "running"
  /\ outcome' = [outcome EXCEPT ![r] = "waiting"]
  /\ UNCHANGED value
Answer(r) ==
  /\ value # None /\ outcome[r] \in {"running", "overdue"}
  /\ outcome' = [outcome EXCEPT ![r] = value]
  /\ UNCHANGED value
Expire(r) ==
  /\ outcome[r] = "waiting"
  /\ outcome' = [outcome EXCEPT ![r] = "overdue"]
  /\ UNCHANGED value
TimeOut(r) ==
  /\ value = None /\ outcome[r] = "overdue"
  /\ outcome' = [outcome EXCEPT ![r] = "timedout"]
  /\ UNCHANGED value

(* An emission also answers some of those whose timeout has just passed.   *)
Emit(p) ==
  /\ value = None /\ value' = p
  /\ \E late \in SUBSET {r \in Run : outcome[r] = "overdue"} :
       outcome' = [r \in Run |-> IF outcome[r] = "waiting" \/ r \in late THEN p ELSE outcome[r]]

Next ==
  \/ \E r \in Run : Wait(r) \/ Answer(r) \/ Expire(r) \/ TimeOut(r)
  \/ \E p \in Payload : Emit(p)

Spec == Init /\ [][Next]_vars
=============================================================================
