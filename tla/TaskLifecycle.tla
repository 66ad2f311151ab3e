--------------------------- MODULE TaskLifecycle ---------------------------
(***************************************************************************)
(* What a queue promises about each of its tasks, whatever its tables look *)
(* like: one attempt at a time, numbered without gaps, at most one end.    *)
(*                                                                         *)
(* A task waits (for a worker, a time, an event or its next attempt) or is *)
(* executing.  One call may move several tasks, and move a task from one   *)
(* attempt that executes to the next: a claim gives up an attempt whose    *)
(* lease has expired and hands out its successor.                          *)
(***************************************************************************)
EXTENDS Naturals

CONSTANT Task
VARIABLES phase, attempt
vars == <<phase, attempt>>

Open == {"waiting", "executing"}
Ended == {"completed", "failed", "cancelled"}

Init ==
  /\ phase = [t \in Task |-> "absent"]
  /\ attempt = [t \in Task |-> 0]

Move(t, from, to) == phase[t] \in from /\ phase'[t] \in to
Same(t) == attempt'[t] = attempt[t]

Submit(t)   == Move(t, {"absent"}, {"waiting"}) /\ attempt'[t] = 1
Start(t)    == Move(t, {"waiting"}, {"executing"}) /\ Same(t)
Suspend(t)  == Move(t, {"executing"}, {"waiting"}) /\ Same(t)
Complete(t) == Move(t, {"executing"}, {"completed"}) /\ Same(t)
GiveUp(t)   == Move(t, Open, {"failed", "cancelled"}) /\ Same(t)
TryAgain(t) == /\ \/ Move(t, {"waiting", "failed"}, {"waiting"})
                  \/ Move(t, {"executing"}, Open)
               /\ attempt'[t] = attempt[t] + 1
Forget(t)   == Move(t, Ended, {"deleted"}) /\ attempt'[t] = 0
Stay(t)     == Move(t, {phase[t]}, {phase[t]}) /\ Same(t)

Next ==
  \A t \in Task : \/ Submit(t) \/ Start(t) \/ Suspend(t) \/ Complete(t)
                  \/ GiveUp(t) \/ TryAgain(t) \/ Forget(t) \/ Stay(t)

Spec == Init /\ [][Next]_vars
=============================================================================
