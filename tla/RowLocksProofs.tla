----------------------------- MODULE RowLocksProofs -----------------------------
(***************************************************************************)
(* The order in which the stored functions lock rows, for any number of    *)
(* sessions, tasks and attempts.                                           *)
(***************************************************************************)
EXTENDS RowLocks, WellFoundedInduction, TLAPS

-----------------------------------------------------------------------------
(* What holds in every state.                                              *)

Value == {"none", "sentinel", "emitted", "row", "active", "failed", "ended"} \cup Active
Function == {"idle", "done", "complete_run", "schedule_run", "fail_run", "extend_claim",
             "await_event", "set_task_checkpoint_state", "cancel_task", "retry_task",
             "emit_event", "claim_task", "cleanup_tasks", "cleanup_events"}
Label == {"start", "event_locked", "run_locked", "task_locked", "runs_locked", "cancel", "fail", "end"}
Target == (0 .. Tasks) \X (0 .. MaxRuns)
Lockable == Row \cup {EShare, EInsert}

Types ==
  /\ table \in [Row -> Value]
  /\ by \in [Session -> Function]
  /\ call \in [Session -> [op : Function, of : Target]]
  /\ at \in [Session -> Label]
  /\ loop \in [Session -> SUBSET Target]
  /\ todo \in [Session -> SUBSET (Nat \X Lockable)]
  /\ held \in [Session -> SUBSET (Row \cup {EShare})]
  /\ draft \in [Session -> [Row -> Value \cup {"unwritten"}]]

(* One active run of a task, the last one, and none of an ended task; only *)
(* a run that sleeps has a wait.                                           *)
Good(v) ==
  /\ \A r, q \in Run : r[1] = q[1] /\ v[R(r)] \in Active /\ v[R(q)] \in Active => r = q
  /\ \A r \in Run : v[R(r)] \in Active => v[T(r[1])] \notin {"failed", "ended"}
  /\ \A r \in Run : v[W(r)] = "row" => v[R(r)] = "sleeping"
  /\ \A r, q \in Run : r[1] = q[1] /\ v[R(r)] \in Active /\ r[2] < q[2] => v[R(q)] = "none"

Exclusive == \A s, u \in Session : s # u => held[s] \cap held[u] \subseteq {EShare}

View(s) == [x \in Row |-> Sees(s, x)]
Rows(s) == {p[2] : p \in todo[s]}
Reach(s) == held[s] \cup Rows(s)
Written(s, x) == draft[s][x] # "unwritten"
Touches(s, t) == Written(s, T(t)) \/ \E r \in Run : r[1] = t /\ Written(s, R(r))

(* s has a run of t that the table shows active, so that no other session  *)
(* can end t.                                                              *)
HasActive(s, t) == \E r \in Run : r[1] = t /\ R(r) \in held[s] /\ table[R(r)] \in Active

(* s locks the row of t and has not looked at it yet.                      *)
Looking(s, t) ==
  /\ Of(s)[1] = t
  /\ \/ call[s].op = "extend_claim"
     \/ call[s].op = "retry_task" /\ at[s] = "start"
     \/ call[s].op = "await_event" /\ at[s] = "run_locked"
     \/ call[s].op = "cancel_task" /\ at[s] = "task_locked"

(* What s writes of a task it has, or will have before anyone else: its    *)
(* row, and every run that is active.                                      *)
Owns(s, t) ==
  /\ Touches(s, t) => T(t) \in Reach(s) /\ ~Looking(s, t)
  /\ T(t) \in Reach(s) /\ ~Looking(s, t) =>
       /\ T(t) \in held[s] \/ HasActive(s, t)
       /\ \A r \in Run : r[1] = t /\ table[R(r)] \in Active => R(r) \in Reach(s)
Owner(s) == \A t \in Task : Owns(s, t)

(* A run is only made after the last one, which it replaces or which has   *)
(* failed with its task.                                                   *)
Born(r) ==
  \/ \E q \in Run : q[1] = r[1] /\ q[2] < r[2] /\ table[R(q)] \in Active
  \/ /\ table[T(r[1])] = "failed"
     /\ \A q \in Run : q[1] = r[1] => (table[R(q)] = "none" <=> q[2] >= r[2])
Evolves(s) == \A r \in Run :
  /\ draft[s][R(r)] \in Active =>
       table[R(r)] \in Active \/ (table[R(r)] = "none" /\ Born(r))
  /\ draft[s][R(r)] # "none"
  /\ draft[s][W(r)] = "row" => Written(s, R(r))

(* Waits and checkpoints are locked after their task.                      *)
LastRows(s) == by[s] # "emit_event" =>
  /\ \A r \in Run : W(r) \in held[s] => T(r[1]) \in held[s]
  /\ \A t \in Task : C(t) \in held[s] =>
       /\ call[s].op \in {"await_event", "set_task_checkpoint_state"} /\ at[s] = "end"
       /\ C(t) \in Rows(s)

(* Event, then runs, then task, then waits and checkpoints.                *)
Place(x) == CASE x[1] = "r" -> x[3]
              [] x[1] = "t" -> MaxRuns + 1
              [] x[1] \in {"w", "c"} -> MaxRuns + 2
              [] OTHER -> 0
Before(x, y) == x[2] < y[2] \/ (x[2] = y[2] /\ Place(x) < Place(y))

(* What is locked comes after what is held, unless it is the row of a task *)
(* of which s has the active run.                                          *)
InOrder(s) ==
  by[s] # "emit_event" /\ ~(call[s].op = "cancel_task" /\ at[s] = "end") =>
    \A p \in Missing(s), y \in held[s] :
      \/ p[2][1] \in {"w", "c"}
      \/ Before(y, p[2])
      \/ \E t \in Task : p[2] = T(t) /\ HasActive(s, t)

OneTask(s) ==
  by[s] \notin {"claim_task", "emit_event"} => \A x \in held[s] : x[2] \in {0, Of(s)[1]}

(* Where each call stands: what it locks next, and what it has by then.    *)
CallFits(s) ==
  /\ by[s] # call[s].op => by[s] = "claim_task" /\ call[s].op \in {"cancel_task", "fail_run"}
  /\ by[s] # "claim_task" => loop[s] = {}
  /\ by[s] \in {"idle", "done"} => todo[s] = {} /\ held[s] = {} /\ draft[s] = Nothing

RunFits(s) ==
  LET op == call[s].op
      r == Of(s)
      t == Of(s)[1] IN
  op \in {"complete_run", "schedule_run", "fail_run"} =>
    /\ r \in Run
    /\ at[s] \in {"start", "task_locked", "end"}
    /\ at[s] = "start" => todo[s] \subseteq Nth(1, {R(r)}) /\ R(r) \in Reach(s) /\ ~Touches(s, t)
    /\ at[s] # "start" => R(r) \in held[s]
    /\ at[s] # "start" /\ op # "fail_run" =>
         /\ at[s] = "end" /\ T(t) \in Rows(s)
         /\ todo[s] \subseteq Nth(1, {T(t)}) \cup Nth(2, {W(r)})
    /\ at[s] = "task_locked" =>
         todo[s] = Nth(1, {T(t)}) /\ ~Touches(s, t) /\ table[R(r)] \in {"running", "sleeping"}
    /\ at[s] = "end" /\ op = "fail_run" => T(t) \in held[s] /\ todo[s] \subseteq Nth(1, {W(r)})

AwaitFits(s) ==
  LET op == call[s].op
      r == Of(s)
      t == Of(s)[1] IN
  /\ op \in {"extend_claim", "await_event", "set_task_checkpoint_state"} => r \in Run
  /\ op \in {"extend_claim", "set_task_checkpoint_state"} => at[s] = "end" /\ draft[s] = Nothing
  /\ op = "extend_claim" => todo[s] = Nth(1, {R(r)}) \cup Nth(2, {T(t)})
  /\ op = "set_task_checkpoint_state" => todo[s] \subseteq Nth(1, {R(r)}) \cup Nth(2, {C(t)})
  /\ op = "await_event" =>
       /\ at[s] \in {"start", "event_locked", "run_locked", "end"}
       /\ at[s] # "end" => \A x \in Row : Written(s, x) => x = E
       /\ at[s] = "start" => todo[s] = Nth(1, {EInsert}) /\ held[s] = {}
       /\ at[s] = "event_locked" => todo[s] \subseteq Nth(1, {EShare}) /\ held[s] \subseteq {E, EShare}
       /\ at[s] = "run_locked" => todo[s] = Nth(1, {R(r)}) \cup Nth(2, {T(t)})
       /\ at[s] = "end" => /\ {R(r), T(t)} \subseteq held[s]
                           /\ todo[s] \subseteq Nth(1, {W(r)}) \/ todo[s] = Nth(1, {C(t)})

CancelFits(s) ==
  LET t == Of(s)[1] IN
  /\ call[s].op = "retry_task" =>
       /\ t \in Task /\ at[s] \in {"start", "end"}
       /\ at[s] = "start" => todo[s] = Nth(1, {T(t)}) /\ draft[s] = Nothing
       /\ at[s] = "end" => todo[s] = {} /\ T(t) \in held[s]
  /\ call[s].op = "cancel_task" =>
       /\ t \in Task /\ at[s] \in {"start", "task_locked", "end"}
       /\ at[s] = "start" => todo[s] = {} /\ (by[s] = "cancel_task" => held[s] = {})
       /\ at[s] = "task_locked" =>
            /\ <<MaxRuns + 1, T(t)>> \in todo[s]
            /\ \A p \in todo[s] : \/ p = <<MaxRuns + 1, T(t)>>
                                  \/ \E r \in Run : r[1] = t /\ p = <<r[2], R(r)>>
       /\ at[s] = "end" =>
            /\ T(t) \in held[s]
            /\ \A p \in todo[s] : \E r \in Run : r[1] = t /\ p \in {<<1, R(r)>>, <<2, W(r)>>}
       /\ at[s] # "end" => ~Touches(s, t)

EmitFits(s) == call[s].op = "emit_event" =>
  /\ at[s] \in {"start", "runs_locked", "end"}
  /\ at[s] = "start" => todo[s] = Nth(1, {E}) /\ held[s] \subseteq {E} /\ draft[s] = Nothing
  /\ at[s] # "start" => E \in held[s]
  /\ at[s] = "runs_locked" =>
       /\ \A t \in Task : ~Touches(s, t)
       /\ held[s] \subseteq {E} \cup Rows(s)
       /\ \A p \in todo[s] : \E r \in Run : p \in {<<1, R(r)>>, <<1, W(r)>>}
       /\ \A p, q \in todo[s] : p[2][2] = q[2][2] => p = q
  /\ at[s] = "end" => \A p \in todo[s] : \E r \in Run :
       /\ R(r) \in held[s] /\ table[R(r)] \in Active
       /\ p \in {<<1, T(r[1])>>, <<1, C(r[1])>>, <<1, W(r)>>}

ClaimAt(s) == call[s].op = "claim_task" =>
  /\ at[s] \in {"start", "cancel", "fail", "end"}
  /\ at[s] # "end" => todo[s] = {}
  /\ at[s] = "start" => held[s] = {} /\ draft[s] = Nothing /\ loop[s] = {}
  /\ at[s] = "end" => \A p \in todo[s] : \E r \in Run : p = <<1, W(r)>> /\ T(r[1]) \in held[s]

(* claim_task cancels tasks in their order, *)
Cancelling(s) == call[s].op = "cancel_task" \/ (call[s].op = "claim_task" /\ at[s] \in {"start", "cancel"})
InCancelling(s) == Cancelling(s) =>
  /\ loop[s] \subseteq Task \X {0}
  /\ \A l \in loop[s], x \in held[s] : x[2] < l[1]
  /\ \A t \in Task : T(t) \in held[s] => Sees(s, T(t)) \in {"failed", "ended"} \/ Looking(s, t)
  /\ call[s].op = "cancel_task" =>
       /\ \A l \in loop[s] : Of(s)[1] < l[1]
       /\ \A x \in held[s] : x[2] <= Of(s)[1]
       /\ at[s] = "start" => \A x \in held[s] : x[2] < Of(s)[1]

(* and has the runs that it fails, of different tasks.                     *)
Failing(s) == call[s].op = "fail_run" \/ (call[s].op = "claim_task" /\ at[s] = "fail")
InFailing(s) == Failing(s) =>
  /\ \A r \in loop[s] : r \in Run /\ R(r) \in held[s] /\ table[R(r)] = "running" /\ T(r[1]) \notin held[s]
  /\ call[s].op = "fail_run" =>
       /\ \A r \in loop[s] : r[1] # Of(s)[1]
       /\ at[s] = "start" => /\ todo[s] = {} /\ table[R(Of(s))] = "running"
                             /\ T(Of(s)[1]) \notin held[s]
ClaimFits(s) == by[s] = "claim_task" => ClaimAt(s) /\ InCancelling(s) /\ InFailing(s)

(* cleanup_tasks deletes ended runs only, and with each run its task.      *)
CleanupFits(s) ==
  /\ call[s].op \in {"cleanup_tasks", "cleanup_events"} => at[s] = "end"
  /\ call[s].op = "cleanup_tasks" =>
       /\ \A x \in Row : Written(s, x) => draft[s][x] = "none" /\ <<1, x>> \in todo[s]
       /\ \A r \in Run : Written(s, R(r)) =>
            /\ Written(s, T(r[1]))
            /\ table[R(r)] = "none" => table[T(r[1])] = "none"
            /\ \A q \in Run : q[1] = r[1] /\ table[R(q)] \in Active => r[2] < q[2]
  /\ call[s].op = "cleanup_events" =>
       todo[s] = Nth(1, {E}) /\ \A x \in Row : Written(s, x) => x = E

Calls(s) ==
  /\ CallFits(s) /\ RunFits(s) /\ AwaitFits(s) /\ CancelFits(s) /\ EmitFits(s)
  /\ ClaimFits(s) /\ CleanupFits(s)
Order(s) ==
  by[s] # "cleanup_tasks" =>
    Good(View(s)) /\ Owner(s) /\ Evolves(s) /\ LastRows(s) /\ InOrder(s) /\ OneTask(s)
LockInv ==
  /\ Types /\ Exclusive /\ Good(table)
  /\ \A s \in Session : Calls(s) /\ Order(s)

-----------------------------------------------------------------------------
(* Rows, and the order of rows.                                            *)

LEMMA RunParts ==
  ASSUME NEW r \in Run
  PROVE  r[1] \in Task /\ r[2] \in 1 .. MaxRuns /\ r = <<r[1], r[2]>> /\ r[1] \in Nat /\ r[2] \in Nat
         /\ r[1] > 0
BY LockAssumption DEF Run, Task

LEMMA RowParts ==
  /\ \A r \in Run : R(r) \in Row /\ W(r) \in Row /\ R(r)[2] = r[1] /\ W(r)[2] = r[1]
                    /\ R(r)[1] = "r" /\ W(r)[1] = "w" /\ R(r)[3] = r[2] /\ W(r)[3] = r[2]
  /\ \A t \in Task : T(t) \in Row /\ C(t) \in Row /\ T(t)[2] = t /\ C(t)[2] = t
                    /\ T(t)[1] = "t" /\ C(t)[1] = "c"
  /\ E \in Row /\ E[1] = "e" /\ E[2] = 0 /\ EShare[2] = 0 /\ EInsert[2] = 0
  /\ EShare[1] = "e_share" /\ EInsert[1] = "e_insert"
BY DEF Row, R, W, T, C, E, EShare, EInsert

LEMMA RowsDiffer ==
  /\ \A r, q \in Run : (R(r) = R(q) => r = q) /\ (W(r) = W(q) => r = q) /\ R(r) # W(q)
  /\ \A r \in Run, t \in Task : R(r) # T(t) /\ W(r) # T(t) /\ R(r) # C(t) /\ W(r) # C(t)
  /\ \A t, u \in Task : (T(t) = T(u) => t = u) /\ (C(t) = C(u) => t = u) /\ T(t) # C(u)
  /\ \A r \in Run : R(r) \notin {E, EShare, EInsert} /\ W(r) \notin {E, EShare, EInsert}
  /\ \A t \in Task : T(t) \notin {E, EShare, EInsert} /\ C(t) \notin {E, EShare, EInsert}
  /\ EShare \notin Row /\ EInsert \notin Row /\ E # EShare /\ E # EInsert /\ EShare # EInsert
<1>1. \A r, q \in Run : (R(r) = R(q) => r = q) /\ (W(r) = W(q) => r = q)
  BY RunParts DEF R, W
<1>2. \A r \in Run : R(r) \notin {EShare, EInsert} /\ W(r) \notin {EShare, EInsert}
  BY RowParts
<1>3. \A t, u \in Task : (T(t) = T(u) => t = u) /\ (C(t) = C(u) => t = u)
  BY DEF T, C
<1>4. EShare \notin Row /\ EInsert \notin Row
  BY DEF Row, R, T, W, C, E, EShare, EInsert
<1> QED BY <1>1, <1>3, <1>4, RowParts

LEMMA Kinds ==
  \A x \in Row : \/ \E r \in Run : x = R(r)
                 \/ \E r \in Run : x = W(r)
                 \/ \E t \in Task : x = T(t)
                 \/ \E t \in Task : x = C(t)
                 \/ x = E
BY DEF Row

LEMMA Places ==
  /\ \A r \in Run : Place(R(r)) = r[2] /\ Place(W(r)) = MaxRuns + 2
  /\ \A t \in Task : Place(T(t)) = MaxRuns + 1 /\ Place(C(t)) = MaxRuns + 2
  /\ Place(E) = 0 /\ Place(EShare) = 0 /\ Place(EInsert) = 0
BY RowParts DEF Place

LEMMA Bounds ==
  ASSUME NEW x \in Lockable
  PROVE  x[2] \in 0 .. Tasks /\ Place(x) \in 0 .. MaxRuns + 2
<1>1. MaxRuns \in Nat /\ Tasks \in Nat /\ Task = 1 .. Tasks
  BY LockAssumption DEF Task
<1>2. CASE x \in {E, EShare, EInsert}
  BY <1>1, <1>2, Places, RowParts
<1>3. CASE \E r \in Run : x \in {R(r), W(r)}
  BY <1>1, <1>3, Places, RowParts, RunParts
<1>4. CASE \E t \in Task : x \in {T(t), C(t)}
  BY <1>1, <1>4, Places, RowParts
<1> QED BY <1>2, <1>3, <1>4, Kinds DEF Lockable

(* A set of numbers up to a bound has a greatest one.                      *)
LEMMA Greatest ==
  ASSUME NEW n \in Nat, NEW A \in SUBSET (0 .. n), A # {}
  PROVE  \E m \in A : \A a \in A : a <= m
<1> DEFINE Below == {k \in Nat : \E a \in A : k = n - a}
<1>1. Below \subseteq Nat /\ Below # {}
  <2>1. PICK a \in A : TRUE
    OBVIOUS
  <2>2. a \in 0 .. n /\ n - a \in Nat
    OBVIOUS
  <2> QED BY <2>1, <2>2
<1>2. PICK k \in Below : \A j \in Below : ~(<<j, k>> \in OpToRel(<, Nat))
  BY <1>1, NatLessThanWellFounded, WFMin
<1>3. PICK m \in A : k = n - m
  BY <1>2
<1>4. ASSUME NEW a \in A PROVE a <= m
  <2>1. n - a \in Nat /\ n - a \in Below /\ a \in 0 .. n /\ m \in 0 .. n
    OBVIOUS
  <2>2. ~(n - a < k)
    BY <1>2, <2>1 DEF OpToRel
  <2> QED BY <1>3, <2>1, <2>2
<1> QED BY <1>4

(* Rows cannot come after each other without end.                          *)
LEMMA NoClimb ==
  ASSUME NEW L \in SUBSET Lockable, L # {}, \A x \in L : \E y \in L : Before(x, y)
  PROVE  FALSE
<1> DEFINE Numbers == {x[2] : x \in L}
<1>1. Tasks \in Nat /\ MaxRuns + 2 \in Nat
  BY LockAssumption
<1>2. Numbers \in SUBSET (0 .. Tasks) /\ Numbers # {}
  BY Bounds
<1>3. PICK t \in Numbers : \A u \in Numbers : u <= t
  <2> HIDE DEF Numbers
  <2> QED BY <1>1, <1>2, Greatest
<1> DEFINE Last == {x \in L : x[2] = t}
<1> DEFINE Steps == {Place(x) : x \in Last}
<1>4. Steps \in SUBSET (0 .. MaxRuns + 2) /\ Steps # {}
  BY Bounds
<1>5. PICK k \in Steps : \A j \in Steps : j <= k
  <2> HIDE DEF Steps
  <2> QED BY <1>1, <1>4, Greatest
<1>6. PICK x \in Last : Place(x) = k
  BY <1>5
<1>7. PICK y \in L : Before(x, y)
  BY <1>6
<1>8. x[2] \in Nat /\ y[2] \in Nat /\ Place(x) \in Nat /\ Place(y) \in Nat
  BY <1>1, Bounds
<1>9. y[2] <= x[2]
  BY <1>3, <1>6
<1>10. y \in Last
  BY <1>6, <1>7, <1>8, <1>9 DEF Before
<1>11. Place(y) <= Place(x)
  BY <1>5, <1>6, <1>10
<1> QED BY <1>6, <1>7, <1>8, <1>10, <1>11 DEF Before

LEMMA InRows ==
  ASSUME NEW s, NEW k, NEW x
  PROVE  /\ <<k, x>> \in todo[s] => x \in Rows(s)
         /\ x \in Rows(s) => \E p \in todo[s] : p[2] = x
BY DEF Rows

(* What is asked for is the first of what is missing.                      *)
LEMMA Asked ==
  ASSUME Types, NEW s \in Session
  PROVE  /\ \A x \in Asks(s) : \E p \in Missing(s) :
              p[2] = x /\ \A q \in Missing(s) : p[1] <= q[1]
         /\ \A p \in Missing(s) : (\A q \in Missing(s) : p[1] <= q[1]) => p[2] \in Asks(s)
         /\ Asks(s) = {} <=> \A p \in todo[s] : p[2] \in held[s]
         /\ Asks(s) \subseteq Lockable /\ Asks(s) \subseteq Rows(s)
         /\ \A x \in Asks(s) : x \notin held[s]
         /\ Missing(s) \subseteq Nat \X Lockable
<1>1. Missing(s) \subseteq Nat \X Lockable /\ Missing(s) \subseteq todo[s]
  BY DEF Types, Missing
<1>2. \A x \in Asks(s) : \E p \in Missing(s) : p[2] = x /\ \A q \in Missing(s) : p[1] <= q[1]
  BY DEF Asks
<1>3. \A p \in Missing(s) : (\A q \in Missing(s) : p[1] <= q[1]) => p[2] \in Asks(s)
  BY DEF Asks
<1>4. ASSUME Missing(s) # {} PROVE Asks(s) # {}
  <2> DEFINE Firsts == {p[1] : p \in Missing(s)}
  <2>1. Firsts \subseteq Nat /\ Firsts # {}
    BY <1>1, <1>4
  <2>2. PICK k \in Firsts : \A j \in Firsts : ~(<<j, k>> \in OpToRel(<, Nat))
    BY <2>1, NatLessThanWellFounded, WFMin
  <2>3. PICK p \in Missing(s) : p[1] = k
    BY <2>2
  <2>4. ASSUME NEW q \in Missing(s) PROVE p[1] <= q[1]
    <3>1. q[1] \in Firsts /\ q[1] \in Nat /\ k \in Nat
      BY <2>1, <2>2
    <3>2. ~(q[1] < k)
      BY <2>2, <3>1 DEF OpToRel
    <3> QED BY <2>3, <3>1, <3>2
  <2> QED BY <1>3, <2>3, <2>4
<1>5. Asks(s) = {} <=> Missing(s) = {}
  BY <1>2, <1>4
<1>6. Missing(s) = {} <=> \A p \in todo[s] : p[2] \in held[s]
  BY DEF Missing
<1>7. Asks(s) \subseteq Rows(s) /\ \A x \in Asks(s) : x \notin held[s]
  BY <1>2 DEF Missing, Rows
<1> QED BY <1>1, <1>2, <1>3, <1>5, <1>6, <1>7

-----------------------------------------------------------------------------
(* Steps of one session.                                                   *)

LEMMA EmitOp ==
  ASSUME LockInv, NEW s \in Session
  PROVE  /\ by[s] = "emit_event" <=> call[s].op = "emit_event"
         /\ by[s] = "cleanup_tasks" <=> call[s].op = "cleanup_tasks"
BY DEF LockInv, Calls, CallFits

Still(u) ==
  /\ by'[u] = by[u] /\ call'[u] = call[u] /\ at'[u] = at[u] /\ loop'[u] = loop[u]
  /\ todo'[u] = todo[u] /\ held'[u] = held[u] /\ draft'[u] = draft[u]
OnlyMoves(s) == \A u \in Session : u # s => Still(u)

LEMMA Unmoved ==
  ASSUME LockInv, NEW u \in Session, Still(u), table' = table
  PROVE  Calls(u)' /\ Order(u)'
<1>1. Calls(u) /\ Order(u)
  BY DEF LockInv
<1> USE DEF Still
<1>2. /\ Rows(u)' = Rows(u) /\ Reach(u)' = Reach(u) /\ Missing(u)' = Missing(u)
      /\ Of(u)' = Of(u)
      /\ View(u)' = View(u)
  BY DEF Rows, Reach, Missing, Of, View, Sees
<1>3. \A t \in Task : (Touches(u, t) <=> Touches(u, t)')
  BY DEF Touches, Written
<1>4. \A t : (HasActive(u, t) <=> HasActive(u, t)') /\ (Looking(u, t) <=> Looking(u, t)')
  BY <1>2 DEF HasActive, Looking
<1>5. CallFits(u)'
  BY <1>1 DEF Calls, CallFits
<1>6. RunFits(u)'
  BY <1>1, <1>2, <1>3, RunParts DEF Calls, RunFits
<1>7. AwaitFits(u)'
  BY <1>1, <1>2 DEF Calls, AwaitFits, Written
<1>8. CancelFits(u)'
  BY <1>1, <1>2, <1>3 DEF Calls, CancelFits
<1>9. EmitFits(u)'
  BY <1>1, <1>2, <1>3 DEF Calls, EmitFits
<1>10. ClaimFits(u)'
  BY <1>1, <1>2, <1>3, <1>4 DEF Calls, ClaimFits, ClaimAt, InCancelling, InFailing, Cancelling, Failing, Sees
<1>11. CleanupFits(u)'
  BY <1>1, <1>2 DEF Calls, CleanupFits, Written
<1>12. SUFFICES ASSUME by[u] # "cleanup_tasks"
                PROVE  (Good(View(u)) /\ Owner(u) /\ Evolves(u) /\ LastRows(u) /\ InOrder(u) /\ OneTask(u))'
  BY <1>5, <1>6, <1>7, <1>8, <1>9, <1>10, <1>11 DEF Calls, Order
<1>13. Good(View(u)')
  BY <1>1, <1>2, <1>12 DEF Order
<1>14. Owner(u)'
  BY <1>1, <1>2, <1>3, <1>4, <1>12 DEF Order, Owner, Owns
<1>15. Evolves(u)'
  BY <1>1, <1>12 DEF Order, Evolves, Born, Written
<1>16. LastRows(u)'
  BY <1>1, <1>2, <1>12 DEF Order, LastRows
<1>17. InOrder(u)'
  BY <1>1, <1>2, <1>4, <1>12 DEF Order, InOrder
<1>18. OneTask(u)'
  BY <1>1, <1>2, <1>12 DEF Order, OneTask
<1> QED BY <1>13, <1>14, <1>15, <1>16, <1>17, <1>18 DEF Good

(* The variables of s are all that changes, apart from the table.          *)
Moves(s) ==
  /\ by' = by \/ by' = [by EXCEPT ![s] = by'[s]]
  /\ call' = call \/ call' = [call EXCEPT ![s] = call'[s]]
  /\ at' = at \/ at' = [at EXCEPT ![s] = at'[s]]
  /\ loop' = loop \/ loop' = [loop EXCEPT ![s] = loop'[s]]
  /\ todo' = todo \/ todo' = [todo EXCEPT ![s] = todo'[s]]
  /\ held' = held \/ held' = [held EXCEPT ![s] = held'[s]]
  /\ draft' = draft \/ draft' = [draft EXCEPT ![s] = draft'[s]]

TypesOf(s) ==
  /\ by[s] \in Function
  /\ call[s] \in [op : Function, of : Target]
  /\ at[s] \in Label
  /\ loop[s] \in SUBSET Target
  /\ todo[s] \in SUBSET (Nat \X Lockable)
  /\ held[s] \in SUBSET (Row \cup {EShare})
  /\ draft[s] \in [Row -> Value \cup {"unwritten"}]

LEMMA Names ==
  ASSUME Types, NEW s \in Session
  PROVE  by[s] \in Function /\ call[s].op \in Function /\ at[s] \in Label /\ Of(s) \in Target
BY DEF Types, Of

LEMMA CallTyped ==
  ASSUME NEW f \in Function, NEW x \in Target
  PROVE  [op |-> f, of |-> x] \in [op : Function, of : Target]
OBVIOUS

LEMMA Moved ==
  ASSUME Types, NEW s \in Session, Moves(s), TypesOf(s)', table' \in [Row -> Value]
  PROVE  Types' /\ OnlyMoves(s)
<1>1. by' \in [Session -> Function] /\ \A u \in Session : u # s => by'[u] = by[u]
  BY DEF Types, Moves, TypesOf
<1>2. call' \in [Session -> [op : Function, of : Target]] /\ \A u \in Session : u # s => call'[u] = call[u]
  BY DEF Types, Moves, TypesOf
<1>3. at' \in [Session -> Label] /\ \A u \in Session : u # s => at'[u] = at[u]
  BY DEF Types, Moves, TypesOf
<1>4. loop' \in [Session -> SUBSET Target] /\ \A u \in Session : u # s => loop'[u] = loop[u]
  BY DEF Types, Moves, TypesOf
<1>5. todo' \in [Session -> SUBSET (Nat \X Lockable)] /\ \A u \in Session : u # s => todo'[u] = todo[u]
  BY DEF Types, Moves, TypesOf
<1>6. held' \in [Session -> SUBSET (Row \cup {EShare})] /\ \A u \in Session : u # s => held'[u] = held[u]
  BY DEF Types, Moves, TypesOf
<1>7. /\ draft' \in [Session -> [Row -> Value \cup {"unwritten"}]]
      /\ \A u \in Session : u # s => draft'[u] = draft[u]
  BY DEF Types, Moves, TypesOf
<1> QED BY <1>1, <1>2, <1>3, <1>4, <1>5, <1>6, <1>7 DEF Types, OnlyMoves, Still

LEMMA OneMoves ==
  ASSUME LockInv, NEW s \in Session, OnlyMoves(s), table' = table,
         Types', Exclusive', Calls(s)', Order(s)'
  PROVE  LockInv'
<1>1. \A u \in Session : (Calls(u) /\ Order(u))'
  BY Unmoved DEF OnlyMoves
<1>2. Good(table)'
  BY DEF LockInv
<1> QED BY <1>1, <1>2 DEF LockInv

-----------------------------------------------------------------------------
(* A call that returns, and the other sessions.                            *)

LEMMA Committed ==
  ASSUME LockInv, NEW u \in Session, Asks(u) = {}, Commit(u)
  PROVE  /\ OnlyMoves(u) /\ Reach(u) = held[u]
         /\ \A x \in Row : table'[x] = IF x[1] = "t" /\ table[x] = "none" THEN "none" ELSE Sees(u, x)
         /\ table' \in [Row -> Value]
<1>1. Types
  BY DEF LockInv
<1>2. OnlyMoves(u)
  BY <1>1 DEF Commit, Leave, OnlyMoves, Still, Types
<1>3. Reach(u) = held[u]
  BY <1>1, Asked DEF Reach, Rows
<1>4. \A x \in Row : Sees(u, x) \in Value
  BY <1>1 DEF Sees, Types
<1> QED BY <1>2, <1>3, <1>4 DEF Commit, Value

(* A task that a call changes is no other session's to change.             *)
LEMMA Frozen ==
  ASSUME LockInv, NEW u \in Session, Asks(u) = {}, Commit(u), by[u] # "cleanup_tasks",
         NEW s \in Session, s # u, by[s] # "cleanup_tasks", NEW t \in Task, Touches(u, t)
  PROVE  /\ ~HasActive(s, t) /\ T(t) \notin held[s] /\ ~Touches(s, t)
         /\ T(t) \in Reach(s) => Looking(s, t)
<1>1. Owner(u) /\ Owner(s) /\ Exclusive
  BY DEF LockInv, Order
<1>2. T(t) \in held[u] /\ \A r \in Run : r[1] = t /\ table[R(r)] \in Active => R(r) \in held[u]
  BY <1>1, Committed DEF Owner, Owns
<1>3. ~HasActive(s, t) /\ T(t) \notin held[s]
  BY <1>1, <1>2, RowsDiffer DEF HasActive, Exclusive
<1> QED BY <1>1, <1>3 DEF Owner, Owns

LEMMA Untouched ==
  ASSUME LockInv, NEW u \in Session, Asks(u) = {}, Commit(u), by[u] # "cleanup_tasks",
         NEW r \in Run
  PROVE  /\ table'[R(r)] = Sees(u, R(r)) /\ table'[W(r)] = Sees(u, W(r))
         /\ table'[T(r[1])] \in {"none", Sees(u, T(r[1]))}
         /\ table[T(r[1])] = "none" => table'[T(r[1])] = "none"
         /\ ~Touches(u, r[1]) => table'[T(r[1])] = table[T(r[1])] /\ table'[R(r)] = table[R(r)]
         /\ table'[W(r)] = "row" => table[W(r)] = "row" \/ Touches(u, r[1])
<1>1. r[1] \in Task
  BY RunParts
<1>2. Evolves(u)
  BY DEF LockInv, Order
<1>3. table'[R(r)] = Sees(u, R(r)) /\ table'[W(r)] = Sees(u, W(r))
      /\ table'[T(r[1])] = IF table[T(r[1])] = "none" THEN "none" ELSE Sees(u, T(r[1]))
  BY <1>1, Committed, RowParts
<1> QED BY <1>2, <1>3 DEF Touches, Written, Sees, Evolves

LEMMA Deleted ==
  ASSUME LockInv, NEW u \in Session, Asks(u) = {}, Commit(u), by[u] = "cleanup_tasks"
  PROVE  /\ \A x \in Row : table'[x] \in {"none", table[x]}
         /\ \A x \in Row : table'[x] # table[x] => Written(u, x)
         /\ \A x \in Row : Written(u, x) => x \in held[u] /\ table'[x] = "none"
         /\ \A r \in Run : table[R(r)] \in Active => table'[R(r)] = table[R(r)]
         /\ \A r \in Run : Written(u, R(r)) => Written(u, T(r[1]))
<1>1. CleanupFits(u) /\ call[u].op = "cleanup_tasks"
  BY EmitOp DEF LockInv, Calls
<1>2. \A x \in Row : Written(u, x) => draft[u][x] = "none" /\ x \in held[u]
  <2>1. Rows(u) \subseteq held[u]
    BY Committed DEF Reach
  <2> QED BY <1>1, <2>1, InRows DEF CleanupFits
<1>3. \A x \in Row : /\ table'[x] \in {"none", table[x]}
                     /\ table'[x] # table[x] => Written(u, x)
                     /\ Written(u, x) => table'[x] = "none"
  BY <1>2, Committed DEF Sees, Written
<1>4. \A r \in Run : table[R(r)] \in Active => ~Written(u, R(r))
  BY <1>1, RunParts DEF CleanupFits
<1> QED BY <1>1, <1>2, <1>3, <1>4, RowParts DEF CleanupFits

LEMMA CommitGood ==
  ASSUME LockInv, NEW u \in Session, Asks(u) = {}, Commit(u)
  PROVE  Good(table')
<1>1. Good(table) /\ (by[u] # "cleanup_tasks" => Good(View(u)))
  BY DEF LockInv, Order
<1>2. CASE by[u] # "cleanup_tasks"
  <2>1. \A r \in Run : /\ View(u)[R(r)] = table'[R(r)] /\ View(u)[W(r)] = table'[W(r)]
                       /\ table'[T(r[1])] \in {"none", View(u)[T(r[1])]}
    BY <1>2, Untouched, RowParts, RunParts DEF View
  <2> QED BY <1>1, <1>2, <2>1 DEF Good
<1>3. CASE by[u] = "cleanup_tasks"
  <2>1. \A r \in Run : /\ table'[R(r)] \in {"none", table[R(r)]} /\ table'[W(r)] \in {"none", table[W(r)]}
                       /\ table'[T(r[1])] \in {"none", table[T(r[1])]}
                       /\ table[R(r)] \in Active => table'[R(r)] = table[R(r)]
    BY <1>3, Deleted, RowParts, RunParts
  <2> QED BY <1>1, <2>1 DEF Good, Active
<1> QED BY <1>2, <1>3

(* What s has of the table stays as it is.                                 *)
LEMMA StaysAsItIs ==
  ASSUME LockInv, NEW u \in Session, Asks(u) = {}, Commit(u),
         NEW s \in Session, s # u, by[s] # "cleanup_tasks"
  PROVE  /\ \A r \in Run : R(r) \in held[s] /\ table[R(r)] \in Active => table'[R(r)] = table[R(r)]
         /\ \A t \in Task : T(t) \in held[s] => Sees(s, T(t))' = Sees(s, T(t))
         /\ \A t \in Task : HasActive(s, t) => HasActive(s, t)'
<1>1. Still(s)
  BY Committed DEF OnlyMoves
<1>2. \A r \in Run : R(r) \in held[s] /\ table[R(r)] \in Active => table'[R(r)] = table[R(r)]
  <2> SUFFICES ASSUME NEW r \in Run, R(r) \in held[s], table[R(r)] \in Active
               PROVE  table'[R(r)] = table[R(r)]
    OBVIOUS
  <2>1. CASE by[u] = "cleanup_tasks"
    BY <2>1, Deleted
  <2>2. CASE by[u] # "cleanup_tasks"
    <3>1. HasActive(s, r[1]) /\ r[1] \in Task
      BY RunParts DEF HasActive
    <3>2. ~Touches(u, r[1])
      BY <2>2, <3>1, Frozen
    <3> QED BY <2>2, <3>2, Untouched
  <2> QED BY <2>1, <2>2
<1>3. ASSUME NEW t \in Task, T(t) \in held[s] PROVE Sees(s, T(t))' = Sees(s, T(t))
  <2>1. table'[T(t)] = table[T(t)]
    <3>1. CASE by[u] = "cleanup_tasks"
      <4>1. T(t) \notin held[u]
        BY <1>3, RowsDiffer DEF LockInv, Exclusive
      <4> QED BY <3>1, <4>1, Deleted, RowParts
    <3>2. CASE by[u] # "cleanup_tasks"
      <4>1. ~Touches(u, t)
        BY <1>3, <3>2, Frozen
      <4> QED BY <4>1, Committed, RowParts DEF Touches, Written, Sees
    <3> QED BY <3>1, <3>2
  <2> QED BY <1>1, <2>1 DEF Still, Sees
<1>4. \A t \in Task : HasActive(s, t) => HasActive(s, t)'
  BY <1>1, <1>2 DEF HasActive, Still
<1> QED BY <1>2, <1>3, <1>4

LEMMA CallsElsewhere ==
  ASSUME LockInv, NEW u \in Session, Asks(u) = {}, Commit(u), NEW s \in Session, s # u
  PROVE  Calls(s)'
<1>1. Still(s) /\ Calls(s)
  BY Committed DEF OnlyMoves, LockInv
<1> USE DEF Still
<1>2. /\ Rows(s)' = Rows(s) /\ Reach(s)' = Reach(s) /\ Of(s)' = Of(s)
  BY <1>1 DEF Rows, Reach, Of
<1>3. \A t \in Task : (Touches(s, t) <=> Touches(s, t)')
  BY <1>1 DEF Touches, Written
<1>4. \A t : Looking(s, t) <=> Looking(s, t)'
  BY <1>1, <1>2 DEF Looking
<1>5. /\ by[s] # "cleanup_tasks" => /\ \A r \in Run : R(r) \in held[s] /\ table[R(r)] \in Active
                                         => table'[R(r)] = table[R(r)]
                                    /\ \A t \in Task : T(t) \in held[s] => Sees(s, T(t))' = Sees(s, T(t))
      /\ by[s] = "cleanup_tasks" <=> call[s].op = "cleanup_tasks"
      /\ {"running", "sleeping"} \subseteq Active
  BY StaysAsItIs, EmitOp DEF Active
<1>6. CallFits(s)'
  BY <1>1 DEF Calls, CallFits
<1>7. RunFits(s)'
  BY <1>1, <1>2, <1>3, <1>5, RunParts DEF Calls, RunFits
<1>8. AwaitFits(s)'
  BY <1>1, <1>2 DEF Calls, AwaitFits, Written
<1>9. CancelFits(s)'
  BY <1>1, <1>2, <1>3 DEF Calls, CancelFits
<1>10. EmitFits(s)'
  BY <1>1, <1>2, <1>3, <1>5 DEF Calls, EmitFits
<1>11. ClaimFits(s)'
  <2>1. SUFFICES ASSUME by[s] = "claim_task" PROVE ClaimFits(s)'
    BY <1>1 DEF ClaimFits
  <2>2. ClaimFits(s)
    BY <1>1 DEF Calls
  <2>3. ClaimAt(s)'
    BY <1>1, <1>2, <2>1, <2>2 DEF ClaimFits, ClaimAt
  <2>4. InCancelling(s)'
    BY <1>1, <1>2, <1>4, <1>5, <2>1, <2>2 DEF ClaimFits, InCancelling, Cancelling
  <2>5. InFailing(s)'
    <3>1. call[s].op = "fail_run" /\ at[s] = "start" /\ todo[s] = {} =>
            Of(s) \in Run /\ R(Of(s)) \in held[s]
      BY <1>1 DEF Calls, RunFits, Reach, Rows
    <3> QED BY <1>1, <1>2, <1>5, <2>1, <2>2, <3>1 DEF ClaimFits, InFailing, Failing
  <2> QED BY <2>3, <2>4, <2>5 DEF ClaimFits
<1>12. CleanupFits(s)'
  <2>1. SUFFICES ASSUME call[s].op = "cleanup_tasks", NEW r \in Run, Written(s, R(r))
                 PROVE  /\ table'[R(r)] = "none" => table'[T(r[1])] = "none"
                        /\ \A q \in Run : q[1] = r[1] /\ table'[R(q)] \in Active => r[2] < q[2]
    BY <1>1, <1>2 DEF Calls, CleanupFits, Written
  <2>2. /\ table[R(r)] = "none" => table[T(r[1])] = "none"
        /\ \A q \in Run : q[1] = r[1] /\ table[R(q)] \in Active => r[2] < q[2]
    BY <1>1, <2>1 DEF Calls, CleanupFits
  <2>3. CASE by[u] = "cleanup_tasks"
    BY <2>2, <2>3, Deleted, RowParts, RunParts DEF Active
  <2>4. CASE by[u] # "cleanup_tasks"
    <3>1. Evolves(u)
      BY <2>4 DEF LockInv, Order
    <3>2. table'[R(r)] = "none" => table'[T(r[1])] = "none"
      BY <2>2, <2>4, <3>1, Untouched DEF Evolves, Sees
    <3>3. ASSUME NEW q \in Run, q[1] = r[1], table'[R(q)] \in Active PROVE r[2] < q[2]
      <4>1. CASE table[R(q)] \in Active
        BY <2>2, <3>3, <4>1
      <4>2. CASE table[R(q)] \notin Active
        <5>1. draft[u][R(q)] \in Active
          BY <2>4, <3>3, <4>2, Untouched DEF Sees
        <5>2. Born(q)
          BY <3>1, <4>2, <5>1 DEF Evolves
        <5>3. ASSUME NEW o \in Run, o[1] = q[1], o[2] < q[2], table[R(o)] \in Active PROVE r[2] < q[2]
          <6>1. r[2] < o[2] /\ r[2] \in Nat /\ o[2] \in Nat /\ q[2] \in Nat
            BY <2>2, <3>3, <5>3, RunParts
          <6> QED BY <5>3, <6>1
        <5>4. ASSUME table[T(q[1])] = "failed",
                     \A o \in Run : o[1] = q[1] => (table[R(o)] = "none" <=> o[2] >= q[2])
              PROVE  r[2] < q[2]
          <6>1. r[2] \in Nat /\ q[2] \in Nat /\ table[R(r)] # "none"
            BY <2>2, <3>3, <5>4, RunParts
          <6> QED BY <3>3, <5>4, <6>1
        <5> QED BY <5>2, <5>3, <5>4 DEF Born
      <4> QED BY <4>1, <4>2
    <3> QED BY <3>2, <3>3
  <2> QED BY <2>3, <2>4
<1> QED BY <1>6, <1>7, <1>8, <1>9, <1>10, <1>11, <1>12 DEF Calls

LEMMA OrderElsewhere ==
  ASSUME LockInv, NEW u \in Session, Asks(u) = {}, Commit(u), NEW s \in Session, s # u
  PROVE  Order(s)'
<1>1. Still(s) /\ Types
  BY Committed DEF OnlyMoves, LockInv
<1> USE DEF Still
<1>2. SUFFICES ASSUME by[s] # "cleanup_tasks"
               PROVE  (Good(View(s)) /\ Owner(s) /\ Evolves(s) /\ LastRows(s) /\ InOrder(s) /\ OneTask(s))'
  BY <1>1 DEF Order
<1>3. Good(View(s)) /\ Owner(s) /\ Evolves(s) /\ LastRows(s) /\ InOrder(s) /\ OneTask(s)
  BY <1>2 DEF LockInv, Order
<1>4. /\ Rows(s)' = Rows(s) /\ Reach(s)' = Reach(s) /\ Of(s)' = Of(s) /\ Missing(s)' = Missing(s)
  BY <1>1 DEF Rows, Reach, Of, Missing
<1>5. \A t \in Task : (Touches(s, t) <=> Touches(s, t)')
  BY <1>1 DEF Touches, Written
<1>6. \A t : Looking(s, t) <=> Looking(s, t)'
  BY <1>1, <1>4 DEF Looking
<1>7. \A t \in Task : HasActive(s, t) => HasActive(s, t)'
  BY <1>2, StaysAsItIs
<1>8. Good(table) /\ Good(table') /\ Exclusive
  BY CommitGood DEF LockInv
<1>9. Good(View(s)')
  <2> DEFINE v == View(s) w == View(s)'
  <2>1. \A r \in Run : /\ v[R(r)] = Sees(s, R(r)) /\ v[W(r)] = Sees(s, W(r)) /\ v[T(r[1])] = Sees(s, T(r[1]))
                       /\ w[R(r)] = Sees(s, R(r))' /\ w[W(r)] = Sees(s, W(r))' /\ w[T(r[1])] = Sees(s, T(r[1]))'
    BY RowParts, RunParts DEF View
  <2>2. CASE by[u] = "cleanup_tasks"
    <3>1. \A x \in Row : Sees(s, x)' \in {"none", Sees(s, x)}
      BY <1>1, <2>2, Deleted DEF Sees
    <3>2. \A r \in Run : Sees(s, R(r)) \in Active => Sees(s, R(r))' = Sees(s, R(r))
      BY <1>1, <2>2, Deleted DEF Sees
    <3>3. \A r \in Run : /\ w[R(r)] \in {"none", v[R(r)]} /\ w[W(r)] \in {"none", v[W(r)]}
                         /\ w[T(r[1])] \in {"none", v[T(r[1])]}
                         /\ v[R(r)] \in Active => w[R(r)] = v[R(r)]
      BY <2>1, <3>1, <3>2, RowParts, RunParts
    <3> HIDE DEF v, w
    <3> QED BY <1>3, <3>3 DEF Good, Active, v, w
  <2>3. CASE by[u] # "cleanup_tasks"
    <3>1. ASSUME NEW r \in Run, Touches(s, r[1])
          PROVE  /\ w[R(r)] = v[R(r)] /\ w[T(r[1])] = v[T(r[1])]
                 /\ w[W(r)] = "row" => v[W(r)] = "row"
      <4>1. ~Touches(u, r[1]) /\ r[1] \in Task
        BY <1>2, <2>3, <3>1, Frozen, RunParts
      <4>2. /\ table'[T(r[1])] = table[T(r[1])] /\ table'[R(r)] = table[R(r)]
            /\ table'[W(r)] = "row" => table[W(r)] = "row"
        BY <2>3, <4>1, Untouched
      <4> QED BY <1>1, <2>1, <4>2 DEF Sees
    <3>2. ASSUME NEW r \in Run, ~Touches(s, r[1])
          PROVE  /\ w[R(r)] = table'[R(r)] /\ w[T(r[1])] = table'[T(r[1])]
                 /\ w[W(r)] = "row" => table'[W(r)] = "row"
      <4>1. ~Written(s, R(r)) /\ ~Written(s, T(r[1])) /\ draft[s][W(r)] # "row"
        BY <1>3, <3>2 DEF Touches, Evolves
      <4> QED BY <1>1, <2>1, <4>1 DEF Sees, Written
    <3> HIDE DEF v, w
    <3>3. Good(v)
      BY <1>3 DEF v
    <3>4. \A r, q \in Run : r[1] = q[1] /\ w[R(r)] \in Active /\ w[R(q)] \in Active => r = q
      BY <1>8, <3>1, <3>2, <3>3 DEF Good
    <3>5. \A r \in Run : w[R(r)] \in Active => w[T(r[1])] \notin {"failed", "ended"}
      BY <1>8, <3>1, <3>2, <3>3 DEF Good
    <3>6. \A r \in Run : w[W(r)] = "row" => w[R(r)] = "sleeping"
      BY <1>8, <3>1, <3>2, <3>3 DEF Good
    <3>7. \A r, q \in Run : r[1] = q[1] /\ w[R(r)] \in Active /\ r[2] < q[2] => w[R(q)] = "none"
      BY <1>8, <3>1, <3>2, <3>3 DEF Good
    <3> QED BY <3>4, <3>5, <3>6, <3>7 DEF Good, w
  <2> QED BY <2>2, <2>3
<1>10. Owner(s)'
  <2> SUFFICES ASSUME NEW t \in Task, T(t) \in Reach(s), ~Looking(s, t)
               PROVE  /\ T(t) \in held[s] \/ HasActive(s, t)'
                      /\ \A r \in Run : r[1] = t /\ table'[R(r)] \in Active => R(r) \in Reach(s)
    BY <1>1, <1>3, <1>4, <1>5, <1>6 DEF Owner, Owns
  <2>1. /\ T(t) \in held[s] \/ HasActive(s, t)
        /\ \A r \in Run : r[1] = t /\ table[R(r)] \in Active => R(r) \in Reach(s)
    BY <1>3 DEF Owner, Owns
  <2>2. \A r \in Run : r[1] = t /\ table'[R(r)] \in Active => table[R(r)] \in Active
    <3>1. CASE by[u] = "cleanup_tasks"
      BY <3>1, Deleted, RowParts DEF Active
    <3>2. CASE by[u] # "cleanup_tasks"
      <4>1. ~Touches(u, t)
        BY <1>2, <3>2, Frozen
      <4> QED BY <3>2, <4>1, Untouched
    <3> QED BY <3>1, <3>2
  <2> QED BY <1>7, <2>1, <2>2
<1>11. Evolves(s)'
  <2> SUFFICES ASSUME NEW r \in Run, draft[s][R(r)] \in Active
               PROVE  table'[R(r)] \in Active \/ (table'[R(r)] = "none" /\ Born(r)')
    BY <1>1, <1>3 DEF Evolves, Written
  <2>1. table[R(r)] \in Active \/ (table[R(r)] = "none" /\ Born(r))
    BY <1>3 DEF Evolves
  <2>2. Touches(s, r[1]) /\ r[1] \in Task
    BY RunParts DEF Touches, Written, Active
  <2>3. CASE by[u] # "cleanup_tasks"
    <3>1. ~Touches(u, r[1])
      BY <1>2, <2>2, <2>3, Frozen
    <3>2. /\ table'[T(r[1])] = table[T(r[1])] /\ table'[R(r)] = table[R(r)]
          /\ \A q \in Run : q[1] = r[1] => table'[R(q)] = table[R(q)]
      BY <2>3, <3>1, Untouched
    <3> QED BY <2>1, <3>2 DEF Born
  <2>4. CASE by[u] = "cleanup_tasks"
    <3>1. CASE table[R(r)] \in Active
      BY <2>4, <3>1, Deleted
    <3>2. ASSUME table[R(r)] = "none", NEW q \in Run, q[1] = r[1], q[2] < r[2], table[R(q)] \in Active
          PROVE  table'[R(r)] = "none" /\ Born(r)'
      <4>1. table'[R(r)] = "none" /\ table'[R(q)] \in Active
        BY <2>4, <3>2, Deleted, RowParts
      <4> QED BY <3>2, <4>1 DEF Born
    <3>3. ASSUME table[R(r)] = "none", table[T(r[1])] = "failed",
                 \A q \in Run : q[1] = r[1] => (table[R(q)] = "none" <=> q[2] >= r[2])
          PROVE  table'[R(r)] = "none" /\ Born(r)'
      <4>1. T(r[1]) \in Reach(s) /\ ~Looking(s, r[1])
        BY <1>3, <2>2 DEF Owner, Owns
      <4>2. T(r[1]) \in held[s]
        <5>1. ~HasActive(s, r[1])
          BY <1>8, <3>3 DEF HasActive, Good
        <5> QED BY <1>3, <2>2, <4>1, <5>1 DEF Owner, Owns
      <4>3. T(r[1]) \notin held[u]
        BY <1>8, <4>2, <2>2, RowsDiffer DEF Exclusive
      <4>4. ~Written(u, T(r[1])) /\ \A q \in Run : q[1] = r[1] => ~Written(u, R(q))
        BY <2>2, <2>4, <4>3, Deleted, RowParts
      <4>5. /\ table'[T(r[1])] = table[T(r[1])] /\ table'[R(r)] = table[R(r)]
            /\ \A q \in Run : q[1] = r[1] => table'[R(q)] = table[R(q)]
        BY <2>2, <2>4, <4>4, Deleted, RowParts
      <4> QED BY <3>3, <4>5 DEF Born
    <3> QED BY <2>1, <3>1, <3>2, <3>3 DEF Born
  <2> QED BY <2>3, <2>4
<1>12. LastRows(s)'
  BY <1>1, <1>3, <1>4 DEF LastRows
<1>13. InOrder(s)'
  BY <1>1, <1>3, <1>4, <1>7 DEF InOrder
<1>14. OneTask(s)'
  BY <1>1, <1>3, <1>4 DEF OneTask
<1> QED BY <1>9, <1>10, <1>11, <1>12, <1>13, <1>14 DEF Good

LEMMA Left ==
  ASSUME LockInv, NEW s \in Session, Leave(s), table' \in [Row -> Value], Good(table')
  PROVE  Types' /\ Exclusive' /\ Calls(s)' /\ Order(s)'
<1>1. Types /\ Exclusive
  BY DEF LockInv
<1>2. Types'
  <2>1. Nothing \in [Row -> Value \cup {"unwritten"}]
    BY DEF Nothing
  <2>2. <<0, 0>> \in Target /\ "done" \in Function /\ "start" \in Label
    BY LockAssumption DEF Target, Function, Label
  <2> DEFINE gone == [op |-> "done", of |-> <<0, 0>>]
  <2>3. gone \in [op : Function, of : Target]
    BY <2>2, CallTyped
  <2> HIDE DEF gone
  <2>4. call' = [call EXCEPT ![s] = gone]
    BY DEF Leave, gone
  <2>5. /\ by'[s] = "done" /\ call'[s] = gone /\ at'[s] = "start"
        /\ loop'[s] = {} /\ todo'[s] = {} /\ held'[s] = {} /\ draft'[s] = Nothing
    BY <1>1, <2>4 DEF Types, Leave
  <2>6. TypesOf(s)'
    BY <2>1, <2>2, <2>3, <2>5 DEF TypesOf, Function
  <2>7. Moves(s)
    BY <2>4, <2>5 DEF Leave, Moves
  <2> QED BY <1>1, <2>6, <2>7, Moved
<1>3. /\ by'[s] = "done" /\ call'[s].op = "done" /\ at'[s] = "start"
      /\ loop'[s] = {} /\ todo'[s] = {} /\ held'[s] = {} /\ draft'[s] = Nothing
  BY <1>1 DEF Types, Leave
<1>4. Exclusive'
  <2>1. \A u \in Session : held'[u] \subseteq held[u]
    BY <1>1 DEF Types, Leave
  <2> QED BY <1>1, <2>1 DEF Exclusive
<1>5. Calls(s)'
  BY <1>3 DEF Calls, CallFits, RunFits, AwaitFits, CancelFits, EmitFits, ClaimFits, CleanupFits
<1>6. \A x \in Row : Sees(s, x)' = table'[x] /\ ~Written(s, x)'
  BY <1>3 DEF Sees, Written, Nothing
<1>7. Good(View(s)')
  <2>1. View(s)' = [x \in Row |-> table'[x]]
    BY <1>6 DEF View
  <2>2. View(s)' = table'
    BY <2>1
  <2> QED BY <2>2
<1>8. Owner(s)' /\ Evolves(s)'
  <2>1. \A t \in Task : ~Touches(s, t)' /\ T(t) \notin Reach(s)'
    BY <1>3, <1>6, RowParts DEF Touches, Reach, Rows
  <2>2. \A r \in Run : draft'[s][R(r)] = "unwritten" /\ draft'[s][W(r)] = "unwritten"
    BY <1>3, RowParts DEF Nothing
  <2> QED BY <2>1, <2>2 DEF Owner, Owns, Evolves, Active
<1>9. LastRows(s)' /\ InOrder(s)' /\ OneTask(s)'
  BY <1>3 DEF LastRows, InOrder, OneTask
<1> QED BY <1>2, <1>4, <1>5, <1>7, <1>8, <1>9 DEF Order, Good

LEMMA CommitKeeps ==
  ASSUME LockInv, NEW s \in Session, Asks(s) = {}, Commit(s)
  PROVE  LockInv'
<1>1. Leave(s) /\ table' \in [Row -> Value] /\ Good(table')
  BY CommitGood, Committed DEF Commit
<1>2. Types' /\ Exclusive' /\ Calls(s)' /\ Order(s)'
  BY <1>1, Left
<1>3. \A u \in Session : (Calls(u) /\ Order(u))'
  BY <1>2, CallsElsewhere, OrderElsewhere
<1> QED BY <1>1, <1>2, <1>3 DEF LockInv, Good

LEMMA RaiseKeeps ==
  ASSUME LockInv, NEW s \in Session, Raise(s)
  PROVE  LockInv'
<1>1. Leave(s) /\ table' = table /\ Types /\ Good(table')
  BY DEF Raise, LockInv, Good
<1>2. OnlyMoves(s)
  BY <1>1 DEF Leave, OnlyMoves, Still, Types
<1>3. Types' /\ Exclusive' /\ Calls(s)' /\ Order(s)'
  BY <1>1, Left DEF Types
<1> QED BY <1>1, <1>2, <1>3, OneMoves

-----------------------------------------------------------------------------
(* What a session asks for.                                                *)

(* Who waits for a wait has its task.                                      *)
LEMMA AskWait ==
  ASSUME LockInv, NEW s \in Session, by[s] \notin {"emit_event", "cleanup_tasks"}, NEW r \in Run, W(r) \in Asks(s)
  PROVE  T(r[1]) \in held[s]
<1>1. Types /\ Calls(s) /\ r[1] \in Task
  BY RunParts DEF LockInv
<1>2. PICK p \in Missing(s) : p[2] = W(r) /\ \A q \in Missing(s) : p[1] <= q[1]
  BY <1>1, Asked
<1>3. p \in todo[s] /\ Missing(s) \subseteq todo[s]
  BY <1>2 DEF Missing
<1>4. CASE call[s].op \in {"complete_run", "schedule_run"}
  <2>1. at[s] # "start"
    BY <1>1, <1>2, <1>3, <1>4, RowsDiffer DEF Calls, RunFits, Nth
  <2>2. Of(s) \in Run /\ T(Of(s)[1]) \in Rows(s) /\ todo[s] \subseteq Nth(1, {T(Of(s)[1])}) \cup Nth(2, {W(Of(s))})
    BY <1>1, <1>4, <2>1 DEF Calls, RunFits
  <2>3. Of(s)[1] \in Task
    BY <2>2, RunParts
  <2>4. p[1] = 2 /\ W(r) = W(Of(s))
    BY <1>2, <1>3, <2>2, <2>3, RowsDiffer DEF Nth
  <2>5. r = Of(s)
    BY <2>2, <2>4, RowsDiffer
  <2>6. PICK q \in todo[s] : q[2] = T(r[1])
    BY <2>2, <2>5 DEF Rows
  <2>7. q[1] = 1
    BY <1>1, <2>2, <2>5, <2>6, RowsDiffer DEF Nth
  <2>8. q \notin Missing(s)
    BY <1>2, <2>4, <2>7
  <2> QED BY <2>6, <2>8 DEF Missing
<1>5. CASE call[s].op = "fail_run"
  <2>1. Of(s) \in Run /\ Of(s)[1] \in Task
    BY <1>1, <1>5, RunParts DEF Calls, RunFits
  <2>2. at[s] = "end"
    BY <1>1, <1>2, <1>3, <1>5, <2>1, RowsDiffer DEF Calls, RunFits, Nth
  <2>3. T(Of(s)[1]) \in held[s] /\ todo[s] \subseteq Nth(1, {W(Of(s))})
    BY <1>1, <1>5, <2>2 DEF Calls, RunFits
  <2> QED BY <1>2, <1>3, <2>1, <2>3, RowsDiffer DEF Nth
<1>6. CASE call[s].op \in {"extend_claim", "set_task_checkpoint_state", "await_event"}
  <2>1. Of(s) \in Run /\ Of(s)[1] \in Task
    BY <1>1, <1>6, RunParts DEF Calls, AwaitFits
  <2>2. call[s].op = "await_event" /\ at[s] = "end"
    BY <1>1, <1>2, <1>3, <1>6, <2>1, RowsDiffer DEF Calls, AwaitFits, Nth
  <2>3. T(Of(s)[1]) \in held[s] /\ (todo[s] \subseteq Nth(1, {W(Of(s))}) \/ todo[s] = Nth(1, {C(Of(s)[1])}))
    BY <1>1, <2>2 DEF Calls, AwaitFits
  <2> QED BY <1>2, <1>3, <2>1, <2>3, RowsDiffer DEF Nth
<1>7. CASE call[s].op \in {"cancel_task", "retry_task"}
  <2>1. Of(s)[1] \in Task
    BY <1>1, <1>7 DEF Calls, CancelFits
  <2>2. call[s].op = "cancel_task" /\ at[s] = "end"
    BY <1>1, <1>2, <1>3, <1>7, <2>1, RowsDiffer DEF Calls, CancelFits, Nth
  <2>3. PICK q \in Run : q[1] = Of(s)[1] /\ p \in {<<1, R(q)>>, <<2, W(q)>>}
    BY <1>1, <1>3, <2>2 DEF Calls, CancelFits
  <2>4. q = r
    BY <1>2, <2>3, RowsDiffer
  <2> QED BY <1>1, <2>2, <2>3, <2>4 DEF Calls, CancelFits
<1>9. CASE call[s].op = "claim_task"
  <2>1. by[s] = "claim_task"
    BY <1>1, <1>9 DEF Calls, CallFits
  <2>2. PICK q \in Run : p = <<1, W(q)>> /\ T(q[1]) \in held[s]
    BY <1>1, <1>3, <1>9, <2>1 DEF Calls, ClaimFits, ClaimAt
  <2> QED BY <1>2, <2>2, RowsDiffer
<1>10. CASE call[s].op \in {"idle", "done", "cleanup_events"}
  BY <1>1, <1>2, <1>3, <1>10, RowsDiffer DEF Calls, CallFits, CleanupFits, Nth
<1>11. call[s].op \notin {"emit_event", "cleanup_tasks"}
  BY EmitOp
<1> QED BY <1>1, <1>4, <1>5, <1>6, <1>7, <1>9, <1>10, <1>11, Names DEF Function

(* A checkpoint is locked by the last statement of a call.                 *)
LEMMA AskCheckpoint ==
  ASSUME LockInv, NEW s \in Session, by[s] \notin {"emit_event", "cleanup_tasks"},
         NEW t \in Task, C(t) \in Asks(s)
  PROVE  call[s].op \in {"await_event", "set_task_checkpoint_state"} /\ at[s] = "end"
<1>1. Types /\ Calls(s)
  BY DEF LockInv
<1>2. PICK p \in todo[s] : p[2] = C(t)
  BY <1>1, Asked DEF Rows
<1>3. CASE call[s].op \in {"complete_run", "schedule_run", "fail_run"}
  <2>1. Of(s) \in Run /\ Of(s)[1] \in Task
    BY <1>1, <1>3, RunParts DEF Calls, RunFits
  <2> QED BY <1>1, <1>2, <1>3, <2>1, RowsDiffer DEF Calls, RunFits, Nth
<1>4. CASE call[s].op \in {"extend_claim", "set_task_checkpoint_state", "await_event"}
  <2>1. Of(s) \in Run /\ Of(s)[1] \in Task
    BY <1>1, <1>4, RunParts DEF Calls, AwaitFits
  <2> QED BY <1>1, <1>2, <1>4, <2>1, RowsDiffer DEF Calls, AwaitFits, Nth
<1>5. CASE call[s].op \in {"cancel_task", "retry_task"}
  BY <1>1, <1>2, <1>5, RowsDiffer DEF Calls, CancelFits, Nth
<1>6. CASE call[s].op = "claim_task"
  BY <1>1, <1>2, <1>6, RowsDiffer DEF Calls, CallFits, ClaimFits, ClaimAt
<1>7. CASE call[s].op \in {"idle", "done", "cleanup_events"}
  BY <1>1, <1>2, <1>7, RowsDiffer DEF Calls, CallFits, CleanupFits, Nth
<1>8. call[s].op \notin {"emit_event", "cleanup_tasks"}
  BY EmitOp
<1> QED BY <1>1, <1>3, <1>4, <1>5, <1>6, <1>7, <1>8, Names DEF Function

(* The rows of a statement are listed in order.                            *)
LEMMA TodoOrder ==
  ASSUME LockInv, NEW s \in Session, by[s] \notin {"emit_event", "cleanup_tasks"},
         ~(call[s].op = "cancel_task" /\ at[s] = "end"),
         NEW p \in todo[s], NEW q \in todo[s], q[1] <= p[1], q[2] # p[2]
  PROVE  p[2][1] \in {"w", "c"} \/ Before(q[2], p[2])
<1>1. Types /\ Calls(s)
  BY DEF LockInv
<1>2. SUFFICES ASSUME p[2][1] \notin {"w", "c"} PROVE Before(q[2], p[2])
  OBVIOUS
<1>3. CASE call[s].op \in {"complete_run", "schedule_run", "fail_run"}
  <2>1. Of(s) \in Run /\ Of(s)[1] \in Task
    BY <1>1, <1>3, RunParts DEF Calls, RunFits
  <2>2. \/ todo[s] \subseteq Nth(1, {T(Of(s)[1])}) \cup Nth(2, {W(Of(s))})
        \/ todo[s] \subseteq Nth(1, {R(Of(s))})
    BY <1>1, <1>3 DEF Calls, RunFits, Nth
  <2> QED BY <1>2, <2>1, <2>2, RowParts DEF Nth
<1>4. CASE call[s].op \in {"extend_claim", "set_task_checkpoint_state", "await_event"}
  <2>1. Of(s) \in Run /\ Of(s)[1] \in Task
    BY <1>1, <1>4, RunParts DEF Calls, AwaitFits
  <2>2. \/ todo[s] = Nth(1, {R(Of(s))}) \cup Nth(2, {T(Of(s)[1])})
        \/ todo[s] \subseteq Nth(1, {R(Of(s))}) \cup Nth(2, {C(Of(s)[1])})
        \/ todo[s] \subseteq Nth(1, {EInsert})
        \/ todo[s] \subseteq Nth(1, {EShare})
        \/ todo[s] \subseteq Nth(1, {W(Of(s))})
        \/ todo[s] \subseteq Nth(1, {C(Of(s)[1])})
    BY <1>1, <1>4 DEF Calls, AwaitFits
  <2>3. Before(R(Of(s)), T(Of(s)[1]))
    BY <2>1, Places, RowParts, RunParts, LockAssumption DEF Before
  <2> QED BY <1>2, <2>1, <2>2, <2>3, RowParts DEF Nth
<1>5. CASE call[s].op \in {"cancel_task", "retry_task"}
  <2>1. Of(s)[1] \in Task
    BY <1>1, <1>5 DEF Calls, CancelFits
  <2>2. CASE call[s].op = "retry_task"
    BY <1>1, <2>2 DEF Calls, CancelFits, Nth
  <2>3. CASE call[s].op = "cancel_task"
    <3> DEFINE top == <<MaxRuns + 1, T(Of(s)[1])>>
    <3>1. \A o \in todo[s] : o = top \/ \E r \in Run : r[1] = Of(s)[1] /\ o = <<r[2], R(r)>>
      BY <1>1, <2>3 DEF Calls, CancelFits
    <3>2. CASE p = top
      <4>1. PICK r \in Run : r[1] = Of(s)[1] /\ q = <<r[2], R(r)>>
        BY <3>1, <3>2
      <4> QED BY <2>1, <3>2, <4>1, Places, RowParts, RunParts, LockAssumption DEF Before
    <3>3. CASE \E r \in Run : r[1] = Of(s)[1] /\ p = <<r[2], R(r)>>
      <4>1. PICK r \in Run : r[1] = Of(s)[1] /\ p = <<r[2], R(r)>>
        BY <3>3
      <4>2. q # top
        BY <4>1, RunParts, LockAssumption
      <4>3. PICK o \in Run : o[1] = Of(s)[1] /\ q = <<o[2], R(o)>>
        BY <3>1, <4>2
      <4>4. o # r /\ o[2] <= r[2]
        BY <4>1, <4>3
      <4>5. o[2] < r[2]
        BY <4>1, <4>3, <4>4, RunParts
      <4> QED BY <4>1, <4>3, <4>5, Places, RowParts DEF Before
    <3> QED BY <3>1, <3>2, <3>3
  <2> QED BY <1>5, <2>2, <2>3
<1>6. CASE call[s].op = "claim_task"
  <2>1. \E r \in Run : p = <<1, W(r)>>
    BY <1>1, <1>6 DEF Calls, CallFits, ClaimFits, ClaimAt
  <2> QED BY <1>2, <2>1, RowParts
<1>7. CASE call[s].op \in {"idle", "done", "cleanup_events"}
  BY <1>1, <1>7 DEF Calls, CallFits, CleanupFits, Nth
<1>8. call[s].op \notin {"emit_event", "cleanup_tasks"}
  BY EmitOp
<1> QED BY <1>1, <1>3, <1>4, <1>5, <1>6, <1>7, <1>8, Names DEF Function

(* A call about one task, or an event, locks rows of that task only.       *)
LEMMA AskOne ==
  ASSUME LockInv, NEW s \in Session, by[s] \notin {"claim_task", "emit_event", "cleanup_tasks"},
         NEW x \in Asks(s)
  PROVE  x[2] \in {0, Of(s)[1]}
<1>1. Types /\ Calls(s)
  BY DEF LockInv
<1>2. PICK p \in todo[s] : p[2] = x
  BY <1>1, Asked DEF Rows
<1>3. /\ call[s].op = by[s]
      /\ by[s] \in {"idle", "done", "complete_run", "schedule_run", "fail_run", "extend_claim",
           "await_event", "set_task_checkpoint_state", "cancel_task", "retry_task", "cleanup_events"}
  BY <1>1, Names DEF Calls, CallFits, Function
<1>4. CASE by[s] \in {"complete_run", "schedule_run", "fail_run"}
  <2>1. Of(s) \in Run /\ Of(s)[1] \in Task
    BY <1>1, <1>3, <1>4, RunParts DEF Calls, RunFits
  <2>2. x \in {R(Of(s)), T(Of(s)[1]), W(Of(s))}
    BY <1>1, <1>2, <1>3, <1>4 DEF Calls, RunFits, Nth
  <2> QED BY <2>1, <2>2, RowParts
<1>5. CASE by[s] \in {"extend_claim", "set_task_checkpoint_state", "await_event"}
  <2>1. Of(s) \in Run /\ Of(s)[1] \in Task
    BY <1>1, <1>3, <1>5, RunParts DEF Calls, AwaitFits
  <2>2. x \in {R(Of(s)), T(Of(s)[1]), W(Of(s)), C(Of(s)[1]), EShare, EInsert}
    BY <1>1, <1>2, <1>3, <1>5 DEF Calls, AwaitFits, Nth
  <2> QED BY <2>1, <2>2, RowParts
<1>6. CASE by[s] \in {"cancel_task", "retry_task"}
  <2>1. Of(s)[1] \in Task
    BY <1>1, <1>3, <1>6 DEF Calls, CancelFits
  <2>2. x = T(Of(s)[1]) \/ \E r \in Run : r[1] = Of(s)[1] /\ x \in {R(r), W(r)}
    BY <1>1, <1>2, <1>3, <1>6 DEF Calls, CancelFits, Nth
  <2> QED BY <2>1, <2>2, RowParts
<1>7. CASE by[s] \in {"idle", "done", "cleanup_events"}
  BY <1>1, <1>2, <1>3, <1>7, RowParts DEF Calls, CallFits, CleanupFits, Nth
<1> QED BY <1>3, <1>4, <1>5, <1>6, <1>7

-----------------------------------------------------------------------------
(* The beginning, and a row that is locked.                                *)

LEMMA Beginning ==
  ASSUME Init
  PROVE  LockInv
<1>1. PICK first \in [Task -> Active \cup {"failed", "ended"}], waits \in SUBSET Task, e \in {"none", "sentinel"} :
         table = [x \in Row |->
              CASE x[1] = "e" -> e
                [] x[1] = "c" -> "row"
                [] x[1] = "t" -> TaskOf(first[x[2]])
                [] x[1] = "r" -> IF x[3] = 1 THEN first[x[2]] ELSE "none"
                [] x[1] = "w" -> IF x[3] = 1 /\ x[2] \in waits /\ first[x[2]] = "sleeping"
                                 THEN "row" ELSE "none"]
  BY DEF Init
<1>2. /\ \A r \in Run : table[R(r)] = IF r[2] = 1 THEN first[r[1]] ELSE "none"
      /\ \A r \in Run : table[W(r)] = IF r[2] = 1 /\ r[1] \in waits /\ first[r[1]] = "sleeping"
                                      THEN "row" ELSE "none"
      /\ \A t \in Task : table[T(t)] = TaskOf(first[t]) /\ table[C(t)] = "row"
      /\ table[E] = e
  <2>1. \A r \in Run : table[R(r)] = IF r[2] = 1 THEN first[r[1]] ELSE "none"
    BY <1>1, RowParts
  <2>2. \A r \in Run : table[W(r)] = IF r[2] = 1 /\ r[1] \in waits /\ first[r[1]] = "sleeping"
                                     THEN "row" ELSE "none"
    BY <1>1, RowParts
  <2>3. \A t \in Task : table[T(t)] = TaskOf(first[t]) /\ table[C(t)] = "row"
    BY <1>1, RowParts
  <2>4. table[E] = e
    BY <1>1, RowParts
  <2> QED BY <2>1, <2>2, <2>3, <2>4
<1>3. table \in [Row -> Value]
  <2>1. ASSUME NEW x \in Row PROVE table[x] \in Value
    <3>1. CASE \E r \in Run : x \in {R(r), W(r)}
      BY <1>2, <3>1, RunParts DEF Value
    <3>2. CASE \E t \in Task : x \in {T(t), C(t)}
      BY <1>2, <3>2 DEF Value, TaskOf
    <3>3. CASE x = E
      BY <1>2, <3>3 DEF Value
    <3> QED BY <3>1, <3>2, <3>3, Kinds
  <2> QED BY <1>1, <2>1
<1>4. \A s \in Session : /\ by[s] = "idle" /\ call[s].op = "idle" /\ at[s] = "start" /\ loop[s] = {}
                         /\ todo[s] = {} /\ held[s] = {} /\ draft[s] = Nothing
  BY DEF Init
<1>5. Types
  <2>1. Nothing \in [Row -> Value \cup {"unwritten"}]
    BY DEF Nothing
  <2>2. <<0, 0>> \in Target /\ "idle" \in Function /\ "start" \in Label
    BY LockAssumption DEF Target, Function, Label
  <2> DEFINE rest == [op |-> "idle", of |-> <<0, 0>>]
  <2>3. rest \in [op : Function, of : Target]
    BY <2>2, CallTyped
  <2> HIDE DEF rest
  <2>4. call = [s \in Session |-> rest]
    BY DEF Init, rest
  <2>5. call \in [Session -> [op : Function, of : Target]]
    BY <2>3, <2>4
  <2>6. by \in [Session -> Function] /\ at \in [Session -> Label]
    BY <2>2 DEF Init
  <2>7. /\ loop \in [Session -> SUBSET Target] /\ todo \in [Session -> SUBSET (Nat \X Lockable)]
        /\ held \in [Session -> SUBSET (Row \cup {EShare})]
    BY DEF Init
  <2>8. draft \in [Session -> [Row -> Value \cup {"unwritten"}]]
    BY <2>1 DEF Init
  <2> QED BY <1>3, <2>5, <2>6, <2>7, <2>8 DEF Types
<1>6. Exclusive
  BY <1>4 DEF Exclusive
<1>7. Good(table)
  <2>1. \A r \in Run : table[R(r)] \in Active => r[2] = 1 /\ r[1] \in Task /\ r = <<r[1], 1>> /\ first[r[1]] \in Active
    BY <1>2, RunParts DEF Active
  <2>2. \A r \in Run : table[R(r)] \in Active => table[T(r[1])] \notin {"failed", "ended"}
    BY <1>2, <2>1 DEF TaskOf, Active
  <2>3. \A r \in Run : table[W(r)] = "row" => table[R(r)] = "sleeping"
    BY <1>2
  <2>4. \A r, q \in Run : r[1] = q[1] /\ table[R(r)] \in Active /\ r[2] < q[2] => table[R(q)] = "none"
    BY <1>2, <2>1
  <2>5. \A r, q \in Run : r[1] = q[1] /\ table[R(r)] \in Active /\ table[R(q)] \in Active => r = q
    BY <2>1
  <2> QED BY <2>2, <2>3, <2>4, <2>5 DEF Good
<1>8. ASSUME NEW s \in Session PROVE Calls(s) /\ Order(s)
  <2>1. Calls(s)
    BY <1>4 DEF Calls, CallFits, RunFits, AwaitFits, CancelFits, EmitFits, ClaimFits, CleanupFits
  <2>2. \A x \in Row : Sees(s, x) = table[x] /\ ~Written(s, x)
    BY <1>4 DEF Sees, Written, Nothing
  <2>3. Good(View(s))
    <3>1. View(s) = [x \in Row |-> table[x]]
      BY <2>2 DEF View
    <3>2. View(s) = table
      BY <1>3, <3>1
    <3> QED BY <1>7, <3>2
  <2>4. Owner(s) /\ Evolves(s)
    <3>1. \A t \in Task : ~Touches(s, t) /\ T(t) \notin Reach(s)
      BY <1>4, <2>2, RowParts DEF Touches, Reach, Rows
    <3>2. \A r \in Run : draft[s][R(r)] = "unwritten" /\ draft[s][W(r)] = "unwritten"
      BY <1>4, RowParts DEF Nothing
    <3> QED BY <3>1, <3>2 DEF Owner, Owns, Evolves, Active
  <2>5. LastRows(s) /\ InOrder(s) /\ OneTask(s)
    BY <1>4 DEF LastRows, InOrder, OneTask
  <2> QED BY <2>1, <2>3, <2>4, <2>5 DEF Order
<1> QED BY <1>5, <1>6, <1>7, <1>8 DEF LockInv

(* Another row is locked.                                                  *)
LEMMA LockKeeps ==
  ASSUME LockInv, NEW s \in Session, Lock(s)
  PROVE  LockInv'
<1>1. PICK x \in Asks(s) \ {EInsert} : Free(s, x) /\ held' = [held EXCEPT ![s] = @ \cup {x}]
  BY DEF Lock
<1>2. /\ table' = table /\ by' = by /\ call' = call /\ at' = at /\ loop' = loop /\ todo' = todo
      /\ draft' = draft
  BY DEF Lock
<1>3. Types /\ Exclusive /\ Good(table) /\ Calls(s) /\ Order(s)
  BY DEF LockInv
<1>4. x \in Lockable /\ x \in Rows(s) /\ x \notin held[s] /\ x \in Row \cup {EShare}
  BY <1>1, <1>3, Asked DEF Lockable
<1>5. held'[s] = held[s] \cup {x} /\ \A u \in Session : u # s => held'[u] = held[u]
  BY <1>1, <1>3 DEF Types
<1>6. Types' /\ OnlyMoves(s)
  <2>1. TypesOf(s)'
    BY <1>2, <1>3, <1>4, <1>5 DEF Types, TypesOf
  <2>2. Moves(s)
    BY <1>1, <1>2, <1>5 DEF Moves
  <2> QED BY <1>2, <1>3, <2>1, <2>2, Moved DEF Types
<1>7. Exclusive'
  <2>1. \A u \in Session : u # s => x \notin held[u] \/ x = EShare
    BY <1>1 DEF Free, Conflict
  <2> QED BY <1>3, <1>5, <2>1 DEF Exclusive
<1>8. /\ Rows(s)' = Rows(s) /\ Reach(s)' = Reach(s) /\ Of(s)' = Of(s)
      /\ \A p : p \in Missing(s)' => p \in Missing(s) /\ p[2] # x
      /\ View(s)' = View(s)
  BY <1>2, <1>4, <1>5 DEF Rows, Reach, Of, Missing, View, Sees
<1>9. \A t \in Task : (Touches(s, t) <=> Touches(s, t)')
  BY <1>2 DEF Touches, Written
<1>10. \A t : (HasActive(s, t) => HasActive(s, t)') /\ (Looking(s, t) <=> Looking(s, t)')
  BY <1>2, <1>5, <1>8 DEF HasActive, Looking
<1>11. PICK p \in Missing(s) : p[2] = x /\ \A q \in Missing(s) : p[1] <= q[1]
  BY <1>1, <1>3, Asked
<1>12. p \in todo[s] /\ todo[s] # {}
  BY <1>11 DEF Missing
<1>13. Calls(s)'
  <2>1. CallFits(s)'
    BY <1>2, <1>3, <1>12 DEF Calls, CallFits
  <2>2. RunFits(s)'
    BY <1>2, <1>3, <1>5, <1>8, <1>9, RunParts DEF Calls, RunFits
  <2>3. AwaitFits(s)'
    <3>1. call[s].op = "await_event" => at[s] # "start"
      BY <1>1, <1>3, <1>11, <1>12 DEF Calls, AwaitFits, Nth
    <3>2. call[s].op = "await_event" /\ at[s] = "event_locked" => x = EShare
      BY <1>3, <1>11, <1>12 DEF Calls, AwaitFits, Nth
    <3> QED BY <1>2, <1>3, <1>5, <1>8, <3>1, <3>2 DEF Calls, AwaitFits, Written
  <2>4. CancelFits(s)'
    BY <1>2, <1>3, <1>5, <1>8, <1>9, <1>12 DEF Calls, CancelFits
  <2>5. EmitFits(s)'
    <3>1. call[s].op = "emit_event" /\ at[s] = "start" => x = E
      BY <1>3, <1>11, <1>12 DEF Calls, EmitFits, Nth
    <3> QED BY <1>2, <1>3, <1>4, <1>5, <1>8, <1>9, <3>1 DEF Calls, EmitFits
  <2>6. ClaimFits(s)'
    <3>1. SUFFICES ASSUME by[s] = "claim_task" PROVE ClaimFits(s)'
      BY <1>2 DEF ClaimFits
    <3>2. ClaimAt(s) /\ InCancelling(s) /\ InFailing(s)
      BY <1>3, <3>1 DEF Calls, ClaimFits
    <3>3. ClaimAt(s)'
      BY <1>2, <1>5, <1>12, <3>2 DEF ClaimAt
    <3>4. ASSUME Cancelling(s)
          PROVE  call[s].op = "cancel_task" /\ x[2] = Of(s)[1] /\ at[s] # "start" /\ Of(s)[1] \in Nat
                 /\ \A t \in Task : x = T(t) => Looking(s, t)
      <4>1. call[s].op = "cancel_task"
        BY <1>12, <3>2, <3>4 DEF ClaimAt, Cancelling
      <4>2. Of(s)[1] \in Task /\ at[s] \in {"task_locked", "end"}
        BY <1>3, <1>12, <4>1 DEF Calls, CancelFits
      <4>3. CASE at[s] = "task_locked"
        <5>1. p = <<MaxRuns + 1, T(Of(s)[1])>> \/ \E r \in Run : r[1] = Of(s)[1] /\ p = <<r[2], R(r)>>
          BY <1>3, <1>12, <4>1, <4>3 DEF Calls, CancelFits
        <5>2. x = T(Of(s)[1]) \/ \E r \in Run : r[1] = Of(s)[1] /\ x = R(r)
          BY <1>11, <5>1
        <5> QED BY <4>1, <4>2, <4>3, <5>2, RowParts, RowsDiffer, LockAssumption DEF Looking, Task
      <4>4. CASE at[s] = "end"
        <5>1. \E r \in Run : r[1] = Of(s)[1] /\ p \in {<<1, R(r)>>, <<2, W(r)>>}
          BY <1>3, <1>12, <4>1, <4>4 DEF Calls, CancelFits
        <5>2. \E r \in Run : r[1] = Of(s)[1] /\ x \in {R(r), W(r)}
          BY <1>11, <5>1
        <5> QED BY <4>1, <4>2, <4>4, <5>2, RowParts, RowsDiffer, LockAssumption DEF Task
      <4> QED BY <4>2, <4>3, <4>4
    <3>5. InCancelling(s)'
      <4>1. SUFFICES ASSUME Cancelling(s) PROVE InCancelling(s)'
        BY <1>2 DEF InCancelling, Cancelling
      <4>2. \A t \in Task : Sees(s, T(t))' = Sees(s, T(t))
        BY <1>2 DEF Sees
      <4> QED BY <1>2, <1>5, <1>8, <1>10, <3>2, <3>4, <4>1, <4>2 DEF InCancelling
    <3>6. ASSUME Failing(s), NEW t \in Task, x = T(t)
          PROVE  call[s].op = "fail_run" /\ t = Of(s)[1] /\ at[s] # "start"
      <4>1. call[s].op = "fail_run" /\ at[s] # "start"
        BY <1>12, <3>2, <3>6 DEF ClaimAt, InFailing, Failing
      <4>2. Of(s) \in Run /\ Of(s)[1] \in Task
        BY <1>3, <4>1, RunParts DEF Calls, RunFits
      <4>3. todo[s] = Nth(1, {T(Of(s)[1])}) \/ todo[s] \subseteq Nth(1, {W(Of(s))})
        BY <1>3, <4>1 DEF Calls, RunFits
      <4> QED BY <1>11, <1>12, <3>6, <4>1, <4>2, <4>3, RowsDiffer DEF Nth
    <3>7. InFailing(s)'
      <4>1. SUFFICES ASSUME Failing(s) PROVE InFailing(s)'
        BY <1>2 DEF InFailing, Failing
      <4>2. call[s].op = "fail_run" => at[s] # "start"
        BY <1>12, <3>2, <4>1 DEF InFailing
      <4>3. ASSUME NEW r \in loop[s]
            PROVE  r \in Run /\ R(r) \in held[s] /\ table[R(r)] = "running" /\ T(r[1]) \notin held'[s]
        <5>1. r \in Run /\ R(r) \in held[s] /\ table[R(r)] = "running" /\ T(r[1]) \notin held[s]
          BY <3>2, <4>1, <4>3 DEF InFailing
        <5>2. call[s].op = "fail_run" => r[1] # Of(s)[1]
          BY <3>2, <4>1, <4>3 DEF InFailing
        <5> QED BY <1>5, <3>6, <4>1, <5>1, <5>2, RunParts
      <4> QED BY <1>2, <1>5, <1>8, <3>2, <4>1, <4>2, <4>3 DEF InFailing
    <3> QED BY <3>3, <3>5, <3>7 DEF ClaimFits
  <2>7. CleanupFits(s)'
    BY <1>2, <1>3, <1>8 DEF Calls, CleanupFits, Written
  <2> QED BY <2>1, <2>2, <2>3, <2>4, <2>5, <2>6, <2>7 DEF Calls
<1>14. Order(s)'
  <2>1. SUFFICES ASSUME by[s] # "cleanup_tasks"
                 PROVE  (Good(View(s)) /\ Owner(s) /\ Evolves(s) /\ LastRows(s) /\ InOrder(s) /\ OneTask(s))'
    BY <1>2 DEF Order
  <2>2. Good(View(s)) /\ Owner(s) /\ Evolves(s) /\ LastRows(s) /\ InOrder(s) /\ OneTask(s)
    BY <1>3, <2>1 DEF Order
  <2>3. Good(View(s)')
    BY <1>8, <2>2
  <2>4. Owner(s)'
    BY <1>2, <1>5, <1>8, <1>9, <1>10, <2>2 DEF Owner, Owns
  <2>5. Evolves(s)'
    BY <1>2, <2>2 DEF Evolves, Born, Written
  <2>6. LastRows(s)'
    <3>1. SUFFICES ASSUME by[s] # "emit_event" PROVE LastRows(s)'
      BY <1>2 DEF LastRows
    <3>2. \A r \in Run : x = W(r) => T(r[1]) \in held[s]
      BY <1>1, <2>1, <3>1, AskWait
    <3>3. \A t \in Task : x = C(t) => call[s].op \in {"await_event", "set_task_checkpoint_state"} /\ at[s] = "end"
      BY <1>1, <2>1, <3>1, AskCheckpoint
    <3> QED BY <1>2, <1>4, <1>5, <1>8, <2>2, <3>1, <3>2, <3>3 DEF LastRows
  <2>7. InOrder(s)'
    <3>1. SUFFICES ASSUME by[s] # "emit_event", ~(call[s].op = "cancel_task" /\ at[s] = "end"),
                          NEW q \in Missing(s)', NEW y \in held'[s]
                   PROVE  \/ q[2][1] \in {"w", "c"}
                          \/ Before(y, q[2])
                          \/ \E t \in Task : q[2] = T(t) /\ HasActive(s, t)'
      BY <1>2 DEF InOrder
    <3>2. q \in Missing(s) /\ q[2] # x /\ q \in todo[s]
      BY <1>8 DEF Missing
    <3>3. CASE y \in held[s]
      BY <1>10, <2>2, <3>1, <3>2, <3>3 DEF InOrder
    <3>4. CASE y = x
      BY <1>11, <1>12, <2>1, <3>1, <3>2, <3>4, TodoOrder
    <3> QED BY <1>5, <3>3, <3>4
  <2>8. OneTask(s)'
    <3>1. by[s] \notin {"claim_task", "emit_event"} => x[2] \in {0, Of(s)[1]}
      BY <1>1, <2>1, AskOne
    <3> QED BY <1>2, <1>5, <1>8, <2>2, <3>1 DEF OneTask
  <2> QED BY <2>3, <2>4, <2>5, <2>6, <2>7, <2>8 DEF Good
<1> QED BY <1>2, <1>6, <1>7, <1>13, <1>14, OneMoves

-----------------------------------------------------------------------------
(* A call begins.                                                          *)

LEMMA Idle ==
  ASSUME LockInv, NEW s \in Session, by[s] = "idle"
  PROVE  /\ call[s].op = "idle" /\ loop[s] = {} /\ todo[s] = {} /\ held[s] = {}
         /\ \A x \in Row : ~Written(s, x)
<1>1. Calls(s)
  BY DEF LockInv
<1> QED BY <1>1 DEF Calls, CallFits, Written, Nothing

Lists == SUBSET (Nat \X Lockable)
Drafts == [Row -> Value \cup {"unwritten"}]

LEMMA Begun ==
  ASSUME LockInv, NEW s \in Session, NEW f \in Function, NEW x \in Target, NEW label \in Label,
         NEW rows \in Lists, NEW writes \in Drafts,
         Begin(s, f, x, label, rows, writes)
  PROVE  /\ Types' /\ Exclusive' /\ OnlyMoves(s) /\ table' = table
         /\ by'[s] = f /\ call'[s].op = f /\ Of(s)' = x /\ at'[s] = label /\ loop'[s] = {}
         /\ todo'[s] = rows /\ held'[s] = {} /\ draft'[s] = writes
         /\ \A y : y \in Rows(s)' <=> \E p \in rows : p[2] = y
<1>1. Types /\ Exclusive
  BY DEF LockInv
<1>2. by[s] = "idle"
  BY DEF Begin
<1>3. loop[s] = {} /\ held[s] = {}
  BY <1>2, Idle
<1> DEFINE c == [op |-> f, of |-> x]
<1>4. c \in [op : Function, of : Target] /\ c.op = f /\ c.of = x
  BY CallTyped
<1> HIDE DEF c
<1>5. call' = [call EXCEPT ![s] = c]
  BY DEF Begin, c
<1>6. /\ by'[s] = f /\ call'[s] = c /\ at'[s] = label /\ loop'[s] = {}
      /\ todo'[s] = rows /\ held'[s] = {} /\ draft'[s] = writes /\ table' = table
  BY <1>1, <1>3, <1>5 DEF Begin, Types
<1>7. TypesOf(s)'
  BY <1>4, <1>6 DEF TypesOf, Lists, Drafts
<1>8. Moves(s)
  BY <1>5, <1>6 DEF Begin, Moves
<1>9. Types' /\ OnlyMoves(s)
  BY <1>1, <1>6, <1>7, <1>8, Moved DEF Types
<1>10. Exclusive'
  BY <1>1, <1>6, <1>9 DEF Exclusive, OnlyMoves, Still
<1> QED BY <1>4, <1>6, <1>9, <1>10 DEF Of, Rows

(* It has no rows and has written nothing, but maybe the event.            *)
LEMMA BeginKeeps ==
  ASSUME LockInv, NEW s \in Session, NEW f \in Function, NEW x \in Target, NEW label \in Label,
         NEW rows \in Lists, NEW writes \in Drafts,
         Begin(s, f, x, label, rows, writes),
         \A y \in Row : writes[y] # "unwritten" => y = E,
         \A t \in Task : T(t) \in Rows(s)' => Looking(s, t)',
         Calls(s)'
  PROVE  LockInv'
<1>1. /\ Types' /\ Exclusive' /\ OnlyMoves(s) /\ table' = table
      /\ held'[s] = {} /\ draft'[s] = writes
  BY Begun
<1>2. Good(table)
  BY DEF LockInv
<1>3. \A y \in Row : (Written(s, y)' => y = E) /\ (y # E => Sees(s, y)' = table[y])
  BY <1>1 DEF Written, Sees
<1>4. Good(View(s)')
  <2>1. \A r \in Run : /\ View(s)'[R(r)] = table[R(r)] /\ View(s)'[W(r)] = table[W(r)]
                       /\ View(s)'[T(r[1])] = table[T(r[1])]
    BY <1>3, RowParts, RowsDiffer, RunParts DEF View
  <2> HIDE DEF View
  <2> QED BY <1>2, <2>1 DEF Good
<1>5. Owner(s)' /\ Evolves(s)'
  <2>1. \A t \in Task : ~Touches(s, t)'
    BY <1>3, RowParts, RowsDiffer DEF Touches
  <2>2. \A t \in Task : T(t) \in Reach(s)' => Looking(s, t)'
    BY <1>1 DEF Reach
  <2>3. \A r \in Run : draft'[s][R(r)] = "unwritten" /\ draft'[s][W(r)] = "unwritten"
    BY <1>3, RowParts, RowsDiffer DEF Written
  <2> QED BY <2>1, <2>2, <2>3 DEF Owner, Owns, Evolves, Active
<1>6. LastRows(s)' /\ InOrder(s)' /\ OneTask(s)'
  BY <1>1 DEF LastRows, InOrder, OneTask
<1>7. Order(s)'
  BY <1>4, <1>5, <1>6 DEF Order, Good
<1> QED BY <1>1, <1>7, OneMoves

LEMMA Parameters ==
  /\ \A r \in Run : r \in Target
  /\ \A t \in Task : <<t, 0>> \in Target
  /\ <<0, 0>> \in Target
  /\ Nothing \in Drafts /\ \A x \in Row : Nothing[x] = "unwritten"
  /\ Row \subseteq Lockable /\ EInsert \in Lockable /\ EShare \in Lockable
<1>1. \A r \in Run : r \in Target
  BY LockAssumption DEF Run, Task, Target
<1>2. (\A t \in Task : <<t, 0>> \in Target) /\ <<0, 0>> \in Target
  BY LockAssumption DEF Task, Target
<1> QED BY <1>1, <1>2 DEF Nothing, Lockable, Drafts

LEMMA NthParts ==
  ASSUME NEW k \in Nat, NEW rows \in SUBSET Lockable
  PROVE  /\ Nth(k, rows) \in Lists
         /\ \A x \in rows : <<k, x>> \in Nth(k, rows)
         /\ \A p \in Nth(k, rows) : p[1] = k /\ p[2] \in rows
<1>1. \A x \in rows : <<k, x>> \in Nth(k, rows)
  BY DEF Nth
<1>2. ASSUME NEW p \in Nth(k, rows) PROVE p[1] = k /\ p[2] \in rows /\ p \in Nat \X Lockable
  <2>1. PICK x \in rows : p = <<k, x>>
    BY DEF Nth
  <2> QED BY <2>1
<1> QED BY <1>1, <1>2 DEF Lists

LEMMA NthOne ==
  ASSUME NEW k \in Nat, NEW x \in Lockable
  PROVE  /\ Nth(k, {x}) \in Lists /\ \A p \in Nth(k, {x}) : p[2] = x
         /\ \A y : (\E p \in Nth(k, {x}) : p[2] = y) <=> y = x
<1>1. /\ Nth(k, {x}) \in Lists /\ <<k, x>> \in Nth(k, {x})
      /\ \A p \in Nth(k, {x}) : p[2] = x
  BY NthParts
<1>2. <<k, x>>[2] = x
  OBVIOUS
<1> QED BY <1>1, <1>2

LEMMA WriteParts ==
  ASSUME NEW d \in Drafts, NEW rows, NEW v \in Value
  PROVE  /\ Write(d, rows, v) \in Drafts
         /\ \A x \in Row : Write(d, rows, v)[x] = IF x \in rows THEN v ELSE d[x]
BY DEF Write, Drafts

LEMMA CallOnRunKeeps ==
  ASSUME LockInv, NEW s \in Session, CallOnRun(s)
  PROVE  LockInv'
<1>1. PICK r \in Claimed :
       \/ \E f \in {"complete_run", "fail_run"} :
             Begin(s, f, r, "start", Nth(1, {R(r)}), Nothing)
       \/ /\ table[R(r)] = "running"
          /\ Begin(s, "schedule_run", r, "start", Nth(1, {R(r)}), Nothing)
       \/ Begin(s, "extend_claim", r, "end", Nth(1, {R(r)}) \cup Nth(2, {T(r[1])}), Nothing)
       \/ Begin(s, "await_event", r, "start", Nth(1, {EInsert}), Nothing)
  BY DEF CallOnRun
<1>2. r \in Run /\ r[1] \in Task /\ r \in Target
  BY RunParts, Parameters DEF Claimed
<1>3. /\ \A f \in {"complete_run", "fail_run", "schedule_run", "extend_claim", "await_event"} : f \in Function
      /\ "start" \in Label /\ "end" \in Label
  BY DEF Function, Label
<1>4. ASSUME NEW f \in {"complete_run", "fail_run", "schedule_run"},
             Begin(s, f, r, "start", Nth(1, {R(r)}), Nothing)
      PROVE  LockInv'
  <2> DEFINE rows == Nth(1, {R(r)})
  <2>1. rows \in Lists /\ \A y : (\E p \in rows : p[2] = y) <=> y = R(r)
    BY <1>2, NthOne, RowParts, Parameters
  <2> HIDE DEF rows
  <2>5. Begin(s, f, r, "start", rows, Nothing)
    BY <1>4 DEF rows
  <2>2. /\ by'[s] = f /\ call'[s].op = f /\ Of(s)' = r /\ at'[s] = "start" /\ loop'[s] = {}
        /\ todo'[s] = rows /\ draft'[s] = Nothing /\ \A y : y \in Rows(s)' <=> y = R(r)
    BY SMTT(60), <1>2, <1>3, <2>1, <2>5, Begun, Parameters
  <2>3. \A t \in Task : T(t) \notin Rows(s)' /\ ~Touches(s, t)'
    BY <1>2, <2>2, RowParts, RowsDiffer, Parameters DEF Touches, Written
  <2>4. Calls(s)'
    <3>1. RunFits(s)'
      BY <1>2, <2>2, <2>3 DEF RunFits, Reach, rows
    <3> QED BY <2>2, <3>1 DEF Calls, CallFits, AwaitFits, CancelFits, EmitFits, ClaimFits, CleanupFits
  <2> QED BY <1>2, <1>3, <2>1, <2>3, <2>4, <2>5, BeginKeeps, Parameters
<1>5. ASSUME Begin(s, "extend_claim", r, "end", Nth(1, {R(r)}) \cup Nth(2, {T(r[1])}), Nothing)
      PROVE  LockInv'
  <2> DEFINE rows == Nth(1, {R(r)}) \cup Nth(2, {T(r[1])})
  <2>1. rows \in Lists /\ \A y : (\E p \in rows : p[2] = y) => y \in {R(r), T(r[1])}
    <3>1. R(r) \in Lockable /\ T(r[1]) \in Lockable
      BY <1>2, RowParts, Parameters
    <3>2. /\ Nth(1, {R(r)}) \in Lists /\ \A p \in Nth(1, {R(r)}) : p[2] = R(r)
          /\ Nth(2, {T(r[1])}) \in Lists /\ \A p \in Nth(2, {T(r[1])}) : p[2] = T(r[1])
      BY <3>1, NthOne
    <3> QED BY <3>2 DEF Lists
  <2> HIDE DEF rows
  <2>5. Begin(s, "extend_claim", r, "end", rows, Nothing)
    BY <1>5 DEF rows
  <2>2. /\ by'[s] = "extend_claim" /\ call'[s].op = "extend_claim" /\ Of(s)' = r /\ at'[s] = "end"
        /\ loop'[s] = {} /\ todo'[s] = rows /\ draft'[s] = Nothing
        /\ \A y : y \in Rows(s)' => y \in {R(r), T(r[1])}
    BY <1>2, <1>3, <2>1, <2>5, Begun, Parameters
  <2>3. \A t \in Task : T(t) \in Rows(s)' => Looking(s, t)'
    BY <1>2, <2>2, RowsDiffer DEF Looking
  <2>4. Calls(s)'
    BY <1>2, <2>2 DEF Calls, CallFits, RunFits, AwaitFits, CancelFits, EmitFits, ClaimFits, CleanupFits, rows
  <2> QED BY <1>2, <1>3, <2>1, <2>3, <2>4, <2>5, BeginKeeps, Parameters
<1>6. ASSUME Begin(s, "await_event", r, "start", Nth(1, {EInsert}), Nothing)
      PROVE  LockInv'
  <2> DEFINE rows == Nth(1, {EInsert})
  <2>1. rows \in Lists /\ \A y : (\E p \in rows : p[2] = y) => y = EInsert
    BY NthOne, Parameters
  <2> HIDE DEF rows
  <2>5. Begin(s, "await_event", r, "start", rows, Nothing)
    BY <1>6 DEF rows
  <2>2. /\ by'[s] = "await_event" /\ call'[s].op = "await_event" /\ Of(s)' = r /\ at'[s] = "start"
        /\ loop'[s] = {} /\ todo'[s] = rows /\ draft'[s] = Nothing /\ held'[s] = {}
        /\ \A y : y \in Rows(s)' => y = EInsert
    BY <1>2, <1>3, <2>1, <2>5, Begun, Parameters
  <2>3. \A t \in Task : T(t) \notin Rows(s)'
    BY <2>2, RowsDiffer
  <2>4. Calls(s)'
    <3>1. AwaitFits(s)'
      BY <1>2, <2>2, Parameters DEF AwaitFits, Written, rows
    <3> QED BY <2>2, <3>1 DEF Calls, CallFits, RunFits, CancelFits, EmitFits, ClaimFits, CleanupFits
  <2> QED BY <1>2, <1>3, <2>1, <2>3, <2>4, <2>5, BeginKeeps, Parameters
<1> QED BY <1>1, <1>4, <1>5, <1>6

LEMMA CallCheckpointKeeps ==
  ASSUME LockInv, NEW s \in Session, CallCheckpoint(s)
  PROVE  LockInv'
<1> DEFINE f == "set_task_checkpoint_state"
<1>9. PICK r \in Claimed : \E lease \in SUBSET {R(r)} :
         Begin(s, f, r, "end", Nth(1, lease) \cup Nth(2, {C(r[1])}), Nothing)
  BY DEF CallCheckpoint
<1>1. PICK lease \in SUBSET {R(r)} :
         Begin(s, f, r, "end", Nth(1, lease) \cup Nth(2, {C(r[1])}), Nothing)
  BY <1>9
<1>2. r \in Run /\ r[1] \in Task /\ r \in Target
  BY RunParts, Parameters DEF Claimed
<1>3. f \in Function /\ "end" \in Label
  BY DEF Function, Label
<1> DEFINE rows == Nth(1, lease) \cup Nth(2, {C(r[1])})
<1>4. rows \in Lists /\ \A y : (\E p \in rows : p[2] = y) => y \in {R(r), C(r[1])}
  <2>1. lease \in SUBSET Lockable /\ C(r[1]) \in Lockable
    BY <1>2, RowParts, Parameters
  <2>2. Nth(1, lease) \in Lists /\ \A p \in Nth(1, lease) : p[2] \in lease
    BY <2>1, NthParts
  <2>3. /\ Nth(2, {C(r[1])}) \in Lists /\ \A p \in Nth(2, {C(r[1])}) : p[2] = C(r[1])
    BY <2>1, NthOne
  <2> QED BY <2>2, <2>3 DEF Lists
<1>10. rows \subseteq Nth(1, {R(r)}) \cup Nth(2, {C(r[1])})
  BY DEF Nth
<1> HIDE DEF rows
<1>8. Begin(s, f, r, "end", rows, Nothing)
  BY <1>1 DEF rows
<1>5. /\ by'[s] = f /\ call'[s].op = f /\ Of(s)' = r /\ at'[s] = "end" /\ loop'[s] = {}
      /\ todo'[s] = rows /\ draft'[s] = Nothing /\ \A y : y \in Rows(s)' => y \in {R(r), C(r[1])}
  BY <1>2, <1>3, <1>4, <1>8, Begun, Parameters
<1>6. \A t \in Task : T(t) \notin Rows(s)'
  BY <1>2, <1>5, RowsDiffer
<1>7. Calls(s)'
  <2>2. AwaitFits(s)'
    BY <1>2, <1>5, <1>10 DEF AwaitFits
  <2> QED BY <1>5, <2>2 DEF Calls, CallFits, RunFits, CancelFits, EmitFits, ClaimFits, CleanupFits
<1> QED BY <1>2, <1>3, <1>4, <1>6, <1>7, <1>8, BeginKeeps, Parameters

LEMMA CallEmitKeeps ==
  ASSUME LockInv, NEW s \in Session, CallEmit(s)
  PROVE  LockInv'
<1> DEFINE rows == Nth(1, {E})
<1> DEFINE x == <<0, 0>>
<1>1. rows \in Lists /\ \A y : (\E p \in rows : p[2] = y) => y = E
  BY NthOne, RowParts, Parameters
<1>2. "emit_event" \in Function /\ "start" \in Label /\ x \in Target
  BY Parameters DEF Function, Label
<1> HIDE DEF rows, x
<1>3. Begin(s, "emit_event", x, "start", rows, Nothing)
  BY DEF CallEmit, rows, x
<1>4. /\ by'[s] = "emit_event" /\ call'[s].op = "emit_event" /\ at'[s] = "start" /\ loop'[s] = {}
      /\ todo'[s] = rows /\ held'[s] = {} /\ draft'[s] = Nothing /\ \A y : y \in Rows(s)' => y = E
  BY <1>1, <1>2, <1>3, Begun, Parameters
<1>5. \A t \in Task : T(t) \notin Rows(s)'
  BY <1>4, RowsDiffer
<1>6. Calls(s)'
  BY <1>4 DEF Calls, CallFits, RunFits, AwaitFits, CancelFits, EmitFits, ClaimFits, CleanupFits, rows
<1> QED BY <1>1, <1>2, <1>3, <1>5, <1>6, BeginKeeps, Parameters

LEMMA CallOnTaskKeeps ==
  ASSUME LockInv, NEW s \in Session, CallOnTask(s)
  PROVE  LockInv'
<1>1. PICK t \in Task :
       \/ Begin(s, "cancel_task", <<t, 0>>, "start", {}, Nothing)
       \/ Begin(s, "retry_task", <<t, 0>>, "start", Nth(1, {T(t)}), Nothing)
  BY DEF CallOnTask
<1> DEFINE x == <<t, 0>>
<1>2. /\ "cancel_task" \in Function /\ "retry_task" \in Function /\ "start" \in Label
      /\ x \in Target /\ x[1] = t
  BY Parameters DEF Function, Label
<1> HIDE DEF x
<1>3. {} \in Lists
  BY DEF Lists
<1>4. ASSUME Begin(s, "cancel_task", x, "start", {}, Nothing) PROVE LockInv'
  <2>1. /\ by'[s] = "cancel_task" /\ call'[s].op = "cancel_task" /\ Of(s)' = x /\ at'[s] = "start"
        /\ loop'[s] = {} /\ todo'[s] = {} /\ held'[s] = {} /\ draft'[s] = Nothing /\ \A y : y \notin Rows(s)'
    BY <1>2, <1>3, <1>4, Begun, Parameters
  <2>2. ~Touches(s, t)'
    BY <2>1, RowParts, Parameters DEF Touches, Written
  <2>3. CancelFits(s)'
    BY <1>2, <2>1, <2>2 DEF CancelFits
  <2>4. Calls(s)'
    BY <2>1, <2>3 DEF Calls, CallFits, RunFits, AwaitFits, EmitFits, ClaimFits, CleanupFits
  <2> QED BY <1>2, <1>3, <1>4, <2>1, <2>4, BeginKeeps, Parameters
<1>5. ASSUME Begin(s, "retry_task", x, "start", Nth(1, {T(t)}), Nothing) PROVE LockInv'
  <2> DEFINE rows == Nth(1, {T(t)})
  <2>1. rows \in Lists /\ \A y : (\E p \in rows : p[2] = y) => y = T(t)
    BY NthOne, RowParts, Parameters
  <2> HIDE DEF rows
  <2>5. Begin(s, "retry_task", x, "start", rows, Nothing)
    BY <1>5 DEF rows
  <2>2. /\ by'[s] = "retry_task" /\ call'[s].op = "retry_task" /\ Of(s)' = x /\ at'[s] = "start"
        /\ loop'[s] = {} /\ todo'[s] = rows /\ held'[s] = {} /\ draft'[s] = Nothing
        /\ \A y : y \in Rows(s)' => y = T(t)
    BY <1>2, <2>1, <2>5, Begun, Parameters
  <2>3. \A u \in Task : T(u) \in Rows(s)' => Looking(s, u)'
    BY <1>2, <2>2, RowsDiffer DEF Looking
  <2>4. Calls(s)'
    BY <1>2, <2>2 DEF Calls, CallFits, RunFits, AwaitFits, CancelFits, EmitFits, ClaimFits, CleanupFits, rows
  <2> QED BY <1>2, <2>1, <2>3, <2>4, <2>5, BeginKeeps, Parameters
<1> QED BY <1>1, <1>4, <1>5 DEF x

LEMMA CallClaimKeeps ==
  ASSUME LockInv, NEW s \in Session, CallClaim(s)
  PROVE  LockInv'
<1> DEFINE x == <<0, 0>>
<1>1. /\ "claim_task" \in Function /\ "start" \in Label /\ {} \in Lists
      /\ x \in Target
  BY Parameters DEF Function, Label, Lists
<1> HIDE DEF x
<1>2. Begin(s, "claim_task", x, "start", {}, Nothing)
  BY DEF CallClaim, x
<1>3. /\ by'[s] = "claim_task" /\ call'[s].op = "claim_task" /\ at'[s] = "start"
      /\ loop'[s] = {} /\ todo'[s] = {} /\ held'[s] = {} /\ draft'[s] = Nothing /\ \A y : y \notin Rows(s)'
  BY <1>1, <1>2, Begun, Parameters
<1>4. ClaimFits(s)'
  BY <1>3 DEF ClaimFits, ClaimAt, InCancelling, InFailing, Cancelling, Failing
<1>5. Calls(s)'
  BY <1>3, <1>4 DEF Calls, CallFits, RunFits, AwaitFits, CancelFits, EmitFits, CleanupFits
<1> QED BY <1>1, <1>2, <1>3, <1>5, BeginKeeps, Parameters

LEMMA CallCleanupTasksKeeps ==
  ASSUME LockInv, NEW s \in Session, CallCleanupTasks(s)
  PROVE  LockInv'
<1>1. PICK old \in SUBSET {t \in Task : table[T(t)] \in {"failed", "ended"}} :
        LET rows == {x \in Row : x[2] \in old /\ table[x] # "none"} IN
        Begin(s, "cleanup_tasks", <<0, 0>>, "end", Nth(1, rows), Write(Nothing, rows, "none"))
  BY DEF CallCleanupTasks
<1> DEFINE rows == {x \in Row : x[2] \in old /\ table[x] # "none"}
<1> DEFINE todos == Nth(1, rows)
<1> DEFINE writes == Write(Nothing, rows, "none")
<1>2. todos \in Lists /\ \A x \in rows : <<1, x>> \in todos
  <2>1. rows \in SUBSET Lockable
    BY Parameters
  <2> HIDE DEF rows
  <2> QED BY <2>1, NthParts
<1>3. /\ writes \in Drafts
      /\ \A x \in Row : writes[x] = IF x \in rows THEN "none" ELSE "unwritten"
  <2>1. "none" \in Value
    BY DEF Value
  <2> HIDE DEF rows
  <2> QED BY <2>1, WriteParts, Parameters
<1> DEFINE none == <<0, 0>>
<1>4. "cleanup_tasks" \in Function /\ "end" \in Label /\ none \in Target
  BY Parameters DEF Function, Label
<1> HIDE DEF todos, writes, none
<1>5. Begin(s, "cleanup_tasks", none, "end", todos, writes)
  BY <1>1 DEF todos, writes, none
<1>6. /\ Types' /\ Exclusive' /\ OnlyMoves(s) /\ table' = table
      /\ by'[s] = "cleanup_tasks" /\ call'[s].op = "cleanup_tasks" /\ at'[s] = "end" /\ loop'[s] = {}
      /\ todo'[s] = todos /\ draft'[s] = writes
  BY <1>2, <1>3, <1>4, <1>5, Begun
<1>7. CleanupFits(s)'
  <2>1. \A x \in Row : Written(s, x)' <=> x \in rows
    BY <1>3, <1>6 DEF Written
  <2>2. \A x \in Row : Written(s, x)' => draft'[s][x] = "none" /\ <<1, x>> \in todos
    BY <1>2, <1>3, <1>6, <2>1
  <2>3. ASSUME NEW r \in Run, Written(s, R(r))'
        PROVE  /\ Written(s, T(r[1]))' /\ table[R(r)] # "none"
               /\ \A q \in Run : q[1] = r[1] => table[R(q)] \notin Active
    <3>1. r[1] \in old /\ table[R(r)] # "none" /\ r[1] \in Task
      BY <2>1, <2>3, RowParts, RunParts
    <3>2. table[T(r[1])] \in {"failed", "ended"} /\ T(r[1]) \in rows
      BY <3>1, RowParts
    <3>3. \A q \in Run : q[1] = r[1] => table[R(q)] \notin Active
      BY <3>2 DEF LockInv, Good
    <3> QED BY <2>1, <3>1, <3>2, <3>3, RowParts
  <2> HIDE DEF rows
  <2> QED BY <1>6, <2>2, <2>3 DEF CleanupFits
<1>8. Calls(s)'
  BY <1>6, <1>7 DEF Calls, CallFits, RunFits, AwaitFits, CancelFits, EmitFits, ClaimFits
<1>9. Order(s)'
  BY <1>6 DEF Order
<1> QED BY <1>6, <1>8, <1>9, OneMoves

LEMMA CallCleanupEventsKeeps ==
  ASSUME LockInv, NEW s \in Session, CallCleanupEvents(s)
  PROVE  LockInv'
<1> DEFINE rows == Nth(1, {E})
<1> DEFINE writes == Write(Nothing, {E}, "none")
<1> DEFINE none == <<0, 0>>
<1>1. rows \in Lists /\ \A y : (\E p \in rows : p[2] = y) => y = E
  BY NthOne, RowParts, Parameters
<1>2. "cleanup_events" \in Function /\ "end" \in Label /\ none \in Target
  BY Parameters DEF Function, Label
<1>3. /\ writes \in Drafts
      /\ \A x \in Row : writes[x] # "unwritten" => x = E
  BY WriteParts, Parameters DEF Value
<1> HIDE DEF rows, writes, none
<1>4. Begin(s, "cleanup_events", none, "end", rows, writes)
  BY DEF CallCleanupEvents, rows, writes, none
<1>5. /\ by'[s] = "cleanup_events" /\ call'[s].op = "cleanup_events" /\ at'[s] = "end" /\ loop'[s] = {}
      /\ todo'[s] = rows /\ held'[s] = {} /\ draft'[s] = writes /\ \A y : y \in Rows(s)' => y = E
  BY <1>1, <1>2, <1>3, <1>4, Begun
<1>6. \A t \in Task : T(t) \notin Rows(s)'
  BY <1>5, RowsDiffer
<1>7. CleanupFits(s)'
  BY <1>3, <1>5 DEF CleanupFits, Written, rows
<1>8. Calls(s)'
  BY <1>5, <1>7 DEF Calls, CallFits, RunFits, AwaitFits, CancelFits, EmitFits, ClaimFits
<1> QED BY <1>1, <1>2, <1>3, <1>4, <1>6, <1>8, BeginKeeps

-----------------------------------------------------------------------------
(* A call goes on to its next statements.                                  *)

LEMMA HasAll ==
  ASSUME LockInv, NEW s \in Session, Asks(s) = {}
  PROVE  /\ \A p \in todo[s] : p[2] \in held[s]
         /\ \A x : x \in Rows(s) => x \in held[s]
         /\ \A x : x \in Reach(s) <=> x \in held[s]
<1>1. \A p \in todo[s] : p[2] \in held[s]
  BY Asked DEF LockInv
<1>2. \A x : x \in Rows(s) => x \in held[s]
  BY <1>1 DEF Rows
<1> QED BY <1>1, <1>2 DEF Reach

LEMMA HasTask ==
  ASSUME LockInv, NEW s \in Session, by[s] \notin {"claim_task", "emit_event", "cleanup_tasks"},
         NEW t \in Task, T(t) \in held[s]
  PROVE  t = Of(s)[1]
<1>1. OneTask(s)
  BY DEF LockInv, Order
<1>2. T(t)[2] = t /\ t # 0
  BY RowParts DEF Task
<1> QED BY <1>1, <1>2 DEF OneTask

LEMMA NotTouched ==
  ASSUME NEW s \in Session, NEW t \in Task, ~Touches(s, t)
  PROVE  /\ Sees(s, T(t)) = table[T(t)]
         /\ \A r \in Run : r[1] = t => Sees(s, R(r)) = table[R(r)]
BY DEF Touches, Written, Sees

LEMMA ThenMoves ==
  ASSUME LockInv, NEW s \in Session, NEW label \in Label, NEW rows \in Lists, NEW writes \in Drafts,
         Then(s, label, rows, writes)
  PROVE  /\ Types' /\ Exclusive' /\ OnlyMoves(s) /\ table' = table
         /\ by'[s] = by[s] /\ call'[s] = call[s] /\ Of(s)' = Of(s) /\ loop'[s] = loop[s]
         /\ held'[s] = held[s] /\ at'[s] = label /\ todo'[s] = rows /\ draft'[s] = writes
         /\ \A y : y \in Rows(s)' <=> \E p \in rows : p[2] = y
         /\ \A y : y \in Reach(s)' <=> y \in held[s] \/ \E p \in rows : p[2] = y
         /\ \A t : HasActive(s, t)' <=> HasActive(s, t)
<1>1. Types /\ Exclusive
  BY DEF LockInv
<1>2. /\ table' = table /\ by' = by /\ call' = call /\ loop' = loop /\ held' = held
      /\ at'[s] = label /\ todo'[s] = rows /\ draft'[s] = writes
  BY <1>1 DEF Then, Types
<1>3. TypesOf(s)'
  BY <1>1, <1>2 DEF TypesOf, Types, Lists, Drafts
<1>4. Moves(s)
  BY <1>2 DEF Then, Moves
<1>5. Types' /\ OnlyMoves(s)
  BY <1>1, <1>2, <1>3, <1>4, Moved DEF Types
<1>6. Exclusive'
  BY <1>1, <1>2 DEF Exclusive
<1>7. \A y : y \in Rows(s)' <=> \E p \in rows : p[2] = y
  BY <1>2 DEF Rows
<1>8. \A y : y \in Reach(s)' <=> y \in held[s] \/ \E p \in rows : p[2] = y
  BY <1>2, <1>7 DEF Reach
<1>9. \A t : HasActive(s, t)' <=> HasActive(s, t)
  BY <1>2 DEF HasActive
<1>10. Of(s)' = Of(s)
  BY <1>2 DEF Of
<1> QED BY <1>2, <1>5, <1>6, <1>7, <1>8, <1>9, <1>10

LEMMA ThenKeeps ==
  ASSUME LockInv, NEW s \in Session, NEW label \in Label, NEW rows \in Lists, NEW writes \in Drafts,
         Then(s, label, rows, writes), at[s] # "end", by[s] # "cleanup_tasks",
         Good(View(s)'), Owner(s)', Evolves(s)', InOrder(s)', Calls(s)'
  PROVE  LockInv'
<1>1. /\ Types' /\ Exclusive' /\ OnlyMoves(s) /\ table' = table
      /\ by'[s] = by[s] /\ Of(s)' = Of(s) /\ held'[s] = held[s]
  BY ThenMoves
<1>2. LastRows(s) /\ OneTask(s)
  BY DEF LockInv, Order
<1>3. LastRows(s)' /\ OneTask(s)'
  BY <1>1, <1>2 DEF LastRows, OneTask
<1>4. Order(s)'
  BY <1>3 DEF Order, Good
<1> QED BY <1>1, <1>4, OneMoves

(* What a session with the draft d sees.                                   *)
Shows(d, x) == IF d[x] = "unwritten" THEN table[x] ELSE d[x]

LEMMA ShowsWrite ==
  ASSUME NEW d \in Drafts, NEW rows, NEW v \in Value
  PROVE  /\ Write(d, rows, v) \in Drafts
         /\ \A x \in Row : /\ Shows(Write(d, rows, v), x) = IF x \in rows THEN v ELSE Shows(d, x)
                           /\ Write(d, rows, v)[x] = IF x \in rows THEN v ELSE d[x]
<1>1. v # "unwritten"
  BY DEF Value, Active
<1> QED BY <1>1, WriteParts DEF Shows

LEMMA Drafted ==
  ASSUME LockInv, NEW s \in Session
  PROVE  /\ draft[s] \in Drafts
         /\ \A x \in Row : View(s)[x] = Sees(s, x) /\ Sees(s, x) = Shows(draft[s], x)
BY DEF LockInv, Types, Drafts, View, Sees, Shows

LEMMA ThenView ==
  ASSUME LockInv, NEW s \in Session, NEW label \in Label, NEW rows \in Lists, NEW writes \in Drafts,
         Then(s, label, rows, writes)
  PROVE  /\ \A x \in Row : View(s)'[x] = Shows(writes, x) /\ Sees(s, x)' = Shows(writes, x)
         /\ \A x : Written(s, x)' <=> writes[x] # "unwritten"
<1>1. table' = table /\ draft'[s] = writes
  BY ThenMoves
<1> QED BY <1>1 DEF View, Sees, Shows, Written

(* Statements about the task of the call leave the others as they are.     *)
OnlyAbout(s, rows, writes) ==
  /\ Of(s)[1] \in Task
  /\ \A x \in Row : x[2] # Of(s)[1] => writes[x] = draft[s][x]
  /\ \A p \in rows, u \in Task : p[2] = T(u) => u = Of(s)[1]

LEMMA ThenOwner ==
  ASSUME LockInv, NEW s \in Session, NEW label \in Label, NEW rows \in Lists, NEW writes \in Drafts,
         Then(s, label, rows, writes), Asks(s) = {}, by[s] # "cleanup_tasks",
         OnlyAbout(s, rows, writes), NEW t, t = Of(s)[1], Owns(s, t)'
  PROVE  Owner(s)'
<1>1. Owner(s)
  BY DEF LockInv, Order
<1>2. /\ held'[s] = held[s] /\ Of(s)' = Of(s) /\ draft'[s] = writes /\ table' = table
      /\ \A y : y \in Reach(s)' <=> y \in held[s] \/ \E p \in rows : p[2] = y
      /\ \A u : HasActive(s, u)' <=> HasActive(s, u)
  BY ThenMoves
<1>3. \A x : x \in Reach(s) <=> x \in held[s]
  BY HasAll
<1>4. ASSUME NEW u \in Task, u # t PROVE Owns(s, u)'
  <2>1. ~Looking(s, u) /\ ~Looking(s, u)'
    BY <1>2, <1>4 DEF Looking
  <2>2. Touches(s, u)' => Touches(s, u)
    BY <1>2, <1>4, RowParts DEF Touches, Written, OnlyAbout
  <2>3. T(u) \in Reach(s)' <=> T(u) \in Reach(s)
    BY <1>2, <1>3, <1>4 DEF OnlyAbout
  <2>4. \A x : x \in Reach(s) => x \in Reach(s)'
    BY <1>2, <1>3
  <2>5. Owns(s, u)
    BY <1>1 DEF Owner
  <2> QED BY <1>2, <2>1, <2>2, <2>3, <2>4, <2>5 DEF Owns
<1> QED BY <1>4 DEF Owner

LEMMA ThenEvolves ==
  ASSUME LockInv, NEW s \in Session, NEW label \in Label, NEW rows \in Lists, NEW writes \in Drafts,
         Then(s, label, rows, writes), by[s] # "cleanup_tasks",
         \A r \in Run : /\ \/ writes[R(r)] = draft[s][R(r)]
                           \/ writes[R(r)] \notin {"none", "unwritten"} \cup Active
                           \/ /\ writes[R(r)] \in Active
                              /\ table[R(r)] \in Active \/ (table[R(r)] = "none" /\ Born(r))
                        /\ writes[W(r)] = "row" => writes[W(r)] = draft[s][W(r)] \/ writes[R(r)] # "unwritten"
  PROVE  Evolves(s)'
<1>1. Evolves(s)
  BY DEF LockInv, Order
<1>2. draft'[s] = writes /\ table' = table
  BY ThenMoves
<1>3. \A r : Born(r)' <=> Born(r)
  BY <1>2 DEF Born
<1> QED BY <1>1, <1>2, <1>3 DEF Evolves, Written, Active

(* complete_run, schedule_run, fail_run *)

LEMMA OnRun ==
  ASSUME LockInv, NEW s \in Session, call[s].op \in {"complete_run", "schedule_run", "fail_run"},
         at[s] \in {"start", "task_locked"}, Asks(s) = {}
  PROVE  LET r == Of(s)
             t == Of(s)[1] IN
         /\ r \in Run /\ t \in Task /\ R(r) \in held[s] /\ ~Touches(s, t)
         /\ Sees(s, R(r)) = table[R(r)]
         /\ by[s] \notin {"cleanup_tasks", "emit_event"}
         /\ call[s].op \in {"complete_run", "schedule_run"} => by[s] # "claim_task" /\ at[s] = "start"
         /\ Good(table) /\ Good(View(s)) /\ Evolves(s)
         /\ call[s].op = "fail_run" /\ at[s] = "task_locked" =>
              T(t) \in held[s] /\ table[R(r)] \in {"running", "sleeping"}
<1>1. RunFits(s) /\ CallFits(s)
  BY DEF LockInv, Calls
<1>2. Of(s) \in Run /\ Of(s)[1] \in Task /\ ~Touches(s, Of(s)[1]) /\ R(Of(s)) \in held[s]
  BY <1>1, HasAll, RunParts DEF RunFits
<1>3. Sees(s, R(Of(s))) = table[R(Of(s))]
  BY <1>2, NotTouched
<1>4. /\ by[s] \notin {"cleanup_tasks", "emit_event"}
      /\ call[s].op \in {"complete_run", "schedule_run"} => by[s] # "claim_task" /\ at[s] = "start"
  BY <1>1 DEF CallFits, RunFits
<1>5. Good(table) /\ Good(View(s)) /\ Evolves(s)
  BY <1>4 DEF LockInv, Order
<1>6. call[s].op = "fail_run" /\ at[s] = "task_locked" =>
        T(Of(s)[1]) \in held[s] /\ table[R(Of(s))] \in {"running", "sleeping"}
  <2>1. SUFFICES ASSUME call[s].op = "fail_run", at[s] = "task_locked"
                 PROVE  T(Of(s)[1]) \in held[s] /\ table[R(Of(s))] \in {"running", "sleeping"}
    OBVIOUS
  <2>2. todo[s] = Nth(1, {T(Of(s)[1])}) /\ table[R(Of(s))] \in {"running", "sleeping"}
    BY <1>1, <2>1 DEF RunFits
  <2>3. <<1, T(Of(s)[1])>> \in todo[s]
    BY <2>2 DEF Nth
  <2>4. T(Of(s)[1]) \in Rows(s)
    BY <2>3, InRows
  <2> QED BY <2>2, <2>4, HasAll
<1> QED BY <1>2, <1>3, <1>4, <1>5, <1>6

LEMMA CompleteRunKeeps ==
  ASSUME LockInv, NEW s \in Session, CompleteRun(s)
  PROVE  LockInv'
<1>0. PICK r : r = Of(s)
  OBVIOUS
<1> DEFINE t == r[1]
           rows == Nth(1, {T(t)}) \cup Nth(2, Present(s, {W(r)}))
           ended == Write(draft[s], {R(r), T(t)}, "ended")
           writes == Write(ended, {W(r)}, "none")
<1>1. call[s].op = "complete_run" /\ at[s] = "start" /\ Asks(s) = {}
  BY DEF CompleteRun, In
<1>2. /\ r \in Run /\ t \in Task /\ R(r) \in held[s] /\ ~Touches(s, t)
      /\ Sees(s, R(r)) = table[R(r)] /\ by[s] \notin {"claim_task", "cleanup_tasks", "emit_event"}
      /\ Good(table) /\ Good(View(s)) /\ Evolves(s)
  BY <1>0, <1>1, OnRun
<1>3. SUFFICES ASSUME table[R(r)] = "running", Then(s, "end", rows, writes) PROVE LockInv'
  BY <1>0, <1>2, RaiseKeeps DEF CompleteRun
<1>4. R(r) \in Row /\ W(r) \in Row /\ T(t) \in Row /\ r[1] = t
  BY <1>2, RowParts
<1>5. /\ rows \in Lists /\ T(t) \in {p[2] : p \in rows}
      /\ \A p \in rows : p = <<1, T(t)>> \/ p = <<2, W(r)>>
  <2>1. /\ Nth(1, {T(t)}) \in Lists /\ Nth(2, Present(s, {W(r)})) \in Lists
    BY <1>4, NthParts, Parameters DEF Present
  <2>2. <<1, T(t)>> \in rows /\ <<1, T(t)>>[2] = T(t)
    BY DEF Nth
  <2>3. \A p \in rows : p = <<1, T(t)>> \/ p = <<2, W(r)>>
    BY DEF Nth, Present
  <2> HIDE DEF rows
  <2>4. T(t) \in {p[2] : p \in rows}
    BY <2>2
  <2> USE DEF rows
  <2> QED BY <2>1, <2>3, <2>4 DEF Lists
<1>6. /\ writes \in Drafts
      /\ \A x \in Row : /\ writes[x] = IF x = W(r) THEN "none" ELSE IF x \in {R(r), T(t)} THEN "ended" ELSE draft[s][x]
                        /\ Shows(writes, x) = IF x = W(r) THEN "none" ELSE IF x \in {R(r), T(t)} THEN "ended"
                                              ELSE View(s)[x]
  <2>1. /\ ended \in Drafts
        /\ \A x \in Row : /\ Shows(ended, x) = IF x \in {R(r), T(t)} THEN "ended" ELSE Shows(draft[s], x)
                          /\ ended[x] = IF x \in {R(r), T(t)} THEN "ended" ELSE draft[s][x]
    BY Drafted, ShowsWrite DEF Value
  <2> HIDE DEF ended
  <2>2. /\ writes \in Drafts
        /\ \A x \in Row : /\ Shows(writes, x) = IF x \in {W(r)} THEN "none" ELSE Shows(ended, x)
                          /\ writes[x] = IF x \in {W(r)} THEN "none" ELSE ended[x]
    BY <2>1, ShowsWrite DEF Value
  <2> HIDE DEF writes
  <2> QED BY <2>1, <2>2, Drafted
<1> HIDE DEF rows, writes
<1>7. "end" \in Label
  BY DEF Label
<1>8. /\ by'[s] = by[s] /\ call'[s] = call[s] /\ Of(s)' = r /\ loop'[s] = loop[s] /\ held'[s] = held[s]
      /\ at'[s] = "end" /\ todo'[s] = rows /\ draft'[s] = writes /\ table' = table
      /\ \A y : y \in Reach(s)' <=> y \in held[s] \/ \E p \in rows : p[2] = y
      /\ \A y : y \in Rows(s)' <=> \E p \in rows : p[2] = y
      /\ \A u : HasActive(s, u)' <=> HasActive(s, u)
  BY <1>0, <1>3, <1>5, <1>6, <1>7, ThenMoves
<1>9. HasActive(s, t)
  BY <1>2, <1>3, <1>4 DEF HasActive, Active
<1>10. Good(View(s)')
  <2> DEFINE v == View(s) w == View(s)'
  <2>1. \A x \in Row : w[x] = IF x = W(r) THEN "none" ELSE IF x \in {R(r), T(t)} THEN "ended" ELSE v[x]
    BY <1>3, <1>5, <1>6, <1>7, ThenView
  <2>2. \A q \in Run : /\ w[R(q)] = IF q = r THEN "ended" ELSE v[R(q)]
                       /\ w[W(q)] = IF q = r THEN "none" ELSE v[W(q)]
                       /\ w[T(q[1])] = IF q[1] = t THEN "ended" ELSE v[T(q[1])]
    BY <1>2, <2>1, RowParts, RowsDiffer, RunParts
  <2>3. v[R(r)] = "running"
    BY <1>2, <1>3, <1>4, Drafted
  <2>4. Good(v)
    BY <1>2
  <2> HIDE DEF v, w
  <2> QED BY <1>2, <1>4, <2>2, <2>3, <2>4 DEF Good, Active, w
<1>11. Owner(s)'
  <2>1. OnlyAbout(s, rows, writes)
    BY <1>0, <1>2, <1>4, <1>5, <1>6, RowParts, RowsDiffer DEF OnlyAbout
  <2>2. T(t) \in Reach(s)' /\ ~Looking(s, t)'
    BY <1>1, <1>5, <1>8 DEF Looking
  <2>3. \A q \in Run : q[1] = t /\ table[R(q)] \in Active => R(q) \in Reach(s)'
    BY <1>2, <1>3, <1>4, <1>8 DEF Good, Active
  <2>4. Owns(s, t)'
    BY <1>8, <1>9, <2>2, <2>3 DEF Owns
  <2> QED BY <1>0, <1>1, <1>2, <1>3, <1>5, <1>6, <1>7, <2>1, <2>4, ThenOwner
<1>12. Evolves(s)'
  <2>1. \A q \in Run : /\ writes[R(q)] = IF q = r THEN "ended" ELSE draft[s][R(q)]
                       /\ writes[W(q)] = IF q = r THEN "none" ELSE draft[s][W(q)]
    BY <1>2, <1>6, RowParts, RowsDiffer
  <2> QED BY <1>2, <1>3, <1>5, <1>6, <1>7, <2>1, ThenEvolves DEF Active
<1>13. InOrder(s)'
  BY <1>2, <1>4, <1>5, <1>8, <1>9, RowParts DEF InOrder, Missing
<1>14. Calls(s)'
  <2>1. CallFits(s)' /\ CallFits(s)
    BY <1>1, <1>2, <1>8 DEF LockInv, Calls, CallFits
  <2>2. RunFits(s)'
    BY <1>1, <1>2, <1>5, <1>8 DEF RunFits, Nth
  <2> QED BY <1>1, <1>2, <1>8, <2>1, <2>2 DEF Calls, AwaitFits, CancelFits, EmitFits, ClaimFits, CleanupFits
<1> QED BY <1>1, <1>2, <1>3, <1>5, <1>6, <1>7, <1>10, <1>11, <1>12, <1>13, <1>14, ThenKeeps

LEMMA ScheduleRunKeeps ==
  ASSUME LockInv, NEW s \in Session, ScheduleRun(s)
  PROVE  LockInv'
<1>0. PICK r : r = Of(s)
  OBVIOUS
<1> DEFINE t == r[1]
           rows == Nth(1, {T(t)})
           writes == Write(draft[s], {R(r)}, "sleeping")
<1>1. call[s].op = "schedule_run" /\ at[s] = "start" /\ Asks(s) = {}
  BY DEF ScheduleRun, In
<1>2. /\ r \in Run /\ t \in Task /\ R(r) \in held[s] /\ ~Touches(s, t)
      /\ Sees(s, R(r)) = table[R(r)] /\ by[s] \notin {"claim_task", "cleanup_tasks", "emit_event"}
      /\ Good(table) /\ Good(View(s)) /\ Evolves(s)
  BY <1>0, <1>1, OnRun
<1>3. SUFFICES ASSUME table[R(r)] = "running", Then(s, "end", rows, writes) PROVE LockInv'
  BY <1>0, <1>2, RaiseKeeps DEF ScheduleRun
<1>4. R(r) \in Row /\ W(r) \in Row /\ T(t) \in Row /\ r[1] = t
  BY <1>2, RowParts
<1>5. /\ rows \in Lists /\ T(t) \in {p[2] : p \in rows}
      /\ \A p \in rows : p = <<1, T(t)>>
  <2>1. rows \in Lists
    BY <1>4, NthParts, Parameters
  <2>2. <<1, T(t)>> \in rows /\ <<1, T(t)>>[2] = T(t)
    BY DEF Nth
  <2>3. \A p \in rows : p = <<1, T(t)>>
    BY DEF Nth
  <2> HIDE DEF rows
  <2> QED BY <2>1, <2>2, <2>3
<1>6. /\ writes \in Drafts
      /\ \A x \in Row : /\ writes[x] = IF x = R(r) THEN "sleeping" ELSE draft[s][x]
                        /\ Shows(writes, x) = IF x = R(r) THEN "sleeping" ELSE View(s)[x]
  <2>1. /\ writes \in Drafts
        /\ \A x \in Row : /\ Shows(writes, x) = IF x \in {R(r)} THEN "sleeping" ELSE Shows(draft[s], x)
                          /\ writes[x] = IF x \in {R(r)} THEN "sleeping" ELSE draft[s][x]
    BY Drafted, ShowsWrite DEF Value, Active
  <2> HIDE DEF writes
  <2> QED BY <2>1, Drafted
<1> HIDE DEF rows, writes
<1>7. "end" \in Label
  BY DEF Label
<1>8. /\ by'[s] = by[s] /\ call'[s] = call[s] /\ Of(s)' = r /\ loop'[s] = loop[s] /\ held'[s] = held[s]
      /\ at'[s] = "end" /\ todo'[s] = rows /\ draft'[s] = writes /\ table' = table
      /\ \A y : y \in Reach(s)' <=> y \in held[s] \/ \E p \in rows : p[2] = y
      /\ \A y : y \in Rows(s)' <=> \E p \in rows : p[2] = y
      /\ \A u : HasActive(s, u)' <=> HasActive(s, u)
  BY <1>0, <1>3, <1>5, <1>6, <1>7, ThenMoves
<1>9. HasActive(s, t)
  BY <1>2, <1>3, <1>4 DEF HasActive, Active
<1>10. Good(View(s)')
  <2> DEFINE v == View(s) w == View(s)'
  <2>1. \A x \in Row : w[x] = IF x = R(r) THEN "sleeping" ELSE v[x]
    BY <1>3, <1>5, <1>6, <1>7, ThenView
  <2>2. \A q \in Run : /\ w[R(q)] = IF q = r THEN "sleeping" ELSE v[R(q)]
                       /\ w[W(q)] = v[W(q)]
                       /\ w[T(q[1])] = v[T(q[1])]
    BY <1>2, <2>1, RowParts, RowsDiffer, RunParts
  <2>3. v[R(r)] = "running"
    BY <1>2, <1>3, <1>4, Drafted
  <2>4. Good(v)
    BY <1>2
  <2> HIDE DEF v, w
  <2> QED BY <1>2, <1>4, <2>2, <2>3, <2>4 DEF Good, Active, w
<1>11. Owner(s)'
  <2>1. OnlyAbout(s, rows, writes)
    BY <1>0, <1>2, <1>4, <1>5, <1>6, RowParts, RowsDiffer DEF OnlyAbout
  <2>2. T(t) \in Reach(s)' /\ ~Looking(s, t)'
    BY <1>1, <1>5, <1>8 DEF Looking
  <2>3. \A q \in Run : q[1] = t /\ table[R(q)] \in Active => R(q) \in Reach(s)'
    BY <1>2, <1>3, <1>4, <1>8 DEF Good, Active
  <2>4. Owns(s, t)'
    BY <1>8, <1>9, <2>2, <2>3 DEF Owns
  <2> QED BY <1>0, <1>1, <1>2, <1>3, <1>5, <1>6, <1>7, <2>1, <2>4, ThenOwner
<1>12. Evolves(s)'
  <2>1. \A q \in Run : /\ writes[R(q)] = IF q = r THEN "sleeping" ELSE draft[s][R(q)]
                       /\ writes[W(q)] = draft[s][W(q)]
    BY <1>2, <1>6, RowParts, RowsDiffer
  <2> QED BY <1>2, <1>3, <1>5, <1>6, <1>7, <2>1, ThenEvolves DEF Active
<1>13. InOrder(s)'
  BY <1>2, <1>4, <1>5, <1>8, <1>9, RowParts DEF InOrder, Missing
<1>14. Calls(s)'
  <2>1. CallFits(s)' /\ CallFits(s)
    BY <1>1, <1>2, <1>8 DEF LockInv, Calls, CallFits
  <2>2. RunFits(s)'
    BY <1>1, <1>2, <1>5, <1>8 DEF RunFits, Nth
  <2> QED BY <1>1, <1>2, <1>8, <2>1, <2>2 DEF Calls, AwaitFits, CancelFits, EmitFits, ClaimFits, CleanupFits
<1> QED BY <1>1, <1>2, <1>3, <1>5, <1>6, <1>7, <1>10, <1>11, <1>12, <1>13, <1>14, ThenKeeps

LEMMA ThenFailing ==
  ASSUME LockInv, NEW s \in Session, NEW label \in Label, NEW rows \in Lists, NEW writes \in Drafts,
         Then(s, label, rows, writes), call[s].op = "fail_run", label # "start"
  PROVE  ClaimFits(s)' /\ CallFits(s)'
<1>1. /\ by'[s] = by[s] /\ call'[s] = call[s] /\ Of(s)' = Of(s) /\ loop'[s] = loop[s] /\ held'[s] = held[s]
      /\ at'[s] = label /\ table' = table
  BY ThenMoves
<1>2. ClaimFits(s) /\ CallFits(s)
  BY DEF LockInv, Calls
<1>3. CallFits(s)'
  BY <1>1, <1>2 DEF CallFits
<1>4. SUFFICES ASSUME by[s] = "claim_task" PROVE ClaimAt(s)' /\ InCancelling(s)' /\ InFailing(s)'
  BY <1>1, <1>3 DEF ClaimFits
<1>5. InFailing(s)'
  BY <1>1, <1>2, <1>4 DEF ClaimFits, InFailing, Failing
<1> QED BY <1>1, <1>5 DEF ClaimAt, InCancelling, Cancelling

LEMMA FailRunKeeps ==
  ASSUME LockInv, NEW s \in Session, FailRun(s)
  PROVE  LockInv'
<1>0. PICK r : r = Of(s)
  OBVIOUS
<1> DEFINE t == r[1]
           rows == Nth(1, {T(t)})
           writes == draft[s]
<1>1. call[s].op = "fail_run" /\ at[s] = "start" /\ Asks(s) = {}
  BY DEF FailRun, In
<1>2. /\ r \in Run /\ t \in Task /\ R(r) \in held[s] /\ ~Touches(s, t)
      /\ Sees(s, R(r)) = table[R(r)] /\ by[s] \notin {"cleanup_tasks", "emit_event"}
      /\ Good(table) /\ Good(View(s)) /\ Evolves(s)
  BY <1>0, <1>1, OnRun
<1>3. SUFFICES ASSUME table[R(r)] \in {"running", "sleeping"}, Then(s, "task_locked", rows, writes)
               PROVE  LockInv'
  BY <1>0, <1>2, RaiseKeeps DEF FailRun
<1>4. R(r) \in Row /\ W(r) \in Row /\ T(t) \in Row /\ r[1] = t
  BY <1>2, RowParts
<1>5. /\ rows \in Lists /\ T(t) \in {p[2] : p \in rows}
      /\ \A p \in rows : p = <<1, T(t)>>
  <2>1. rows \in Lists
    BY <1>4, NthParts, Parameters
  <2>2. <<1, T(t)>> \in rows /\ <<1, T(t)>>[2] = T(t)
    BY DEF Nth
  <2>3. \A p \in rows : p = <<1, T(t)>>
    BY DEF Nth
  <2> HIDE DEF rows
  <2> QED BY <2>1, <2>2, <2>3
<1>6. writes \in Drafts /\ \A x \in Row : Shows(writes, x) = View(s)[x]
  BY Drafted
<1> HIDE DEF rows
<1>7. "task_locked" \in Label
  BY DEF Label
<1>8. /\ by'[s] = by[s] /\ call'[s] = call[s] /\ Of(s)' = r /\ loop'[s] = loop[s] /\ held'[s] = held[s]
      /\ at'[s] = "task_locked" /\ todo'[s] = rows /\ draft'[s] = writes /\ table' = table
      /\ \A y : y \in Reach(s)' <=> y \in held[s] \/ \E p \in rows : p[2] = y
      /\ \A y : y \in Rows(s)' <=> \E p \in rows : p[2] = y
      /\ \A u : HasActive(s, u)' <=> HasActive(s, u)
  BY <1>0, <1>3, <1>5, <1>6, <1>7, ThenMoves
<1>9. HasActive(s, t)
  BY <1>2, <1>3, <1>4 DEF HasActive, Active
<1>10. Good(View(s)')
  <2>1. View(s)' = View(s)
    BY <1>8 DEF View, Sees
  <2> QED BY <1>2, <2>1
<1>11. Owner(s)'
  <2>1. OnlyAbout(s, rows, writes)
    BY <1>0, <1>2, <1>5, RowsDiffer DEF OnlyAbout
  <2>2. T(t) \in Reach(s)' /\ ~Looking(s, t)'
    BY <1>1, <1>5, <1>8 DEF Looking
  <2>3. \A q \in Run : q[1] = t /\ table[R(q)] \in Active => R(q) \in Reach(s)'
    BY <1>2, <1>3, <1>4, <1>8 DEF Good, Active
  <2>4. Owns(s, t)'
    BY <1>8, <1>9, <2>2, <2>3 DEF Owns
  <2> QED BY <1>0, <1>1, <1>2, <1>3, <1>5, <1>6, <1>7, <2>1, <2>4, ThenOwner
<1>12. Evolves(s)'
  BY <1>2, <1>3, <1>5, <1>6, <1>7, ThenEvolves
<1>13. InOrder(s)'
  BY <1>2, <1>4, <1>5, <1>8, <1>9, RowParts DEF InOrder, Missing
<1>14. Calls(s)'
  <2>1. ClaimFits(s)' /\ CallFits(s)'
    BY <1>1, <1>3, <1>5, <1>6, <1>7, ThenFailing
  <2>2. ~Touches(s, t)'
    BY <1>2, <1>8 DEF Touches, Written
  <2>3. RunFits(s)'
    BY <1>1, <1>2, <1>3, <1>8, <2>2 DEF RunFits, rows
  <2> QED BY <1>1, <1>2, <1>8, <2>1, <2>3 DEF Calls, AwaitFits, CancelFits, EmitFits, CleanupFits
<1> QED BY <1>1, <1>2, <1>3, <1>5, <1>6, <1>7, <1>10, <1>11, <1>12, <1>13, <1>14, ThenKeeps

LEMMA DecideRetryKeeps ==
  ASSUME LockInv, NEW s \in Session, DecideRetry(s)
  PROVE  LockInv'
<1>0. PICK r : r = Of(s)
  OBVIOUS
<1> DEFINE t == r[1]
           next == <<t, r[2] + 1>>
           failing == Write(draft[s], {R(r)}, "failed")
           failed == Write(failing, {W(r)}, "none")
           rows == Nth(1, Present(s, {W(r)}))
<1>1. call[s].op = "fail_run" /\ at[s] = "task_locked" /\ Asks(s) = {}
  BY DEF DecideRetry, In
<1>2. /\ r \in Run /\ t \in Task /\ R(r) \in held[s] /\ ~Touches(s, t)
      /\ Sees(s, R(r)) = table[R(r)] /\ by[s] \notin {"cleanup_tasks", "emit_event"}
      /\ Good(table) /\ Good(View(s)) /\ Evolves(s)
      /\ T(t) \in held[s] /\ table[R(r)] \in {"running", "sleeping"}
  BY <1>0, <1>1, OnRun
<1>3. \/ \E state \in {"pending", "sleeping"} :
           r[2] < MaxRuns /\ Then(s, "end", rows, Write(failed, {R(next)}, state))
      \/ \E state \in {"failed", "ended"} : Then(s, "end", rows, Write(failed, {T(t)}, state))
  BY <1>0 DEF DecideRetry
<1>4. R(r) \in Row /\ W(r) \in Row /\ T(t) \in Row /\ r[1] = t
  BY <1>2, RowParts
<1>5. rows \in Lists /\ \A p \in rows : p = <<1, W(r)>>
  <2>1. rows \in Lists
    BY <1>4, NthParts, Parameters DEF Present
  <2> QED BY <2>1 DEF Nth, Present
<1>6. /\ failed \in Drafts
      /\ \A x \in Row : /\ failed[x] = IF x = W(r) THEN "none" ELSE IF x = R(r) THEN "failed" ELSE draft[s][x]
                        /\ Shows(failed, x) = IF x = W(r) THEN "none" ELSE IF x = R(r) THEN "failed"
                                              ELSE View(s)[x]
  <2>1. /\ failing \in Drafts
        /\ \A x \in Row : /\ Shows(failing, x) = IF x \in {R(r)} THEN "failed" ELSE Shows(draft[s], x)
                          /\ failing[x] = IF x \in {R(r)} THEN "failed" ELSE draft[s][x]
    BY Drafted, ShowsWrite DEF Value
  <2> HIDE DEF failing
  <2>2. /\ failed \in Drafts
        /\ \A x \in Row : /\ Shows(failed, x) = IF x \in {W(r)} THEN "none" ELSE Shows(failing, x)
                          /\ failed[x] = IF x \in {W(r)} THEN "none" ELSE failing[x]
    BY <2>1, ShowsWrite DEF Value
  <2> HIDE DEF failed
  <2> QED BY <2>1, <2>2, Drafted
<1> HIDE DEF rows, failed
<1>7. "end" \in Label
  BY DEF Label
<1>8. View(s)[R(r)] = table[R(r)] /\ View(s)[R(r)] \in Active /\ table[R(r)] \in Active
  BY <1>2, <1>4, Drafted DEF Active
<1>9. ASSUME NEW writes \in Drafts, Then(s, "end", rows, writes)
      PROVE  /\ by'[s] = by[s] /\ call'[s] = call[s] /\ Of(s)' = r /\ loop'[s] = loop[s] /\ held'[s] = held[s]
             /\ at'[s] = "end" /\ todo'[s] = rows /\ draft'[s] = writes /\ table' = table
             /\ InOrder(s)' /\ Calls(s)'
             /\ (\A x \in Row : x[2] # t => writes[x] = draft[s][x]) => Owner(s)'
  <2>1. /\ by'[s] = by[s] /\ call'[s] = call[s] /\ Of(s)' = r /\ loop'[s] = loop[s] /\ held'[s] = held[s]
        /\ at'[s] = "end" /\ todo'[s] = rows /\ draft'[s] = writes /\ table' = table
        /\ \A y : y \in Reach(s)' <=> y \in held[s] \/ \E p \in rows : p[2] = y
    BY <1>0, <1>5, <1>7, <1>9, ThenMoves
  <2>2. InOrder(s)'
    BY <1>2, <1>5, <2>1, RowParts DEF InOrder, Missing
  <2>3. Calls(s)'
    <3>1. ClaimFits(s)' /\ CallFits(s)'
      BY <1>1, <1>5, <1>7, <1>9, ThenFailing
    <3>2. todo'[s] \subseteq Nth(1, {W(r)})
      BY <1>5, <2>1 DEF Nth
    <3>3. RunFits(s)'
      BY <1>1, <1>2, <2>1, <3>2 DEF RunFits
    <3> QED BY <1>1, <1>2, <2>1, <3>1, <3>3 DEF Calls, AwaitFits, CancelFits, EmitFits, CleanupFits
  <2>4. ASSUME \A x \in Row : x[2] # t => writes[x] = draft[s][x] PROVE Owner(s)'
    <3>1. OnlyAbout(s, rows, writes)
      BY <1>0, <1>2, <1>5, <2>4, RowsDiffer DEF OnlyAbout
    <3>2. T(t) \in Reach(s)' /\ ~Looking(s, t)'
      BY <1>1, <1>2, <2>1 DEF Looking
    <3>3. \A q \in Run : q[1] = t /\ table[R(q)] \in Active => R(q) \in Reach(s)'
      BY <1>2, <1>4, <1>8, <2>1 DEF Good
    <3>4. Owns(s, t)'
      BY <1>2, <2>1, <3>2, <3>3 DEF Owns
    <3> QED BY <1>0, <1>1, <1>2, <1>5, <1>7, <1>9, <3>1, <3>4, ThenOwner
  <2> QED BY <2>1, <2>2, <2>3, <2>4
<1>10. ASSUME NEW state \in {"pending", "sleeping"}, r[2] < MaxRuns,
              Then(s, "end", rows, Write(failed, {R(next)}, state))
       PROVE  LockInv'
  <2> DEFINE writes == Write(failed, {R(next)}, state)
  <2>1. /\ next \in Run /\ next # r /\ next[1] = t /\ next[2] = r[2] + 1 /\ R(next) \in Row
        /\ r[2] \in Nat /\ r[2] < next[2]
    <3>1. next \in Run /\ next[1] = t /\ next[2] = r[2] + 1 /\ r[2] \in Nat
      BY <1>2, <1>10, RunParts, LockAssumption DEF Run
    <3> QED BY <3>1, RowParts
  <2>2. state \in Value /\ state \in Active
    BY DEF Value, Active
  <2>3. /\ writes \in Drafts
        /\ \A x \in Row : /\ Shows(writes, x) = IF x \in {R(next)} THEN state ELSE Shows(failed, x)
                          /\ writes[x] = IF x \in {R(next)} THEN state ELSE failed[x]
    BY <1>6, <2>2, ShowsWrite
  <2> HIDE DEF writes, next
  <2>4. Then(s, "end", rows, writes)
    BY <1>10 DEF writes
  <2>5. InOrder(s)' /\ Calls(s)'
    BY <1>9, <2>3, <2>4
  <2>6. Owner(s)'
    <3>1. \A x \in Row : x[2] # t => writes[x] = draft[s][x]
      BY <1>2, <1>6, <2>1, <2>3, RowParts
    <3> QED BY <1>9, <2>3, <2>4, <3>1
  <2>7. /\ table[R(next)] = "none" /\ View(s)[R(next)] = "none"
        /\ Born(next)
    <3>1. table[R(next)] = "none" /\ View(s)[R(next)] = "none"
      BY <1>2, <1>8, <2>1 DEF Good
    <3> QED BY <1>2, <1>8, <2>1, <3>1 DEF Born
  <2>8. Evolves(s)'
    <3>1. \A q \in Run : /\ writes[R(q)] = IF q = next THEN state ELSE IF q = r THEN "failed" ELSE draft[s][R(q)]
                         /\ writes[W(q)] = IF q = r THEN "none" ELSE draft[s][W(q)]
      BY <1>2, <1>6, <2>1, <2>3, RowParts, RowsDiffer
    <3> QED BY <1>2, <1>5, <1>7, <2>2, <2>3, <2>4, <2>7, <3>1, ThenEvolves DEF Active
  <2>9. Good(View(s)')
    <3> DEFINE v == View(s) w == View(s)'
    <3>1. \A x \in Row : w[x] = IF x = R(next) THEN state ELSE IF x = W(r) THEN "none" ELSE
                                IF x = R(r) THEN "failed" ELSE v[x]
      BY <1>5, <1>6, <1>7, <2>3, <2>4, ThenView
    <3>2. \A q \in Run : /\ w[R(q)] = IF q = next THEN state ELSE IF q = r THEN "failed" ELSE v[R(q)]
                         /\ w[W(q)] = IF q = r THEN "none" ELSE v[W(q)]
                         /\ w[T(q[1])] = v[T(q[1])]
      BY <1>2, <2>1, <3>1, RowParts, RowsDiffer, RunParts
    <3>3. v[R(r)] \in Active /\ v[R(next)] = "none" /\ Good(v) /\ "none" \notin Active /\ "failed" \notin Active
          /\ "sleeping" \in Active
      BY <1>2, <1>8, <2>7 DEF Active
    <3> HIDE DEF v, w
    <3>4. \A q \in Run : w[R(q)] \in Active /\ q[1] = t => q = next
      BY <1>2, <3>2, <3>3 DEF Good
    <3>5. \A q \in Run : q[1] # t => w[R(q)] = v[R(q)] /\ w[T(q[1])] = v[T(q[1])] /\ w[W(q)] = v[W(q)]
      BY <2>1, <3>2
    <3>6. \A q, o \in Run : q[1] = o[1] /\ w[R(q)] \in Active /\ w[R(o)] \in Active => q = o
      BY <3>3, <3>4, <3>5 DEF Good
    <3>7. \A q \in Run : w[R(q)] \in Active => w[T(q[1])] \notin {"failed", "ended"}
      BY <1>2, <2>1, <3>2, <3>3, <3>4, <3>5 DEF Good
    <3>8. \A q \in Run : w[W(q)] = "row" => w[R(q)] = "sleeping"
      BY <3>2, <3>3 DEF Good
    <3>9. \A q, o \in Run : q[1] = o[1] /\ w[R(q)] \in Active /\ q[2] < o[2] => w[R(o)] = "none"
      <4>1. ASSUME NEW o \in Run, o[1] = t, next[2] < o[2] PROVE w[R(o)] = "none"
        <5>1. r[2] < o[2] /\ o # next /\ o # r
          BY <2>1, <4>1, RunParts
        <5> QED BY <1>2, <3>2, <3>3, <4>1, <5>1 DEF Good
      <4> QED BY <3>3, <3>4, <3>5, <4>1 DEF Good
    <3> QED BY <3>6, <3>7, <3>8, <3>9 DEF Good, w
  <2> QED BY <1>1, <1>2, <1>5, <1>7, <2>3, <2>4, <2>5, <2>6, <2>8, <2>9, ThenKeeps
<1>11. ASSUME NEW state \in {"failed", "ended"}, Then(s, "end", rows, Write(failed, {T(t)}, state))
       PROVE  LockInv'
  <2> DEFINE writes == Write(failed, {T(t)}, state)
  <2>1. state \in Value
    BY DEF Value
  <2>2. /\ writes \in Drafts
        /\ \A x \in Row : /\ Shows(writes, x) = IF x \in {T(t)} THEN state ELSE Shows(failed, x)
                          /\ writes[x] = IF x \in {T(t)} THEN state ELSE failed[x]
    BY <1>6, <2>1, ShowsWrite
  <2> HIDE DEF writes
  <2>3. Then(s, "end", rows, writes)
    BY <1>11 DEF writes
  <2>4. InOrder(s)' /\ Calls(s)'
    BY <1>9, <2>2, <2>3
  <2>5. Owner(s)'
    <3>1. \A x \in Row : x[2] # t => writes[x] = draft[s][x]
      BY <1>2, <1>6, <2>2, RowParts
    <3> QED BY <1>9, <2>2, <2>3, <3>1
  <2>6. Evolves(s)'
    <3>1. \A q \in Run : /\ writes[R(q)] = IF q = r THEN "failed" ELSE draft[s][R(q)]
                         /\ writes[W(q)] = IF q = r THEN "none" ELSE draft[s][W(q)]
      BY <1>2, <1>6, <2>2, RowParts, RowsDiffer
    <3> QED BY <1>2, <1>5, <1>7, <2>2, <2>3, <3>1, ThenEvolves DEF Active
  <2>7. Good(View(s)')
    <3> DEFINE v == View(s) w == View(s)'
    <3>1. \A x \in Row : w[x] = IF x = T(t) THEN state ELSE IF x = W(r) THEN "none" ELSE
                                IF x = R(r) THEN "failed" ELSE v[x]
      BY <1>5, <1>6, <1>7, <2>2, <2>3, ThenView
    <3>2. \A q \in Run : /\ w[R(q)] = IF q = r THEN "failed" ELSE v[R(q)]
                         /\ w[W(q)] = IF q = r THEN "none" ELSE v[W(q)]
                         /\ w[T(q[1])] = IF q[1] = t THEN state ELSE v[T(q[1])]
      BY <1>2, <3>1, RowParts, RowsDiffer, RunParts
    <3>3. v[R(r)] \in Active /\ Good(v) /\ "failed" \notin Active
      BY <1>2, <1>8 DEF Active
    <3> HIDE DEF v, w
    <3>4. \A q \in Run : q[1] = t => w[R(q)] \notin Active
      BY <1>2, <3>2, <3>3 DEF Good
    <3> QED BY <1>2, <3>2, <3>3, <3>4 DEF Good, w
  <2> QED BY <1>1, <1>2, <1>5, <1>7, <2>2, <2>3, <2>4, <2>5, <2>6, <2>7, ThenKeeps
<1> QED BY <1>3, <1>10, <1>11

(* await_event *)

LEMMA Awaits ==
  ASSUME LockInv, NEW s \in Session, call[s].op = "await_event", at[s] # "end"
  PROVE  /\ Of(s) \in Run /\ Of(s)[1] \in Task /\ by[s] = "await_event" /\ loop[s] = {}
         /\ \A x \in Row : Written(s, x) => x = E
         /\ \A t \in Task : ~Touches(s, t)
         /\ Good(table) /\ Good(View(s)) /\ Evolves(s)
         /\ at[s] = "start" => held[s] = {}
         /\ at[s] = "event_locked" => held[s] \subseteq {E, EShare}
<1>1. AwaitFits(s) /\ CallFits(s)
  BY DEF LockInv, Calls
<1>2. Of(s) \in Run /\ Of(s)[1] \in Task /\ by[s] = "await_event" /\ loop[s] = {}
  BY <1>1, RunParts DEF AwaitFits, CallFits
<1>3. \A x \in Row : Written(s, x) => x = E
  BY <1>1 DEF AwaitFits
<1>4. \A t \in Task : ~Touches(s, t)
  BY <1>3, RowParts, RowsDiffer DEF Touches
<1>5. Good(table) /\ Good(View(s)) /\ Evolves(s)
  BY <1>2 DEF LockInv, Order
<1> QED BY <1>1, <1>2, <1>3, <1>4, <1>5 DEF AwaitFits

LEMMA InsertEventKeeps ==
  ASSUME LockInv, NEW s \in Session, InsertEvent(s)
  PROVE  LockInv'
<1>0. call[s].op = "await_event" /\ at[s] = "start" /\ Free(s, EInsert)
  BY DEF InsertEvent
<1>1. /\ Of(s) \in Run /\ by[s] = "await_event" /\ loop[s] = {} /\ held[s] = {}
      /\ \A x \in Row : Written(s, x) => x = E
      /\ \A t \in Task : ~Touches(s, t)
      /\ Good(table) /\ Good(View(s)) /\ Evolves(s)
  BY <1>0, Awaits
<1>2. Types /\ Exclusive
  BY DEF LockInv
<1>3. ASSUME Then(s, "event_locked", Nth(1, {EShare}), draft[s]) PROVE LockInv'
  <2> DEFINE rows == Nth(1, {EShare})
  <2>1. rows \in Lists /\ \A p \in rows : p[2] = EShare
    BY NthOne, Parameters
  <2>2. draft[s] \in Drafts /\ "event_locked" \in Label
    BY Drafted DEF Label
  <2> HIDE DEF rows
  <2>3. Then(s, "event_locked", rows, draft[s])
    BY <1>3 DEF rows
  <2>4. /\ by'[s] = by[s] /\ call'[s] = call[s] /\ Of(s)' = Of(s) /\ loop'[s] = loop[s] /\ held'[s] = held[s]
        /\ at'[s] = "event_locked" /\ todo'[s] = rows /\ draft'[s] = draft[s] /\ table' = table
        /\ \A y : y \in Reach(s)' <=> y \in held[s] \/ \E p \in rows : p[2] = y
    BY <2>1, <2>2, <2>3, ThenMoves
  <2>5. Good(View(s)')
    <3>1. View(s)' = View(s)
      BY <2>4 DEF View, Sees
    <3> QED BY <1>1, <3>1
  <2>6. Owner(s)'
    <3>1. \A t \in Task : ~Touches(s, t)' /\ T(t) \notin Reach(s)'
      BY <1>1, <2>1, <2>4, RowsDiffer DEF Touches, Written
    <3> QED BY <3>1 DEF Owner, Owns
  <2>7. Evolves(s)'
    BY <1>1, <2>1, <2>2, <2>3, ThenEvolves
  <2>8. InOrder(s)'
    BY <1>1, <2>4 DEF InOrder
  <2>9. Calls(s)'
    <3>1. AwaitFits(s)'
      BY <1>0, <1>1, <2>4 DEF AwaitFits, Written, rows
    <3> QED BY <1>0, <1>1, <2>4, <3>1 DEF Calls, CallFits, RunFits, CancelFits, EmitFits, ClaimFits, CleanupFits
  <2> QED BY <1>0, <1>1, <2>1, <2>2, <2>3, <2>5, <2>6, <2>7, <2>8, <2>9, ThenKeeps
<1>4. ASSUME /\ held' = [held EXCEPT ![s] = @ \cup {E}]
             /\ draft' = [draft EXCEPT ![s] = Write(@, {E}, "sentinel")]
             /\ at' = [at EXCEPT ![s] = "event_locked"]
             /\ todo' = [todo EXCEPT ![s] = {}]
             /\ UNCHANGED <<table, by, call, loop>>
      PROVE  LockInv'
  <2> DEFINE writes == Write(draft[s], {E}, "sentinel")
  <2>1. /\ writes \in Drafts
        /\ \A x \in Row : /\ Shows(writes, x) = IF x = E THEN "sentinel" ELSE View(s)[x]
                          /\ writes[x] = IF x = E THEN "sentinel" ELSE draft[s][x]
    <3>1. "sentinel" \in Value
      BY DEF Value
    <3> HIDE DEF writes
    <3>2. /\ writes \in Drafts
          /\ \A x \in Row : /\ Shows(writes, x) = IF x \in {E} THEN "sentinel" ELSE Shows(draft[s], x)
                            /\ writes[x] = IF x \in {E} THEN "sentinel" ELSE draft[s][x]
      BY <3>1, Drafted, ShowsWrite DEF writes
    <3> QED BY <3>2, Drafted
  <2> HIDE DEF writes
  <2>2. draft' = [draft EXCEPT ![s] = writes]
    BY <1>4 DEF writes
  <2>3. /\ by'[s] = by[s] /\ call'[s] = call[s] /\ Of(s)' = Of(s) /\ loop'[s] = loop[s] /\ held'[s] = {E}
        /\ at'[s] = "event_locked" /\ todo'[s] = {} /\ draft'[s] = writes /\ table' = table
    BY <1>1, <1>2, <1>4, <2>2 DEF Types, Of
  <2>4. Types' /\ OnlyMoves(s)
    <3>1. TypesOf(s)'
      BY <1>2, <2>1, <2>3, RowParts DEF TypesOf, Types, Drafts, Label
    <3>2. Moves(s)
      BY <1>4, <2>2, <2>3 DEF Moves
    <3> QED BY <1>2, <2>3, <3>1, <3>2, Moved DEF Types
  <2>5. Exclusive'
    <3>1. \A u \in Session : u # s => E \notin held[u]
      BY <1>0 DEF Free, Conflict
    <3> QED BY <1>2, <2>3, <2>4, <3>1 DEF Exclusive, OnlyMoves, Still
  <2>6. Good(View(s)')
    <3>1. \A r \in Run : /\ View(s)'[R(r)] = View(s)[R(r)] /\ View(s)'[W(r)] = View(s)[W(r)]
                         /\ View(s)'[T(r[1])] = View(s)[T(r[1])]
      <4>1. \A x \in Row : View(s)'[x] = Shows(writes, x)
        BY <2>3 DEF View, Sees, Shows
      <4> QED BY <2>1, <4>1, RowParts, RowsDiffer, RunParts
    <3> HIDE DEF View
    <3> QED BY <1>1, <3>1 DEF Good
  <2>7. Owner(s)'
    <3>1. \A t \in Task : ~Touches(s, t)' /\ T(t) \notin Reach(s)'
      BY <1>1, <2>1, <2>3, RowParts, RowsDiffer DEF Touches, Written, Reach, Rows
    <3> QED BY <3>1 DEF Owner, Owns
  <2>8. Evolves(s)'
    <3>1. \A r \in Run : writes[R(r)] = draft[s][R(r)] /\ writes[W(r)] = draft[s][W(r)]
      BY <2>1, RowParts, RowsDiffer
    <3> QED BY <1>1, <2>3, <3>1 DEF Evolves, Written, Born
  <2>9. LastRows(s)' /\ InOrder(s)' /\ OneTask(s)'
    <3>1. LastRows(s)'
      BY <2>3, RowsDiffer DEF LastRows
    <3>2. InOrder(s)'
      BY <2>3 DEF InOrder, Missing
    <3>3. OneTask(s)'
      BY <2>3, RowParts DEF OneTask
    <3> QED BY <3>1, <3>2, <3>3
  <2>10. Calls(s)'
    <3>1. AwaitFits(s)'
      BY <1>0, <1>1, <2>1, <2>3 DEF AwaitFits, Written
    <3> QED BY <1>0, <1>1, <2>3, <3>1 DEF Calls, CallFits, RunFits, CancelFits, EmitFits, ClaimFits, CleanupFits
  <2>11. Order(s)'
    BY <2>6, <2>7, <2>8, <2>9 DEF Order, Good
  <2> QED BY <2>3, <2>4, <2>5, <2>10, <2>11, OneMoves
<1> QED BY <1>3, <1>4 DEF InsertEvent

LEMMA LockRunAndTaskKeeps ==
  ASSUME LockInv, NEW s \in Session, LockRunAndTask(s)
  PROVE  LockInv'
<1>0. PICK r : r = Of(s)
  OBVIOUS
<1> DEFINE t == r[1]
           rows == Nth(1, {R(r)}) \cup Nth(2, {T(t)})
<1>1. call[s].op = "await_event" /\ at[s] = "event_locked" /\ Asks(s) = {}
  BY DEF LockRunAndTask, In
<1>2. /\ r \in Run /\ t \in Task /\ by[s] = "await_event" /\ loop[s] = {} /\ held[s] \subseteq {E, EShare}
      /\ \A x \in Row : Written(s, x) => x = E
      /\ \A u \in Task : ~Touches(s, u)
      /\ Good(table) /\ Good(View(s)) /\ Evolves(s)
  BY <1>0, <1>1, Awaits
<1>3. rows \in Lists /\ \A p \in rows : p[2] \in {R(r), T(t)}
  <2>1. R(r) \in Lockable /\ T(t) \in Lockable
    BY <1>2, RowParts, Parameters
  <2>2. /\ Nth(1, {R(r)}) \in Lists /\ \A p \in Nth(1, {R(r)}) : p[2] = R(r)
        /\ Nth(2, {T(t)}) \in Lists /\ \A p \in Nth(2, {T(t)}) : p[2] = T(t)
    BY <2>1, NthOne
  <2> QED BY <2>2 DEF Lists
<1> HIDE DEF rows
<1>4. draft[s] \in Drafts /\ "run_locked" \in Label
  BY Drafted DEF Label
<1>5. Then(s, "run_locked", rows, draft[s])
  BY <1>0 DEF LockRunAndTask, rows
<1>6. /\ by'[s] = by[s] /\ call'[s] = call[s] /\ Of(s)' = r /\ loop'[s] = loop[s] /\ held'[s] = held[s]
      /\ at'[s] = "run_locked" /\ todo'[s] = rows /\ draft'[s] = draft[s] /\ table' = table
      /\ \A y : y \in Reach(s)' <=> y \in held[s] \/ \E p \in rows : p[2] = y
  BY <1>0, <1>3, <1>4, <1>5, ThenMoves
<1>7. Good(View(s)')
  <2>1. View(s)' = View(s)
    BY <1>6 DEF View, Sees
  <2> QED BY <1>2, <2>1
<1>8. Owner(s)'
  <2>1. \A u \in Task : ~Touches(s, u)'
    BY <1>2, <1>6 DEF Touches, Written
  <2>2. \A u \in Task : T(u) \in Reach(s)' => u = t
    BY <1>2, <1>3, <1>6, RowsDiffer
  <2>3. Looking(s, t)'
    BY <1>1, <1>6 DEF Looking
  <2> QED BY <2>1, <2>2, <2>3 DEF Owner, Owns
<1>9. Evolves(s)'
  BY <1>2, <1>3, <1>4, <1>5, ThenEvolves
<1>10. InOrder(s)'
  <2>1. \A y \in held[s] : y[2] = 0
    BY <1>2, RowParts
  <2>2. R(r)[2] = t /\ T(t)[2] = t /\ 0 < t
    BY <1>2, RowParts, RunParts
  <2> QED BY <1>3, <1>6, <2>1, <2>2 DEF InOrder, Missing, Before
<1>11. Calls(s)'
  <2>1. AwaitFits(s)'
    BY <1>1, <1>2, <1>6 DEF AwaitFits, Written, rows
  <2> QED BY <1>1, <1>2, <1>6, <2>1 DEF Calls, CallFits, RunFits, CancelFits, EmitFits, ClaimFits, CleanupFits
<1> QED BY <1>1, <1>2, <1>3, <1>4, <1>5, <1>7, <1>8, <1>9, <1>10, <1>11, ThenKeeps

LEMMA AwaitEventKeeps ==
  ASSUME LockInv, NEW s \in Session, AwaitEvent(s)
  PROVE  LockInv'
<1>0. PICK r : r = Of(s)
  OBVIOUS
<1> DEFINE t == r[1]
           checkpoint == Nth(1, {C(t)})
           waits == Nth(1, Present(s, {W(r)}))
           sleeping == Write(draft[s], {R(r)}, "sleeping")
           writes == Write(sleeping, {W(r)}, "row")
<1>1. call[s].op = "await_event" /\ at[s] = "run_locked" /\ Asks(s) = {}
  BY DEF AwaitEvent, In
<1>2. /\ r \in Run /\ t \in Task /\ by[s] = "await_event" /\ loop[s] = {}
      /\ \A x \in Row : Written(s, x) => x = E
      /\ \A u \in Task : ~Touches(s, u)
      /\ Good(table) /\ Good(View(s)) /\ Evolves(s)
  BY <1>0, <1>1, Awaits
<1>3. R(r) \in Row /\ W(r) \in Row /\ T(t) \in Row /\ C(t) \in Row /\ r[1] = t
  BY <1>2, RowParts
<1>4. R(r) \in held[s] /\ T(t) \in held[s]
  <2>1. todo[s] = Nth(1, {R(r)}) \cup Nth(2, {T(t)})
    BY <1>0, <1>1 DEF LockInv, Calls, AwaitFits
  <2>2. <<1, R(r)>> \in todo[s] /\ <<2, T(t)>> \in todo[s]
    BY <2>1 DEF Nth
  <2>3. R(r) \in Rows(s) /\ T(t) \in Rows(s)
    BY <2>2, InRows
  <2> QED BY <1>1, <2>3, HasAll
<1>5. Sees(s, R(r)) = table[R(r)]
  BY <1>2, NotTouched
<1>6. SUFFICES ASSUME table[R(r)] = "running",
                      \/ Then(s, "end", checkpoint, draft[s])
                      \/ Return(s)
                      \/ Then(s, "end", waits, writes)
               PROVE  LockInv'
  BY <1>0, <1>5, RaiseKeeps DEF AwaitEvent
<1>7. "end" \in Label /\ draft[s] \in Drafts
  BY Drafted DEF Label
<1>8. View(s)[R(r)] = "running" /\ "running" \in Active /\ "sleeping" \in Active
  BY <1>3, <1>5, <1>6, Drafted DEF Active
<1>9. ASSUME NEW rows \in Lists, NEW d \in Drafts, Then(s, "end", rows, d),
             rows \subseteq Nth(1, {W(r)}) \/ rows = Nth(1, {C(t)}),
             \A p \in rows : p[2] \in {W(r), C(t)},
             \A x \in Row : x[2] # t => d[x] = draft[s][x],
             Good(View(s)'), Evolves(s)'
      PROVE  LockInv'
  <2>1. /\ by'[s] = by[s] /\ call'[s] = call[s] /\ Of(s)' = r /\ loop'[s] = loop[s] /\ held'[s] = held[s]
        /\ at'[s] = "end" /\ todo'[s] = rows /\ draft'[s] = d /\ table' = table
        /\ \A y : y \in Reach(s)' <=> y \in held[s] \/ \E p \in rows : p[2] = y
    BY <1>0, <1>7, <1>9, ThenMoves
  <2>2. InOrder(s)'
    BY <1>2, <1>9, <2>1, RowParts DEF InOrder, Missing
  <2>3. Owner(s)'
    <3>1. OnlyAbout(s, rows, d)
      BY <1>0, <1>2, <1>9, RowsDiffer DEF OnlyAbout
    <3>2. T(t) \in Reach(s)' /\ ~Looking(s, t)'
      BY <1>1, <1>4, <2>1 DEF Looking
    <3>3. \A q \in Run : q[1] = t /\ table[R(q)] \in Active => R(q) \in Reach(s)'
      BY <1>2, <1>4, <1>6, <1>8, <2>1 DEF Good
    <3>4. Owns(s, t)'
      BY <1>4, <2>1, <3>2, <3>3 DEF Owns
    <3> QED BY <1>0, <1>1, <1>2, <1>7, <1>9, <3>1, <3>4, ThenOwner
  <2>4. Calls(s)'
    <3>1. AwaitFits(s)'
      BY <1>1, <1>2, <1>4, <1>9, <2>1 DEF AwaitFits
    <3> QED BY <1>1, <1>2, <2>1, <3>1 DEF Calls, CallFits, RunFits, CancelFits, EmitFits, ClaimFits, CleanupFits
  <2> QED BY <1>1, <1>2, <1>7, <1>9, <2>2, <2>3, <2>4, ThenKeeps
<1>10. CASE Return(s)
  <2>1. Commit(s)
    BY <1>1, <1>2, <1>10 DEF Return
  <2> QED BY <1>1, <2>1, CommitKeeps
<1>11. CASE Then(s, "end", checkpoint, draft[s])
  <2>1. checkpoint \in Lists /\ \A p \in checkpoint : p[2] = C(t)
    BY <1>3, NthOne, Parameters
  <2> HIDE DEF checkpoint
  <2>2. Good(View(s)')
    <3>1. View(s)' = View(s)
      <4>1. draft'[s] = draft[s] /\ table' = table
        BY <1>7, <1>11, <2>1, ThenMoves
      <4> QED BY <4>1 DEF View, Sees
    <3> QED BY <1>2, <3>1
  <2>3. Evolves(s)'
    BY <1>2, <1>7, <1>11, <2>1, ThenEvolves
  <2>4. checkpoint = Nth(1, {C(t)})
    BY DEF checkpoint
  <2> QED BY <1>7, <1>9, <1>11, <2>1, <2>2, <2>3, <2>4
<1>12. CASE Then(s, "end", waits, writes)
  <2>1. waits \in Lists /\ waits \subseteq Nth(1, {W(r)}) /\ \A p \in waits : p[2] = W(r)
    <3>1. Present(s, {W(r)}) \in SUBSET Lockable /\ Present(s, {W(r)}) \subseteq {W(r)}
      BY <1>3, Parameters DEF Present
    <3>2. waits \in Lists /\ \A p \in waits : p[2] \in Present(s, {W(r)})
      BY <3>1, NthParts
    <3>3. waits \subseteq Nth(1, {W(r)})
      BY <3>1 DEF Nth
    <3> QED BY <3>1, <3>2, <3>3
  <2>2. /\ writes \in Drafts
        /\ \A x \in Row : /\ writes[x] = IF x = W(r) THEN "row" ELSE IF x = R(r) THEN "sleeping" ELSE draft[s][x]
                          /\ Shows(writes, x) = IF x = W(r) THEN "row" ELSE IF x = R(r) THEN "sleeping"
                                                ELSE View(s)[x]
    <3>1. /\ sleeping \in Drafts
          /\ \A x \in Row : /\ Shows(sleeping, x) = IF x \in {R(r)} THEN "sleeping" ELSE Shows(draft[s], x)
                            /\ sleeping[x] = IF x \in {R(r)} THEN "sleeping" ELSE draft[s][x]
      BY Drafted, ShowsWrite DEF Value, Active
    <3> HIDE DEF sleeping
    <3>2. /\ writes \in Drafts
          /\ \A x \in Row : /\ Shows(writes, x) = IF x \in {W(r)} THEN "row" ELSE Shows(sleeping, x)
                            /\ writes[x] = IF x \in {W(r)} THEN "row" ELSE sleeping[x]
      BY <3>1, ShowsWrite DEF Value
    <3> HIDE DEF writes
    <3> QED BY <3>1, <3>2, Drafted
  <2> HIDE DEF waits, writes
  <2>3. \A x \in Row : x[2] # t => writes[x] = draft[s][x]
    BY <1>2, <2>2, RowParts
  <2>4. Evolves(s)'
    <3>1. \A q \in Run : /\ writes[R(q)] = IF q = r THEN "sleeping" ELSE draft[s][R(q)]
                         /\ writes[W(q)] = IF q = r THEN "row" ELSE draft[s][W(q)]
      BY <1>2, <2>2, RowParts, RowsDiffer
    <3>2. \A q \in Run : /\ \/ writes[R(q)] = draft[s][R(q)]
                            \/ writes[R(q)] \in Active /\ table[R(q)] \in Active
                         /\ writes[W(q)] = "row" => writes[W(q)] = draft[s][W(q)] \/ writes[R(q)] # "unwritten"
      BY <1>6, <1>8, <3>1
    <3> QED BY <1>2, <1>7, <1>12, <2>1, <2>2, <3>2, ThenEvolves
  <2>5. Good(View(s)')
    <3> DEFINE v == View(s) w == View(s)'
    <3>1. \A x \in Row : w[x] = IF x = W(r) THEN "row" ELSE IF x = R(r) THEN "sleeping" ELSE v[x]
      BY <1>7, <1>12, <2>1, <2>2, ThenView
    <3>2. \A q \in Run : /\ w[R(q)] = IF q = r THEN "sleeping" ELSE v[R(q)]
                         /\ w[W(q)] = IF q = r THEN "row" ELSE v[W(q)]
                         /\ w[T(q[1])] = v[T(q[1])]
      BY <1>2, <3>1, RowParts, RowsDiffer, RunParts
    <3>3. v[R(r)] = "running" /\ Good(v)
      BY <1>2, <1>8
    <3> HIDE DEF v, w
    <3> QED BY <1>2, <1>8, <3>2, <3>3 DEF Good, w
  <2> QED BY <1>7, <1>9, <1>12, <2>1, <2>2, <2>3, <2>4, <2>5
<1> QED BY <1>6, <1>10, <1>11, <1>12

(* emit_event *)

LEMMA WakeRunsKeeps ==
  ASSUME LockInv, NEW s \in Session, WakeRuns(s)
  PROVE  LockInv'
<1>1. call[s].op = "emit_event" /\ at[s] = "start" /\ Asks(s) = {} /\ by[s] = "emit_event"
  BY EmitOp DEF WakeRuns, In
<1>2. /\ held[s] \subseteq {E} /\ E \in held[s] /\ loop[s] = {}
      /\ \A x \in Row : draft[s][x] = "unwritten"
      /\ Good(table) /\ Good(View(s))
  <2>1. EmitFits(s) /\ CallFits(s) /\ Order(s)
    BY DEF LockInv, Calls
  <2>2. todo[s] = Nth(1, {E}) /\ held[s] \subseteq {E} /\ draft[s] = Nothing
    BY <1>1, <2>1 DEF EmitFits
  <2>3. <<1, E>> \in todo[s]
    BY <2>2 DEF Nth
  <2>4. E \in Rows(s)
    BY <2>3, InRows
  <2> QED BY <1>1, <2>1, <2>2, <2>4, HasAll, Parameters DEF LockInv, Order, CallFits
<1>3. CASE Return(s)
  <2>1. Commit(s)
    BY <1>1, <1>3 DEF Return
  <2> QED BY <1>1, <2>1, CommitKeeps
<1>4. SUFFICES ASSUME NEW expired \in SUBSET {r \in Run : Sees(s, W(r)) = "row"},
                      LET woken == {r \in Run \ expired : /\ Sees(s, W(r)) = "row"
                                                          /\ Sees(s, R(r)) = "sleeping"}
                          gone == {W(r) : r \in expired} IN
                      Then(s, "runs_locked", Nth(1, {R(r) : r \in woken} \cup gone),
                           Write(Write(draft[s], gone, "none"), {E}, "emitted"))
               PROVE  LockInv'
  BY <1>3 DEF WakeRuns
<1> DEFINE woken == {r \in Run \ expired : /\ Sees(s, W(r)) = "row"
                                           /\ Sees(s, R(r)) = "sleeping"}
           gone == {W(r) : r \in expired}
           woke == {R(r) : r \in woken} \cup gone
           rows == Nth(1, woke)
           cleared == Write(draft[s], gone, "none")
           writes == Write(cleared, {E}, "emitted")
<1>5. /\ \A x \in woke : \E r \in Run : \/ r \in woken /\ x = R(r)
                                        \/ r \in expired /\ x = W(r)
      /\ \A r \in Run : /\ r \in woken \/ r \in expired => View(s)[R(r)] = "sleeping"
                        /\ ~(r \in woken /\ r \in expired)
      /\ \A x \in gone : \E r \in Run : x = W(r)
  <2>1. \A x \in woke : \E r \in Run : \/ r \in woken /\ x = R(r)
                                       \/ r \in expired /\ x = W(r)
    OBVIOUS
  <2>2. \A r \in Run : r \in expired => View(s)[R(r)] = "sleeping"
    BY <1>2, Drafted, RowParts DEF Good
  <2>3. \A r \in Run : r \in woken => View(s)[R(r)] = "sleeping"
    BY Drafted, RowParts
  <2> QED BY <2>1, <2>2, <2>3
<1>6. /\ writes \in Drafts
      /\ \A x \in Row : writes[x] = IF x = E THEN "emitted" ELSE IF x \in gone THEN "none" ELSE draft[s][x]
      /\ \A x \in Row : Shows(writes, x) = IF x = E THEN "emitted" ELSE IF x \in gone THEN "none" ELSE View(s)[x]
  <2> HIDE DEF gone
  <2>1. /\ cleared \in Drafts
        /\ \A x \in Row : /\ Shows(cleared, x) = IF x \in gone THEN "none" ELSE Shows(draft[s], x)
                          /\ cleared[x] = IF x \in gone THEN "none" ELSE draft[s][x]
    BY Drafted, ShowsWrite DEF Value
  <2> HIDE DEF cleared
  <2>2. /\ writes \in Drafts
        /\ \A x \in Row : /\ Shows(writes, x) = IF x \in {E} THEN "emitted" ELSE Shows(cleared, x)
                          /\ writes[x] = IF x \in {E} THEN "emitted" ELSE cleared[x]
    BY <2>1, ShowsWrite DEF Value
  <2> HIDE DEF writes
  <2> QED BY <2>1, <2>2, Drafted
<1>7. /\ rows \in Lists
      /\ \A p \in rows : p[1] = 1 /\ p[2] \in woke /\ p = <<1, p[2]>>
  <2>1. woke \in SUBSET Lockable
    BY <1>5, RowParts, Parameters
  <2> HIDE DEF woke
  <2>2. \A p \in rows : p = <<1, p[2]>>
    BY DEF Nth
  <2> QED BY <2>1, <2>2, NthParts
<1>8. Then(s, "runs_locked", rows, writes)
  BY <1>4
<1> HIDE DEF woken, gone, woke, rows, writes
<1>9. "runs_locked" \in Label
  BY DEF Label
<1>10. /\ by'[s] = by[s] /\ call'[s] = call[s] /\ loop'[s] = loop[s] /\ held'[s] = held[s]
       /\ at'[s] = "runs_locked" /\ todo'[s] = rows /\ draft'[s] = writes /\ table' = table
       /\ \A y : y \in Reach(s)' <=> y \in held[s] \/ \E p \in rows : p[2] = y
  BY <1>6, <1>7, <1>8, <1>9, ThenMoves
<1>11. \A t \in Task : ~Touches(s, t)' /\ T(t) \notin Reach(s)'
  <2>1. \A t \in Task : T(t) \notin Reach(s)'
    BY <1>2, <1>5, <1>7, <1>10, RowsDiffer
  <2>2. \A t \in Task : T(t) \notin gone /\ \A r \in Run : R(r) \notin gone
    BY <1>5, RowsDiffer
  <2>3. \A t \in Task : writes[T(t)] = "unwritten"
    BY <1>2, <1>6, <2>2, RowParts, RowsDiffer
  <2>4. \A r \in Run : writes[R(r)] = "unwritten"
    BY <1>2, <1>6, <1>5, RowParts, RowsDiffer
  <2> QED BY <1>10, <2>1, <2>3, <2>4 DEF Touches, Written
<1>12. Owner(s)'
  BY <1>11 DEF Owner, Owns
<1>13. Good(View(s)')
  <2> DEFINE v == View(s) w == View(s)'
  <2>1. \A x \in Row : w[x] = IF x = E THEN "emitted" ELSE IF x \in gone THEN "none" ELSE v[x]
    BY <1>6, <1>7, <1>8, <1>9, ThenView
  <2>2. \A q \in Run : /\ w[R(q)] = v[R(q)]
                       /\ w[W(q)] \in {"none", v[W(q)]}
                       /\ w[T(q[1])] = v[T(q[1])]
    BY <1>5, <2>1, RowParts, RowsDiffer, RunParts
  <2>3. Good(v)
    BY <1>2
  <2> HIDE DEF v, w
  <2> QED BY <2>2, <2>3 DEF Good, w
<1>14. Evolves(s)'
  <2>1. \A q \in Run : /\ writes[R(q)] = draft[s][R(q)]
                       /\ writes[W(q)] # "row"
    BY <1>2, <1>5, <1>6, RowParts, RowsDiffer
  <2> QED BY <1>1, <1>6, <1>7, <1>8, <1>9, <2>1, ThenEvolves
<1>15. InOrder(s)'
  BY <1>1, <1>10 DEF InOrder
<1>16. Calls(s)'
  <2>1. \A p \in rows : \E r \in Run : p \in {<<1, R(r)>>, <<1, W(r)>>}
    BY <1>5, <1>7
  <2>2. ASSUME NEW p \in rows, NEW q \in rows, p[2][2] = q[2][2] PROVE p = q
    <3>1. PICK r \in Run : (r \in woken /\ p[2] = R(r)) \/ (r \in expired /\ p[2] = W(r))
      BY <1>5, <1>7
    <3>2. PICK o \in Run : (o \in woken /\ q[2] = R(o)) \/ (o \in expired /\ q[2] = W(o))
      BY <1>5, <1>7
    <3>3. r[1] = o[1]
      BY <2>2, <3>1, <3>2, RowParts
    <3>4. View(s)[R(r)] = "sleeping" /\ View(s)[R(o)] = "sleeping" /\ "sleeping" \in Active
      BY <1>5, <3>1, <3>2 DEF Active
    <3>5. r = o
      BY <1>2, <3>3, <3>4 DEF Good
    <3>6. p[2] = q[2]
      BY <1>5, <3>1, <3>2, <3>5
    <3> QED BY <1>7, <3>6
  <2>3. EmitFits(s)'
    BY <1>1, <1>2, <1>10, <1>11, <2>1, <2>2 DEF EmitFits
  <2> QED BY <1>1, <1>2, <1>10, <2>3 DEF Calls, CallFits, RunFits, AwaitFits, CancelFits, ClaimFits, CleanupFits
<1> QED BY <1>1, <1>6, <1>7, <1>8, <1>9, <1>12, <1>13, <1>14, <1>15, <1>16, ThenKeeps

LEMMA WakeTasksKeeps ==
  ASSUME LockInv, NEW s \in Session, WakeTasks(s)
  PROVE  LockInv'
<1>1. call[s].op = "emit_event" /\ at[s] = "runs_locked" /\ Asks(s) = {} /\ by[s] = "emit_event"
  BY EmitOp DEF WakeTasks, In
<1>2. /\ E \in held[s] /\ loop[s] = {}
      /\ \A t \in Task : ~Touches(s, t) /\ T(t) \notin held[s]
      /\ Good(table) /\ Good(View(s)) /\ Evolves(s)
  <2>1. EmitFits(s) /\ CallFits(s) /\ Order(s) /\ Good(table)
    BY DEF LockInv, Calls
  <2>2. /\ E \in held[s] /\ \A t \in Task : ~Touches(s, t)
        /\ held[s] \subseteq {E} \cup Rows(s)
        /\ \A p \in todo[s] : \E r \in Run : p \in {<<1, R(r)>>, <<1, W(r)>>}
    BY <1>1, <2>1 DEF EmitFits
  <2>3. \A x \in Rows(s) : \E r \in Run : x \in {R(r), W(r)}
    BY <2>2 DEF Rows
  <2>4. \A t \in Task : T(t) \notin held[s]
    BY <2>2, <2>3, RowsDiffer
  <2> QED BY <1>1, <2>1, <2>2, <2>4 DEF Order, CallFits
<1> DEFINE woken == {r \in Run : R(r) \in held[s] /\ Sees(s, R(r)) = "sleeping"}
           asleep == {R(r) : r \in woken}
           waits == {W(r) : r \in woken}
           next == {T(r[1]) : r \in woken} \cup {C(r[1]) : r \in woken} \cup Present(s, waits)
           rows == Nth(1, next)
           awake == Write(draft[s], asleep, "pending")
           writes == Write(awake, waits, "none")
<1>3. Then(s, "end", rows, writes)
  BY DEF WakeTasks
<1>4. \A r \in woken : /\ r \in Run /\ r[1] \in Task /\ R(r) \in held[s]
                       /\ table[R(r)] = "sleeping" /\ View(s)[R(r)] = "sleeping"
  <2>1. \A r \in woken : r \in Run /\ r[1] \in Task /\ R(r) \in held[s] /\ Sees(s, R(r)) = "sleeping"
    BY RunParts
  <2> HIDE DEF woken
  <2> QED BY <1>2, <2>1, NotTouched, Drafted, RowParts
<1>5. \A x \in next : \E r \in woken : x \in {T(r[1]), C(r[1]), W(r)}
  BY DEF Present
<1>6. \A r \in woken : T(r[1]) \in next
  OBVIOUS
<1>7. \A q \in Run : /\ R(q) \in asleep <=> q \in woken
                     /\ W(q) \in waits <=> q \in woken
                     /\ R(q) \notin waits /\ W(q) \notin asleep
  BY <1>4, RowsDiffer
<1>8. \A t \in Task : T(t) \notin asleep /\ T(t) \notin waits
  BY <1>4, RowsDiffer
<1>9. /\ writes \in Drafts
      /\ \A x \in Row : writes[x] = IF x \in waits THEN "none" ELSE IF x \in asleep THEN "pending" ELSE draft[s][x]
      /\ \A x \in Row : Shows(writes, x) = IF x \in waits THEN "none" ELSE IF x \in asleep THEN "pending"
                                           ELSE View(s)[x]
  <2> HIDE DEF asleep, waits
  <2>1. /\ awake \in Drafts
        /\ \A x \in Row : /\ Shows(awake, x) = IF x \in asleep THEN "pending" ELSE Shows(draft[s], x)
                          /\ awake[x] = IF x \in asleep THEN "pending" ELSE draft[s][x]
    BY Drafted, ShowsWrite DEF Value, Active
  <2> HIDE DEF awake
  <2>2. /\ writes \in Drafts
        /\ \A x \in Row : /\ Shows(writes, x) = IF x \in waits THEN "none" ELSE Shows(awake, x)
                          /\ writes[x] = IF x \in waits THEN "none" ELSE awake[x]
    BY <2>1, ShowsWrite DEF Value
  <2> HIDE DEF writes
  <2> QED BY <2>1, <2>2, Drafted
<1> HIDE DEF woken, asleep, waits
<1>10. /\ rows \in Lists
       /\ \A p \in rows : p[1] = 1 /\ p[2] \in next /\ p = <<1, p[2]>>
       /\ \A r \in woken : <<1, T(r[1])>> \in rows
  <2>1. next \in SUBSET Lockable
    BY <1>4, <1>5, RowParts, Parameters
  <2> HIDE DEF next
  <2>2. \A p \in rows : p = <<1, p[2]>>
    BY DEF Nth
  <2> QED BY <1>6, <2>1, <2>2, NthParts
<1> HIDE DEF next, rows, writes
<1>11. "end" \in Label /\ "sleeping" \in Active /\ "pending" \in Active
  BY DEF Label, Active
<1>12. /\ by'[s] = by[s] /\ call'[s] = call[s] /\ loop'[s] = loop[s] /\ held'[s] = held[s]
       /\ at'[s] = "end" /\ todo'[s] = rows /\ draft'[s] = writes /\ table' = table
       /\ \A y : y \in Reach(s)' <=> y \in held[s] \/ \E p \in rows : p[2] = y
       /\ \A u : HasActive(s, u)' <=> HasActive(s, u)
  BY <1>3, <1>9, <1>10, <1>11, ThenMoves
<1>13. \A q \in Run : /\ writes[R(q)] = IF q \in woken THEN "pending" ELSE draft[s][R(q)]
                      /\ writes[W(q)] = IF q \in woken THEN "none" ELSE draft[s][W(q)]
  BY <1>7, <1>9, RowParts
<1>14. Owner(s)'
  <2> SUFFICES ASSUME NEW t \in Task PROVE Owns(s, t)'
    BY DEF Owner
  <2>1. Touches(s, t)' => \E r \in woken : r[1] = t
    <3>1. writes[T(t)] = draft[s][T(t)]
      BY <1>8, <1>9, RowParts
    <3> QED BY <1>2, <1>12, <1>13, <3>1 DEF Touches, Written
  <2>2. T(t) \in Reach(s)' => \E r \in woken : r[1] = t
    BY <1>2, <1>4, <1>5, <1>10, <1>12, RowsDiffer
  <2>3. ASSUME NEW r \in woken, r[1] = t
        PROVE  /\ T(t) \in Reach(s)' /\ ~Looking(s, t)' /\ HasActive(s, t)'
               /\ \A q \in Run : q[1] = t /\ table[R(q)] \in Active => R(q) \in Reach(s)'
    <3>1. T(t) \in Reach(s)'
      <4>1. <<1, T(t)>>[2] = T(t)
        OBVIOUS
      <4> QED BY <1>10, <1>12, <2>3, <4>1
    <3>2. ~Looking(s, t)'
      BY <1>1, <1>12 DEF Looking
    <3>3. HasActive(s, t)'
      BY <1>4, <1>11, <1>12, <2>3 DEF HasActive
    <3>4. \A q \in Run : q[1] = t /\ table[R(q)] \in Active => q = r
      BY <1>2, <1>4, <1>11, <2>3 DEF Good
    <3> QED BY <1>4, <1>12, <3>1, <3>2, <3>3, <3>4
  <2> QED BY <1>12, <2>1, <2>2, <2>3 DEF Owns
<1>15. Good(View(s)')
  <2> DEFINE v == View(s) w == View(s)'
  <2>1. \A x \in Row : w[x] = IF x \in waits THEN "none" ELSE IF x \in asleep THEN "pending" ELSE v[x]
    BY <1>3, <1>9, <1>10, <1>11, ThenView
  <2>2. \A q \in Run : /\ w[R(q)] = IF q \in woken THEN "pending" ELSE v[R(q)]
                       /\ w[W(q)] = IF q \in woken THEN "none" ELSE v[W(q)]
                       /\ w[T(q[1])] = v[T(q[1])]
    BY <1>7, <1>8, <2>1, RowParts, RunParts
  <2>3. Good(v) /\ \A q \in woken : v[R(q)] = "sleeping"
    BY <1>2, <1>4
  <2> HIDE DEF v, w
  <2>4. \A q \in Run : w[R(q)] \in Active <=> v[R(q)] \in Active
    BY <1>11, <2>2, <2>3
  <2>5. \A q \in Run : w[R(q)] = "none" <=> v[R(q)] = "none"
    BY <2>2, <2>3
  <2>6. \A q \in Run : w[W(q)] = "row" => w[R(q)] = "sleeping"
    BY <2>2, <2>3 DEF Good
  <2> QED BY <2>2, <2>3, <2>4, <2>5, <2>6 DEF Good, w
<1>16. Evolves(s)'
  <2>1. \A q \in Run : /\ \/ writes[R(q)] = draft[s][R(q)]
                          \/ writes[R(q)] \in Active /\ table[R(q)] \in Active
                       /\ writes[W(q)] = "row" => writes[W(q)] = draft[s][W(q)]
    BY <1>4, <1>11, <1>13
  <2> QED BY <1>1, <1>3, <1>9, <1>10, <1>11, <2>1, ThenEvolves
<1>17. InOrder(s)'
  BY <1>1, <1>12 DEF InOrder
<1>18. Calls(s)'
  <2>1. \A p \in rows : \E r \in Run : /\ R(r) \in held[s] /\ table[R(r)] \in Active
                                       /\ p \in {<<1, T(r[1])>>, <<1, C(r[1])>>, <<1, W(r)>>}
    <3>1. SUFFICES ASSUME NEW p \in rows
                   PROVE  \E r \in Run : /\ R(r) \in held[s] /\ table[R(r)] \in Active
                                         /\ p \in {<<1, T(r[1])>>, <<1, C(r[1])>>, <<1, W(r)>>}
      OBVIOUS
    <3>2. PICK r \in woken : p[2] \in {T(r[1]), C(r[1]), W(r)}
      BY <1>5, <1>10
    <3>3. p \in {<<1, T(r[1])>>, <<1, C(r[1])>>, <<1, W(r)>>}
      BY <1>10, <3>2
    <3> QED BY <1>4, <1>11, <3>3
  <2>2. EmitFits(s)'
    BY <1>1, <1>2, <1>12, <2>1 DEF EmitFits
  <2>3. CallFits(s) /\ CallFits(s)'
    BY <1>1, <1>2, <1>12 DEF LockInv, Calls, CallFits
  <2> QED BY <1>1, <1>2, <1>12, <2>2, <2>3 DEF Calls, RunFits, AwaitFits, CancelFits, ClaimFits, CleanupFits
<1> QED BY <1>1, <1>3, <1>9, <1>10, <1>11, <1>14, <1>15, <1>16, <1>17, <1>18, ThenKeeps

(* cancel_task, retry_task *)

LEMMA RetryTaskKeeps ==
  ASSUME LockInv, NEW s \in Session, RetryTask(s)
  PROVE  LockInv'
<1>0. PICK t : t = Of(s)[1]
  OBVIOUS
<1>1. call[s].op = "retry_task" /\ at[s] = "start" /\ Asks(s) = {}
  BY DEF RetryTask, In
<1>2. /\ t \in Task /\ T(t) \in held[s] /\ by[s] = "retry_task" /\ loop[s] = {}
      /\ \A x \in Row : draft[s][x] = "unwritten" /\ Sees(s, x) = table[x]
      /\ Good(table) /\ Good(View(s))
  <2>1. CancelFits(s) /\ CallFits(s) /\ Order(s) /\ Good(table)
    BY DEF LockInv, Calls
  <2>2. t \in Task /\ todo[s] = Nth(1, {T(t)}) /\ draft[s] = Nothing
    BY <1>0, <1>1, <2>1 DEF CancelFits
  <2>3. <<1, T(t)>> \in todo[s]
    BY <2>2 DEF Nth
  <2>4. T(t) \in Rows(s)
    BY <2>3, InRows
  <2>5. by[s] = "retry_task" /\ loop[s] = {} /\ Good(View(s))
    BY <1>1, <2>1 DEF Order, CallFits
  <2> QED BY <1>1, <2>1, <2>2, <2>4, <2>5, HasAll, Parameters DEF Sees
<1>3. SUFFICES ASSUME Sees(s, T(t)) = "failed",
                      NEW next \in {r \in Run : r[1] = t},
                      \A r \in Run : r[1] = t => (Sees(s, R(r)) = "none" <=> r[2] >= next[2]),
                      Then(s, "end", {}, Write(Write(draft[s], {R(next)}, "pending"), {T(t)}, "active"))
               PROVE  LockInv'
  BY <1>0, RaiseKeeps DEF RetryTask
<1> DEFINE made == Write(draft[s], {R(next)}, "pending")
           writes == Write(made, {T(t)}, "active")
<1>4. /\ writes \in Drafts
      /\ \A x \in Row : /\ writes[x] = IF x = T(t) THEN "active" ELSE IF x = R(next) THEN "pending" ELSE draft[s][x]
                        /\ Shows(writes, x) = IF x = T(t) THEN "active" ELSE IF x = R(next) THEN "pending"
                                              ELSE View(s)[x]
  <2>1. /\ made \in Drafts
        /\ \A x \in Row : /\ Shows(made, x) = IF x \in {R(next)} THEN "pending" ELSE Shows(draft[s], x)
                          /\ made[x] = IF x \in {R(next)} THEN "pending" ELSE draft[s][x]
    BY Drafted, ShowsWrite DEF Value, Active
  <2> HIDE DEF made
  <2>2. /\ writes \in Drafts
        /\ \A x \in Row : /\ Shows(writes, x) = IF x \in {T(t)} THEN "active" ELSE Shows(made, x)
                          /\ writes[x] = IF x \in {T(t)} THEN "active" ELSE made[x]
    BY <2>1, ShowsWrite DEF Value
  <2> HIDE DEF writes
  <2> QED BY <2>1, <2>2, Drafted
<1>5. Then(s, "end", {}, writes)
  BY <1>3
<1> HIDE DEF writes
<1>6. {} \in Lists /\ "end" \in Label /\ "pending" \in Active
  BY DEF Lists, Label, Active
<1>7. /\ by'[s] = by[s] /\ call'[s] = call[s] /\ Of(s)' = Of(s) /\ loop'[s] = loop[s] /\ held'[s] = held[s]
      /\ at'[s] = "end" /\ todo'[s] = {} /\ draft'[s] = writes /\ table' = table
      /\ \A y : y \in Reach(s)' <=> y \in held[s]
  BY <1>4, <1>5, <1>6, ThenMoves
<1>8. next \in Run /\ next[1] = t /\ R(next) \in Row /\ T(t) \in Row /\ R(next)[2] = t /\ T(t)[2] = t
  BY <1>2, RowParts
<1>9. \A q \in Run : q[1] = t => table[R(q)] \notin Active /\ View(s)[R(q)] \notin Active
  <2>1. table[T(t)] = "failed" /\ View(s)[T(t)] = "failed"
    BY <1>2, <1>3, <1>8, Drafted
  <2> HIDE DEF View
  <2> QED BY <1>2, <2>1 DEF Good
<1>10. Owner(s)'
  <2>1. OnlyAbout(s, {}, writes)
    BY <1>0, <1>2, <1>4, <1>8 DEF OnlyAbout
  <2>2. T(t) \in Reach(s)' /\ ~Looking(s, t)'
    BY <1>1, <1>2, <1>7 DEF Looking
  <2>3. Owns(s, t)'
    BY <1>2, <1>7, <1>9, <2>2 DEF Owns
  <2> QED BY <1>0, <1>1, <1>2, <1>4, <1>5, <1>6, <2>1, <2>3, ThenOwner
<1>11. Good(View(s)')
  <2> DEFINE v == View(s) w == View(s)'
  <2>1. \A x \in Row : w[x] = IF x = T(t) THEN "active" ELSE IF x = R(next) THEN "pending" ELSE v[x]
    BY <1>4, <1>5, <1>6, ThenView
  <2>2. \A q \in Run : /\ w[R(q)] = IF q = next THEN "pending" ELSE v[R(q)]
                       /\ w[W(q)] = v[W(q)]
                       /\ w[T(q[1])] = IF q[1] = t THEN "active" ELSE v[T(q[1])]
    BY <1>2, <1>8, <2>1, RowParts, RowsDiffer, RunParts
  <2>3. /\ Good(v) /\ \A q \in Run : q[1] = t => v[R(q)] \notin Active
        /\ \A q \in Run : q[1] = t => (v[R(q)] = "none" <=> q[2] >= next[2])
    BY <1>2, <1>3, <1>9, Drafted, RowParts
  <2>4. \A q \in Run : q[2] \in Nat
    BY RunParts
  <2> HIDE DEF v, w
  <2>5. \A q \in Run : q[1] = t /\ w[R(q)] \in Active => q = next
    BY <2>2, <2>3
  <2>6. \A q \in Run : q[1] # t => w[R(q)] = v[R(q)] /\ w[T(q[1])] = v[T(q[1])] /\ w[W(q)] = v[W(q)]
    BY <1>8, <2>2
  <2>7. \A r, q \in Run : r[1] = q[1] /\ w[R(r)] \in Active /\ w[R(q)] \in Active => r = q
    BY <2>3, <2>5, <2>6 DEF Good
  <2>8. \A r \in Run : w[R(r)] \in Active => w[T(r[1])] \notin {"failed", "ended"}
    BY <2>2, <2>3, <2>5, <2>6 DEF Good
  <2>9. \A r \in Run : w[W(r)] = "row" => w[R(r)] = "sleeping"
    <3>1. \A q \in Run : q[1] = t => v[W(q)] # "row"
      BY <2>3 DEF Good, Active
    <3> QED BY <2>2, <2>3, <2>6, <3>1 DEF Good
  <2>10. \A r, q \in Run : r[1] = q[1] /\ w[R(r)] \in Active /\ r[2] < q[2] => w[R(q)] = "none"
    <3>1. \A q \in Run : q[1] = t /\ next[2] < q[2] => w[R(q)] = "none"
      <4>1. ASSUME NEW q \in Run, q[1] = t, next[2] < q[2] PROVE w[R(q)] = "none"
        <5>1. q[2] >= next[2] /\ q # next
          BY <1>8, <2>4, <4>1
        <5> QED BY <2>2, <2>3, <4>1, <5>1
      <4> QED BY <4>1
    <3> QED BY <2>3, <2>5, <2>6, <3>1 DEF Good
  <2> QED BY <2>7, <2>8, <2>9, <2>10 DEF Good, w
<1>12. Evolves(s)'
  <2>1. \A q \in Run : /\ writes[R(q)] = IF q = next THEN "pending" ELSE draft[s][R(q)]
                       /\ writes[W(q)] = draft[s][W(q)]
    BY <1>2, <1>4, <1>8, RowParts, RowsDiffer
  <2>2. table[R(next)] = "none" /\ Born(next)
    <3>1. \A q \in Run : q[1] = t => (table[R(q)] = "none" <=> q[2] >= next[2])
      BY <1>2, <1>3, RowParts
    <3>2. next[2] >= next[2] /\ table[T(t)] = "failed"
      BY <1>2, <1>3, <1>8, RunParts
    <3> QED BY <1>8, <3>1, <3>2 DEF Born
  <2> QED BY <1>2, <1>4, <1>5, <1>6, <2>1, <2>2, ThenEvolves
<1>13. InOrder(s)'
  BY <1>7 DEF InOrder, Missing
<1>14. Calls(s)'
  <2>1. CancelFits(s)'
    BY <1>0, <1>1, <1>2, <1>7 DEF CancelFits
  <2> QED BY <1>1, <1>2, <1>7, <2>1 DEF Calls, CallFits, RunFits, AwaitFits, EmitFits, ClaimFits, CleanupFits
<1> QED BY <1>1, <1>2, <1>4, <1>5, <1>6, <1>10, <1>11, <1>12, <1>13, <1>14, ThenKeeps

(* The function that claim_task has called returns.                        *)
LEMMA ReturnKeeps ==
  ASSUME LockInv, NEW s \in Session, Asks(s) = {}, Return(s),
         \/ at[s] = "end" /\ by[s] \notin {"idle", "done"}
         \/ /\ call[s].op = "cancel_task" /\ at[s] = "task_locked"
            /\ Sees(s, T(Of(s)[1])) \in {"failed", "ended"}
  PROVE  LockInv'
<1>1. CASE call[s].op = by[s]
  <2>1. Commit(s)
    BY <1>1 DEF Return
  <2> QED BY <2>1, CommitKeeps
<1>2. CASE call[s].op # by[s]
  <2>1. /\ Types /\ Exclusive /\ Good(table) /\ Calls(s) /\ Order(s)
        /\ CallFits(s) /\ ClaimFits(s) /\ RunFits(s) /\ CancelFits(s)
    BY DEF LockInv, Calls
  <2>2. by[s] = "claim_task" /\ call[s].op \in {"cancel_task", "fail_run"}
    BY <1>2, <2>1 DEF CallFits
  <2> DEFINE c == [op |-> "claim_task", of |-> <<0, 0>>]
             label == IF call[s].op = "cancel_task" THEN "cancel" ELSE "fail"
  <2>3. c \in [op : Function, of : Target] /\ c.op = "claim_task"
    <3> DEFINE x == <<0, 0>>
    <3>1. "claim_task" \in Function /\ x \in Target
      BY Parameters DEF Function
    <3> HIDE DEF x
    <3>2. [op |-> "claim_task", of |-> x] \in [op : Function, of : Target]
      BY <3>1, CallTyped
    <3> QED BY <3>2 DEF x
  <2>4. label \in Label
    BY DEF Label
  <2> HIDE DEF c
  <2>5. /\ call' = [call EXCEPT ![s] = c] /\ at' = [at EXCEPT ![s] = label]
        /\ todo' = [todo EXCEPT ![s] = {}]
        /\ table' = table /\ by' = by /\ loop' = loop /\ held' = held /\ draft' = draft
    BY <1>2 DEF Return, c
  <2>6. /\ call'[s] = c /\ at'[s] = label /\ todo'[s] = {} /\ by'[s] = by[s] /\ loop'[s] = loop[s]
        /\ held'[s] = held[s] /\ draft'[s] = draft[s] /\ table' = table
    BY <2>1, <2>5 DEF Types
  <2>7. Types' /\ OnlyMoves(s)
    <3>1. TypesOf(s)'
      BY <2>1, <2>3, <2>4, <2>6 DEF TypesOf, Types
    <3>2. Moves(s)
      BY <2>5, <2>6 DEF Moves
    <3> QED BY <2>1, <2>6, <3>1, <3>2, Moved DEF Types
  <2>8. Exclusive'
    BY <2>1, <2>5 DEF Exclusive
  <2>9. /\ \A x : x \in Reach(s)' <=> x \in held[s]
        /\ \A x : x \in Reach(s) <=> x \in held[s]
        /\ Missing(s)' = {}
        /\ \A t : ~Looking(s, t)' /\ (HasActive(s, t)' <=> HasActive(s, t))
        /\ \A t : Touches(s, t)' <=> Touches(s, t)
        /\ View(s)' = View(s) /\ \A x : Sees(s, x)' = Sees(s, x)
    BY <2>3, <2>6, HasAll DEF Reach, Rows, Missing, Looking, HasActive, Touches, Written, View, Sees
  <2>10. \A t \in Task : Looking(s, t) =>
           /\ call[s].op = "cancel_task" /\ at[s] = "task_locked" /\ t = Of(s)[1] /\ ~Touches(s, t)
           /\ Sees(s, T(t)) \in {"failed", "ended"} /\ table[T(t)] \in {"failed", "ended"}
    <3> SUFFICES ASSUME NEW t \in Task, Looking(s, t)
                 PROVE  /\ call[s].op = "cancel_task" /\ at[s] = "task_locked" /\ t = Of(s)[1] /\ ~Touches(s, t)
                        /\ Sees(s, T(t)) \in {"failed", "ended"} /\ table[T(t)] \in {"failed", "ended"}
      OBVIOUS
    <3>1. call[s].op = "cancel_task" /\ at[s] = "task_locked" /\ t = Of(s)[1]
      BY <2>2 DEF Looking
    <3>2. ~Touches(s, t) /\ Sees(s, T(t)) \in {"failed", "ended"}
      BY <2>1, <3>1 DEF CancelFits
    <3> QED BY <3>1, <3>2, NotTouched
  <2>11. Calls(s)'
    <3>1. CallFits(s)'
      BY <2>1, <2>2, <2>3, <2>6 DEF CallFits
    <3>2. ClaimAt(s)'
      BY <2>3, <2>6 DEF ClaimAt
    <3>3. CASE call[s].op = "cancel_task"
      <4>1. InCancelling(s)
        BY <2>1, <2>2 DEF ClaimFits
      <4>2. InCancelling(s)'
        BY <2>3, <2>6, <2>9, <2>10, <3>3, <4>1 DEF InCancelling, Cancelling
      <4>3. InFailing(s)'
        BY <2>3, <2>6, <3>3 DEF InFailing, Failing
      <4>4. ClaimFits(s)'
        BY <3>2, <4>2, <4>3 DEF ClaimFits
      <4> QED BY <2>2, <2>3, <2>6, <3>1, <4>4
              DEF Calls, RunFits, AwaitFits, CancelFits, EmitFits, CleanupFits
    <3>4. CASE call[s].op = "fail_run"
      <4>1. InFailing(s)
        BY <2>1, <2>2 DEF ClaimFits
      <4>2. InFailing(s)'
        BY <2>3, <2>6, <3>4, <4>1 DEF InFailing, Failing
      <4>3. InCancelling(s)'
        BY <2>3, <2>6, <3>4 DEF InCancelling, Cancelling
      <4>4. ClaimFits(s)'
        BY <3>2, <4>2, <4>3 DEF ClaimFits
      <4> QED BY <2>2, <2>3, <2>6, <3>1, <4>4
              DEF Calls, RunFits, AwaitFits, CancelFits, EmitFits, CleanupFits
    <3> QED BY <2>2, <3>3, <3>4
  <2>12. Order(s)'
    <3>1. Good(View(s)) /\ Owner(s) /\ Evolves(s) /\ LastRows(s)
      BY <2>1, <2>2 DEF Order
    <3>2. Good(View(s)')
      BY <2>9, <3>1
    <3>3. Owner(s)'
      <4> SUFFICES ASSUME NEW t \in Task PROVE Owns(s, t)'
        BY DEF Owner
      <4>1. Owns(s, t)
        BY <3>1 DEF Owner
      <4>2. CASE Looking(s, t)
        <5>1. ~Touches(s, t) /\ table[T(t)] \in {"failed", "ended"}
          BY <2>10, <4>2
        <5>2. \A r \in Run : r[1] = t => table[R(r)] \notin Active
          BY <2>1, <5>1 DEF Good
        <5> QED BY <2>6, <2>9, <5>1, <5>2 DEF Owns
      <4>3. CASE ~Looking(s, t)
        BY <2>6, <2>9, <4>1, <4>3 DEF Owns
      <4> QED BY <4>2, <4>3
    <3>4. Evolves(s)'
      BY <2>6, <3>1 DEF Evolves, Born, Written
    <3>5. LastRows(s)'
      BY <2>2, <2>6, <3>1 DEF LastRows
    <3>6. InOrder(s)' /\ OneTask(s)'
      BY <2>2, <2>6, <2>9 DEF InOrder, OneTask
    <3> QED BY <3>2, <3>3, <3>4, <3>5, <3>6 DEF Order, Good
  <2> QED BY <2>6, <2>7, <2>8, <2>11, <2>12, OneMoves
<1> QED BY <1>1, <1>2

LEMMA EndKeeps ==
  ASSUME LockInv, NEW s \in Session, End(s)
  PROVE  LockInv'
BY ReturnKeeps DEF End

LEMMA LockRunsThenTaskKeeps ==
  ASSUME LockInv, NEW s \in Session, LockRunsThenTask(s)
  PROVE  LockInv'
<1>0. PICK t : t = Of(s)[1]
  OBVIOUS
<1> DEFINE top == <<MaxRuns + 1, T(t)>>
           rows == {<<r[2], R(r)>> : r \in RunsOf(s, t)} \cup Nth(MaxRuns + 1, {T(t)})
<1>1. call[s].op = "cancel_task" /\ at[s] = "start" /\ Asks(s) = {}
  BY DEF LockRunsThenTask, In
<1>2. /\ t \in Task /\ ~Touches(s, t) /\ by[s] \in {"cancel_task", "claim_task"}
      /\ by[s] = "cancel_task" => held[s] = {}
      /\ CallFits(s) /\ ClaimFits(s) /\ Good(table) /\ Good(View(s)) /\ Evolves(s)
  <2>1. CancelFits(s) /\ CallFits(s) /\ ClaimFits(s) /\ Order(s) /\ Good(table)
    BY DEF LockInv, Calls
  <2>2. by[s] \in {"cancel_task", "claim_task"}
    BY <1>1, <2>1 DEF CallFits
  <2> QED BY <1>0, <1>1, <2>1, <2>2 DEF CancelFits, Order
<1>3. T(t) \in Row /\ T(t)[2] = t
  BY <1>2, RowParts
<1>4. /\ rows \in Lists /\ top \in rows
      /\ \A p \in rows : p = top \/ \E r \in Run : r[1] = t /\ p = <<r[2], R(r)>>
  <2>1. MaxRuns + 1 \in Nat /\ T(t) \in Lockable
    BY <1>3, LockAssumption, Parameters
  <2>2. Nth(MaxRuns + 1, {T(t)}) \in Lists /\ top \in Nth(MaxRuns + 1, {T(t)})
    BY <2>1, NthParts
  <2>3. \A p \in Nth(MaxRuns + 1, {T(t)}) : p = top
    BY DEF Nth
  <2>4. \A p \in {<<r[2], R(r)>> : r \in RunsOf(s, t)} : \E r \in Run : r[1] = t /\ p = <<r[2], R(r)>>
    BY DEF RunsOf
  <2>5. {<<r[2], R(r)>> : r \in RunsOf(s, t)} \in Lists
    <3>1. \A r \in RunsOf(s, t) : r[2] \in Nat /\ R(r) \in Lockable
      BY RunParts, RowParts, Parameters DEF RunsOf
    <3> QED BY <3>1 DEF Lists
  <2> QED BY <2>2, <2>3, <2>4, <2>5 DEF Lists
<1>5. Then(s, "task_locked", rows, draft[s])
  BY <1>0 DEF LockRunsThenTask
<1> HIDE DEF rows
<1>6. "task_locked" \in Label /\ draft[s] \in Drafts
  BY Drafted DEF Label
<1>7. /\ by'[s] = by[s] /\ call'[s] = call[s] /\ Of(s)' = Of(s) /\ loop'[s] = loop[s] /\ held'[s] = held[s]
      /\ at'[s] = "task_locked" /\ todo'[s] = rows /\ draft'[s] = draft[s] /\ table' = table
  BY <1>4, <1>5, <1>6, ThenMoves
<1>8. /\ View(s)' = View(s) /\ \A x : Sees(s, x)' = Sees(s, x)
      /\ \A u : Touches(s, u)' <=> Touches(s, u)
  BY <1>7 DEF View, Sees, Touches, Written
<1>9. Good(View(s)')
  BY <1>2, <1>8
<1>10. Looking(s, t)'
  BY <1>0, <1>1, <1>7 DEF Looking
<1>11. Owner(s)'
  <2>1. OnlyAbout(s, rows, draft[s])
    BY <1>0, <1>2, <1>4, RowsDiffer DEF OnlyAbout
  <2>2. Owns(s, t)'
    BY <1>2, <1>8, <1>10 DEF Owns
  <2> QED BY <1>0, <1>1, <1>2, <1>4, <1>5, <1>6, <2>1, <2>2, ThenOwner
<1>12. Evolves(s)'
  BY <1>2, <1>4, <1>5, <1>6, ThenEvolves
<1>13. InOrder(s)'
  <2>1. \A y \in held[s] : y[2] < t
    BY <1>0, <1>1, <1>2 DEF ClaimFits, InCancelling, Cancelling
  <2>2. \A p \in rows : p[2][2] = t
    BY <1>3, <1>4, RowParts
  <2> QED BY <1>7, <2>1, <2>2 DEF InOrder, Missing, Before
<1>14. Calls(s)'
  <2>1. CallFits(s)'
    BY <1>1, <1>2, <1>7 DEF CallFits
  <2>2. CancelFits(s)'
    BY <1>0, <1>1, <1>2, <1>4, <1>7, <1>8 DEF CancelFits
  <2>3. ClaimFits(s)'
    <3>1. SUFFICES ASSUME by[s] = "claim_task" PROVE ClaimFits(s)'
      BY <1>7 DEF ClaimFits
    <3>2. InCancelling(s)
      BY <1>2, <3>1 DEF ClaimFits
    <3>3. \A u \in Task : ~Looking(s, u)
      BY <1>1 DEF Looking
    <3>4. InCancelling(s)'
      <4>1. \A x \in held[s] : x[2] <= Of(s)[1]
        BY <1>1, <3>2 DEF InCancelling, Cancelling
      <4> QED BY <1>1, <1>7, <1>8, <3>2, <3>3, <4>1 DEF InCancelling, Cancelling
    <3> QED BY <1>1, <1>7, <3>4 DEF ClaimFits, ClaimAt, InFailing, Failing
  <2> QED BY <1>1, <1>2, <1>7, <2>1, <2>2, <2>3 DEF Calls, RunFits, AwaitFits, EmitFits, CleanupFits
<1> QED BY <1>1, <1>2, <1>4, <1>5, <1>6, <1>9, <1>11, <1>12, <1>13, <1>14, ThenKeeps

LEMMA CancelTaskKeeps ==
  ASSUME LockInv, NEW s \in Session, CancelTask(s)
  PROVE  LockInv'
<1>0. PICK t : t = Of(s)[1]
  OBVIOUS
<1> DEFINE active == RunsOf(s, t)
           runs == {R(r) : r \in active}
           mine == {W(r) : r \in {q \in Run : q[1] = t}}
           waits == Present(s, mine)
           rows == Nth(1, runs) \cup Nth(2, waits)
           ended == Write(draft[s], runs \cup {T(t)}, "ended")
           writes == Write(ended, waits, "none")
<1>1. call[s].op = "cancel_task" /\ at[s] = "task_locked" /\ Asks(s) = {}
  BY DEF CancelTask, In
<1>2. /\ t \in Task /\ T(t) \in held[s] /\ ~Touches(s, t)
      /\ by[s] \in {"cancel_task", "claim_task"}
      /\ CallFits(s) /\ ClaimFits(s) /\ Good(table) /\ Good(View(s)) /\ Evolves(s)
  <2>1. CancelFits(s) /\ CallFits(s) /\ ClaimFits(s) /\ Order(s) /\ Good(table)
    BY DEF LockInv, Calls
  <2>2. by[s] \in {"cancel_task", "claim_task"}
    BY <1>1, <2>1 DEF CallFits
  <2>3. t \in Task /\ ~Touches(s, t) /\ <<MaxRuns + 1, T(t)>> \in todo[s]
    BY <1>0, <1>1, <2>1 DEF CancelFits
  <2>4. T(t) \in Rows(s)
    BY <2>3, InRows
  <2> QED BY <1>1, <2>1, <2>2, <2>3, <2>4, HasAll DEF Order
<1>3. CASE Sees(s, T(t)) = "none"
  <2>1. Raise(s)
    BY <1>0, <1>3 DEF CancelTask
  <2> QED BY <2>1, RaiseKeeps
<1>4. CASE Sees(s, T(t)) \in {"failed", "ended"}
  <2>1. Return(s)
    BY <1>0, <1>4 DEF CancelTask
  <2> QED BY <1>0, <1>1, <1>4, <2>1, ReturnKeeps
<1>5. SUFFICES ASSUME Then(s, "end", rows, writes) PROVE LockInv'
  BY <1>0, <1>3, <1>4 DEF CancelTask
<1>6. /\ \A q \in Run : q \in active <=> q[1] = t /\ View(s)[R(q)] \in Active
      /\ \A q \in Run : q \in active <=> q[1] = t /\ table[R(q)] \in Active
      /\ active \subseteq Run
  <2>1. active \subseteq Run /\ \A q \in Run : q \in active <=> q[1] = t /\ Sees(s, R(q)) \in Active
    BY DEF RunsOf
  <2> HIDE DEF active
  <2> QED BY <1>2, <2>1, NotTouched, Drafted, RowParts
<1> HIDE DEF active
<1>7. \A q \in Run : /\ R(q) \in runs <=> q \in active
                     /\ W(q) \in mine <=> q[1] = t
                     /\ R(q) \notin mine /\ W(q) \notin runs
  BY <1>6, RowsDiffer
<1>8. /\ \A u \in Task : T(u) \notin runs /\ T(u) \notin mine
      /\ \A x \in runs : \E r \in Run : r \in active /\ r[1] = t /\ x = R(r)
      /\ \A x \in mine : \E r \in Run : r[1] = t /\ x = W(r)
  <2>1. /\ \A x \in runs : \E r \in Run : r \in active /\ r[1] = t /\ x = R(r)
        /\ \A x \in mine : \E r \in Run : r[1] = t /\ x = W(r)
    BY <1>6
  <2> HIDE DEF runs, mine
  <2> QED BY <2>1, RowsDiffer
<1>9. T(t) \in Row /\ T(t)[2] = t
  BY <1>2, RowParts
<1>10. waits \subseteq mine /\ \A x \in mine : x \notin waits => View(s)[x] = "none"
  <2>1. \A x \in mine : x \in Row
    BY <1>8, RowParts
  <2> QED BY <2>1, Drafted DEF Present
<1>11. /\ rows \in Lists
       /\ \A p \in rows : \E r \in Run : r[1] = t /\ p \in {<<1, R(r)>>, <<2, W(r)>>}
       /\ \A q \in active : <<1, R(q)>> \in rows
  <2>1. runs \in SUBSET Lockable /\ waits \in SUBSET Lockable
    BY <1>8, <1>10, RowParts, Parameters
  <2> HIDE DEF waits
  <2>2. \A p \in rows : (\E x \in runs : p = <<1, x>>) \/ (\E x \in waits : p = <<2, x>>)
    BY DEF Nth
  <2>3. \A q \in active : R(q) \in runs
    OBVIOUS
  <2> HIDE DEF runs, mine
  <2>4. rows \in Lists /\ \A x \in runs : <<1, x>> \in rows
    <3>1. Nth(1, runs) \in Lists /\ Nth(2, waits) \in Lists /\ \A x \in runs : <<1, x>> \in Nth(1, runs)
      BY <2>1, NthParts
    <3> QED BY <3>1 DEF Lists
  <2>5. ASSUME NEW p \in rows PROVE \E r \in Run : r[1] = t /\ p \in {<<1, R(r)>>, <<2, W(r)>>}
    <3>1. ASSUME NEW x \in runs, p = <<1, x>> PROVE \E r \in Run : r[1] = t /\ p \in {<<1, R(r)>>, <<2, W(r)>>}
      BY <1>8, <3>1
    <3>2. ASSUME NEW x \in waits, p = <<2, x>> PROVE \E r \in Run : r[1] = t /\ p \in {<<1, R(r)>>, <<2, W(r)>>}
      BY <1>8, <1>10, <3>2
    <3> QED BY <2>2, <3>1, <3>2
  <2> QED BY <2>3, <2>4, <2>5
<1>12. /\ writes \in Drafts
       /\ \A x \in Row : writes[x] = IF x \in waits THEN "none" ELSE IF x \in runs \cup {T(t)} THEN "ended"
                                     ELSE draft[s][x]
       /\ \A x \in Row : Shows(writes, x) = IF x \in waits THEN "none" ELSE IF x \in runs \cup {T(t)} THEN "ended"
                                            ELSE View(s)[x]
  <2> HIDE DEF runs, waits
  <2>1. /\ ended \in Drafts
        /\ \A x \in Row : /\ Shows(ended, x) = IF x \in runs \cup {T(t)} THEN "ended" ELSE Shows(draft[s], x)
                          /\ ended[x] = IF x \in runs \cup {T(t)} THEN "ended" ELSE draft[s][x]
    BY Drafted, ShowsWrite DEF Value
  <2> HIDE DEF ended
  <2>2. /\ writes \in Drafts
        /\ \A x \in Row : /\ Shows(writes, x) = IF x \in waits THEN "none" ELSE Shows(ended, x)
                          /\ writes[x] = IF x \in waits THEN "none" ELSE ended[x]
    BY <2>1, ShowsWrite DEF Value
  <2> HIDE DEF writes
  <2> QED BY <2>1, <2>2, Drafted
<1> HIDE DEF runs, mine, waits, rows, writes
<1>13. "end" \in Label
  BY DEF Label
<1>14. /\ by'[s] = by[s] /\ call'[s] = call[s] /\ Of(s)' = Of(s) /\ loop'[s] = loop[s] /\ held'[s] = held[s]
       /\ at'[s] = "end" /\ todo'[s] = rows /\ draft'[s] = writes /\ table' = table
       /\ \A y : y \in Reach(s)' <=> y \in held[s] \/ \E p \in rows : p[2] = y
  BY <1>5, <1>11, <1>12, <1>13, ThenMoves
<1>15. /\ \A q \in Run : writes[R(q)] = IF q \in active THEN "ended" ELSE draft[s][R(q)]
       /\ \A q \in Run : writes[W(q)] \in {"none", draft[s][W(q)]}
       /\ \A x \in Row : x[2] # t => writes[x] = draft[s][x]
       /\ \A u \in Task : u # t => Sees(s, T(u))' = Sees(s, T(u))
       /\ Sees(s, T(t))' = "ended"
  <2>1. \A q \in Run : R(q) \notin waits /\ W(q) \notin runs /\ R(q) # T(t) /\ W(q) # T(t)
    BY <1>2, <1>7, <1>10, RowsDiffer
  <2>2. \A u \in Task : T(u) \notin waits /\ T(u) \notin runs /\ (u # t => T(u) # T(t))
    BY <1>2, <1>8, <1>10, RowsDiffer
  <2>3. \A x \in Row : x[2] # t => x \notin waits /\ x \notin runs /\ x # T(t)
    BY <1>8, <1>9, <1>10, RowParts
  <2>4. \A q \in Run : writes[R(q)] = IF q \in active THEN "ended" ELSE draft[s][R(q)]
    BY <1>7, <1>12, <2>1, RowParts
  <2>5. \A q \in Run : writes[W(q)] \in {"none", draft[s][W(q)]}
    BY <1>12, <2>1, RowParts
  <2>6. \A x \in Row : Sees(s, x)' = Shows(writes, x)
    BY <1>5, <1>11, <1>12, <1>13, ThenView
  <2>7. \A u \in Task : Sees(s, T(u))' = IF u = t THEN "ended" ELSE Sees(s, T(u))
    BY <1>12, <2>2, <2>6, Drafted, RowParts
  <2> QED BY <1>2, <1>12, <2>3, <2>4, <2>5, <2>7
<1>16. Owner(s)'
  <2>1. OnlyAbout(s, rows, writes)
    <3>1. \A p \in rows, u \in Task : p[2] # T(u)
      BY <1>11, RowsDiffer
    <3> QED BY <1>0, <1>2, <1>15, <3>1 DEF OnlyAbout
  <2>2. T(t) \in Reach(s)' /\ ~Looking(s, t)'
    BY <1>1, <1>2, <1>14 DEF Looking
  <2>3. \A q \in Run : q[1] = t /\ table[R(q)] \in Active => R(q) \in Reach(s)'
    <3>1. ASSUME NEW q \in Run, q[1] = t, table[R(q)] \in Active PROVE R(q) \in Reach(s)'
      <4>1. <<1, R(q)>> \in rows /\ <<1, R(q)>>[2] = R(q)
        BY <1>6, <1>11, <3>1
      <4> QED BY <1>14, <4>1
    <3> QED BY <3>1
  <2>4. Owns(s, t)'
    BY <1>2, <1>14, <2>2, <2>3 DEF Owns
  <2> QED BY <1>0, <1>1, <1>2, <1>5, <1>11, <1>12, <1>13, <2>1, <2>4, ThenOwner
<1>17. Good(View(s)')
  <2> DEFINE v == View(s) w == View(s)'
  <2>1. \A x \in Row : w[x] = IF x \in waits THEN "none" ELSE IF x \in runs \cup {T(t)} THEN "ended" ELSE v[x]
    BY <1>5, <1>11, <1>12, <1>13, ThenView
  <2>2. \A q \in Run : /\ w[R(q)] = IF q \in active THEN "ended" ELSE v[R(q)]
                       /\ w[T(q[1])] = IF q[1] = t THEN "ended" ELSE v[T(q[1])]
    <3>1. \A q \in Run : R(q) \notin waits /\ R(q) # T(t) /\ T(q[1]) \notin waits /\ T(q[1]) \notin runs
                         /\ (T(q[1]) = T(t) <=> q[1] = t)
      BY <1>2, <1>7, <1>8, <1>10, RowsDiffer, RunParts
    <3> QED BY <1>7, <2>1, <3>1, RowParts, RunParts
  <2>3. \A q \in Run : w[W(q)] = IF q[1] = t THEN "none" ELSE v[W(q)]
    <3>1. \A q \in Run : /\ W(q) \notin runs /\ W(q) # T(t) /\ (W(q) \in waits => q[1] = t)
                         /\ (q[1] = t /\ W(q) \notin waits => v[W(q)] = "none")
      BY <1>2, <1>7, <1>10, RowsDiffer
    <3> QED BY <2>1, <3>1, RowParts
  <2>4. Good(v) /\ \A q \in Run : q \in active <=> q[1] = t /\ v[R(q)] \in Active
    BY <1>2, <1>6
  <2> HIDE DEF v, w
  <2>5. \A q \in Run : q[1] = t => w[R(q)] \notin Active
    BY <2>2, <2>4 DEF Active
  <2>6. \A q \in Run : q[1] # t => w[R(q)] = v[R(q)] /\ w[T(q[1])] = v[T(q[1])] /\ w[W(q)] = v[W(q)]
    BY <2>2, <2>3, <2>4
  <2>7. \A q \in Run : q[1] = t => w[W(q)] # "row"
    BY <2>3
  <2> QED BY <2>4, <2>5, <2>6, <2>7 DEF Good, w
<1>18. Evolves(s)'
  <2>1. \A q \in Run : /\ writes[R(q)] = draft[s][R(q)] \/ writes[R(q)] = "ended"
                       /\ writes[W(q)] = "row" => writes[W(q)] = draft[s][W(q)]
    BY <1>15
  <2> QED BY <1>2, <1>5, <1>11, <1>12, <1>13, <2>1, ThenEvolves DEF Active
<1>19. InOrder(s)'
  BY <1>1, <1>14 DEF InOrder
<1>20. Calls(s)'
  <2>1. CallFits(s)'
    BY <1>1, <1>2, <1>14 DEF CallFits
  <2>2. CancelFits(s)'
    BY <1>0, <1>1, <1>2, <1>11, <1>14 DEF CancelFits
  <2>3. ClaimFits(s)'
    <3>1. SUFFICES ASSUME by[s] = "claim_task" PROVE ClaimFits(s)'
      BY <1>14 DEF ClaimFits
    <3>2. InCancelling(s)
      BY <1>2, <3>1 DEF ClaimFits
    <3>3. \A u \in Task : u # t => ~Looking(s, u)
      BY <1>0 DEF Looking
    <3>4. \A u \in Task : T(u) \in held[s] => Sees(s, T(u))' \in {"failed", "ended"}
      BY <1>1, <1>15, <3>2, <3>3 DEF InCancelling, Cancelling
    <3>5. InCancelling(s)'
      BY <1>1, <1>14, <3>2, <3>4 DEF InCancelling, Cancelling
    <3> QED BY <1>1, <1>14, <3>5 DEF ClaimFits, ClaimAt, InFailing, Failing
  <2> QED BY <1>1, <1>2, <1>14, <2>1, <2>2, <2>3 DEF Calls, RunFits, AwaitFits, EmitFits, CleanupFits
<1> QED BY <1>1, <1>2, <1>5, <1>11, <1>12, <1>13, <1>16, <1>17, <1>18, <1>19, <1>20, ThenKeeps

(* claim_task *)

LEMMA Claims ==
  ASSUME LockInv, NEW s \in Session, call[s].op = "claim_task"
  PROVE  /\ by[s] = "claim_task" /\ Types /\ Exclusive /\ Good(table)
         /\ CallFits(s) /\ ClaimAt(s) /\ InCancelling(s) /\ InFailing(s)
         /\ Good(View(s)) /\ Owner(s) /\ Evolves(s) /\ LastRows(s)
         /\ \A t \in Task : ~Looking(s, t) /\ C(t) \notin held[s]
<1>1. by[s] = "claim_task" /\ CallFits(s) /\ ClaimFits(s) /\ Order(s)
  BY DEF LockInv, Calls, CallFits
<1>2. LastRows(s)
  BY <1>1 DEF Order
<1>3. \A t \in Task : ~Looking(s, t) /\ C(t) \notin held[s]
  BY <1>1, <1>2 DEF Looking, LastRows
<1> QED BY <1>1, <1>3 DEF LockInv, ClaimFits, Order

(* claim_task chooses what it does next.                                   *)
LEMMA ClaimKeeps ==
  ASSUME LockInv, NEW s \in Session, call[s].op = "claim_task", at[s] # "end",
         Moves(s), TypesOf(s)', table' = table, by'[s] = by[s], todo'[s] = todo[s],
         held'[s] = held[s], draft'[s] = draft[s],
         call'[s].op \in {"claim_task", "cancel_task", "fail_run"}, at'[s] \in {"start", "cancel", "fail"},
         Calls(s)'
  PROVE  LockInv'
<1>1. /\ by[s] = "claim_task" /\ Types /\ Exclusive
      /\ Good(View(s)) /\ Owner(s) /\ Evolves(s) /\ LastRows(s)
      /\ \A t \in Task : ~Looking(s, t) /\ C(t) \notin held[s]
  BY Claims
<1>2. todo[s] = {}
  BY Claims DEF ClaimAt
<1>3. Types' /\ OnlyMoves(s)
  BY <1>1, Moved DEF Types
<1>4. Exclusive'
  BY <1>1, <1>3 DEF Exclusive, OnlyMoves, Still
<1>5. /\ Reach(s)' = Reach(s) /\ Missing(s)' = {} /\ View(s)' = View(s)
      /\ \A t : ~Looking(s, t)' /\ (HasActive(s, t)' <=> HasActive(s, t))
      /\ \A t : Touches(s, t)' <=> Touches(s, t)
  BY <1>2 DEF Reach, Rows, Missing, Looking, HasActive, Touches, Written, View, Sees
<1>6. Good(View(s)')
  BY <1>1, <1>5
<1>7. Owner(s)'
  BY <1>1, <1>5 DEF Owner, Owns
<1>8. Evolves(s)'
  BY <1>1 DEF Evolves, Born, Written
<1>9. LastRows(s)' /\ InOrder(s)' /\ OneTask(s)'
  BY <1>1, <1>5 DEF LastRows, InOrder, OneTask
<1>10. Order(s)'
  BY <1>6, <1>7, <1>8, <1>9 DEF Order, Good
<1> QED BY <1>3, <1>4, <1>10, OneMoves

(* It has written nothing of a task whose row it does not have.            *)
LEMMA ClaimTouches ==
  ASSUME LockInv, NEW s \in Session, call[s].op = "claim_task", Asks(s) = {},
         NEW t \in Task, T(t) \notin held[s]
  PROVE  /\ ~Touches(s, t) /\ Sees(s, T(t)) = table[T(t)]
         /\ \A r \in Run : r[1] = t => Sees(s, R(r)) = table[R(r)]
<1>1. T(t) \notin Reach(s) /\ Owner(s)
  BY HasAll, Claims
<1>2. ~Touches(s, t)
  BY <1>1 DEF Owner, Owns
<1> QED BY <1>2, NotTouched

LEMMA FindOverdueKeeps ==
  ASSUME LockInv, NEW s \in Session, FindOverdue(s)
  PROVE  LockInv'
<1>1. call[s].op = "claim_task" /\ at[s] = "start"
  BY DEF FindOverdue, In
<1>2. by[s] = "claim_task" /\ Types /\ ClaimAt(s) /\ CallFits(s)
  BY <1>1, Claims
<1>3. held[s] = {} /\ todo[s] = {}
  BY <1>1, <1>2 DEF ClaimAt
<1>4. PICK overdue \in SUBSET Task : loop' = [loop EXCEPT ![s] = {<<t, 0>> : t \in overdue}]
  BY DEF FindOverdue
<1>5. /\ table' = table /\ by' = by /\ call' = call /\ todo' = todo /\ held' = held /\ draft' = draft
      /\ at' = [at EXCEPT ![s] = "cancel"] /\ at'[s] = "cancel"
      /\ loop'[s] = {<<t, 0>> : t \in overdue} /\ loop' = [loop EXCEPT ![s] = loop'[s]]
  BY <1>2, <1>4 DEF FindOverdue, Types
<1>6. loop'[s] \subseteq Task \X {0} /\ loop'[s] \subseteq Target
  <2>1. loop'[s] \subseteq Task \X {0}
    BY <1>5
  <2> QED BY <1>5, <2>1, Parameters
<1>7. TypesOf(s)'
  BY <1>2, <1>5, <1>6 DEF TypesOf, Types, Label
<1>8. Moves(s)
  BY <1>5 DEF Moves
<1>9. Calls(s)'
  <2>1. CallFits(s)'
    BY <1>1, <1>2, <1>5 DEF CallFits
  <2>2. ClaimFits(s)'
    BY <1>1, <1>3, <1>5, <1>6 DEF ClaimFits, ClaimAt, InCancelling, Cancelling, InFailing, Failing
  <2> QED BY <1>1, <1>5, <2>1, <2>2 DEF Calls, RunFits, AwaitFits, CancelFits, EmitFits, CleanupFits
<1> QED BY <1>1, <1>5, <1>7, <1>8, <1>9, ClaimKeeps

LEMMA Performed ==
  ASSUME LockInv, NEW s \in Session, call[s].op = "claim_task", at[s] \in {"cancel", "fail"},
         NEW f \in {"cancel_task", "fail_run"}, NEW x \in loop[s], Perform(s, f, x, loop[s] \ {x})
  PROVE  /\ Moves(s) /\ TypesOf(s)' /\ table' = table /\ by'[s] = by[s] /\ todo'[s] = todo[s]
         /\ held'[s] = held[s] /\ draft'[s] = draft[s] /\ todo[s] = {}
         /\ call'[s].op = f /\ Of(s)' = x /\ at'[s] = "start" /\ loop'[s] = loop[s] \ {x}
         /\ \A y : Sees(s, y)' = Sees(s, y)
         /\ \A t : Touches(s, t)' <=> Touches(s, t)
         /\ CallFits(s)'
<1>1. by[s] = "claim_task" /\ Types /\ CallFits(s) /\ todo[s] = {}
  BY Claims DEF ClaimAt
<1> DEFINE c == [op |-> f, of |-> x]
<1>2. f \in Function /\ x \in Target
  BY <1>1 DEF Types, Function
<1>3. c \in [op : Function, of : Target] /\ c.op = f /\ c.of = x
  BY <1>2, CallTyped
<1> HIDE DEF c
<1>4. /\ call' = [call EXCEPT ![s] = c] /\ at' = [at EXCEPT ![s] = "start"]
      /\ loop' = [loop EXCEPT ![s] = loop[s] \ {x}]
      /\ table' = table /\ by' = by /\ todo' = todo /\ held' = held /\ draft' = draft
  BY DEF Perform, c
<1>5. call'[s] = c /\ at'[s] = "start" /\ loop'[s] = loop[s] \ {x}
  BY <1>1, <1>4 DEF Types
<1>6. Moves(s)
  BY <1>4, <1>5 DEF Moves
<1>7. TypesOf(s)'
  BY <1>1, <1>3, <1>4, <1>5 DEF TypesOf, Types, Label
<1>8. CallFits(s)'
  BY <1>1, <1>3, <1>4, <1>5 DEF CallFits
<1>9. Of(s)' = x
  BY <1>3, <1>5 DEF Of
<1>10. (\A y : Sees(s, y)' = Sees(s, y)) /\ \A t : Touches(s, t)' <=> Touches(s, t)
  BY <1>4 DEF Sees, Touches, Written
<1> QED BY <1>1, <1>3, <1>4, <1>5, <1>6, <1>7, <1>8, <1>9, <1>10

LEMMA CancelOverdueKeeps ==
  ASSUME LockInv, NEW s \in Session, CancelOverdue(s)
  PROVE  LockInv'
<1>1. call[s].op = "claim_task" /\ at[s] = "cancel" /\ Asks(s) = {}
  BY DEF CancelOverdue, In
<1>2. PICK x \in loop[s] : /\ \A u \in loop[s] : x[1] <= u[1]
                           /\ Perform(s, "cancel_task", x, loop[s] \ {x})
  BY DEF CancelOverdue
<1>3. by[s] = "claim_task" /\ InCancelling(s) /\ \A u \in Task : ~Looking(s, u)
  BY <1>1, Claims
<1>4. /\ loop[s] \subseteq Task \X {0}
      /\ \A l \in loop[s], y \in held[s] : y[2] < l[1]
      /\ \A u \in Task : T(u) \in held[s] => Sees(s, T(u)) \in {"failed", "ended"}
  BY <1>1, <1>3 DEF InCancelling, Cancelling
<1>5. x[1] \in Task /\ x = <<x[1], 0>> /\ \A l \in loop[s] : l[1] \in Task /\ l = <<l[1], 0>>
  BY <1>4
<1>6. \A l \in loop[s] \ {x} : x[1] < l[1]
  <2>1. ASSUME NEW l \in loop[s] \ {x} PROVE x[1] < l[1]
    <3>1. x[1] <= l[1] /\ x[1] # l[1]
      BY <1>2, <1>5, <2>1
    <3> QED BY <1>5, <3>1 DEF Task
  <2> QED BY <2>1
<1>7. T(x[1]) \notin held[s]
  <2>1. T(x[1])[2] = x[1] /\ x[1] \in Nat
    BY <1>5, RowParts DEF Task
  <2> QED BY <1>4, <2>1
<1>8. ~Touches(s, x[1])
  BY <1>1, <1>5, <1>7, ClaimTouches
<1>9. /\ Moves(s) /\ TypesOf(s)' /\ table' = table /\ by'[s] = by[s] /\ todo'[s] = todo[s]
      /\ held'[s] = held[s] /\ draft'[s] = draft[s] /\ todo[s] = {}
      /\ call'[s].op = "cancel_task" /\ Of(s)' = x /\ at'[s] = "start" /\ loop'[s] = loop[s] \ {x}
      /\ \A y : Sees(s, y)' = Sees(s, y)
      /\ \A t : Touches(s, t)' <=> Touches(s, t)
      /\ CallFits(s)'
  BY <1>1, <1>2, Performed
<1>10. Calls(s)'
  <2>1. CancelFits(s)'
    BY <1>3, <1>5, <1>8, <1>9 DEF CancelFits
  <2>2. InCancelling(s)'
    <3>1. \A y \in held[s] : y \in Lockable
      BY <1>1, Claims DEF Types, Lockable
    <3>2. \A y \in held[s] : y[2] < x[1] /\ y[2] <= x[1]
      BY <1>4, <1>5, <3>1, Bounds DEF Task
    <3> QED BY <1>4, <1>6, <1>9, <3>2 DEF InCancelling
  <2>3. ClaimFits(s)'
    BY <1>9, <2>2 DEF ClaimFits, ClaimAt, InFailing, Failing
  <2> QED BY <1>9, <2>1, <2>3 DEF Calls, RunFits, AwaitFits, EmitFits, CleanupFits
<1> QED BY <1>1, <1>9, <1>10, ClaimKeeps

LEMMA FailExpiredKeeps ==
  ASSUME LockInv, NEW s \in Session, FailExpired(s)
  PROVE  LockInv'
<1>1. call[s].op = "claim_task" /\ at[s] = "fail" /\ Asks(s) = {}
  BY DEF FailExpired, In
<1>2. PICK r \in loop[s] : Perform(s, "fail_run", r, loop[s] \ {r})
  BY DEF FailExpired
<1>3. by[s] = "claim_task" /\ InFailing(s) /\ Good(table)
  BY <1>1, Claims
<1>4. \A q \in loop[s] : q \in Run /\ R(q) \in held[s] /\ table[R(q)] = "running" /\ T(q[1]) \notin held[s]
  BY <1>1, <1>3 DEF InFailing, Failing
<1>5. r \in Run /\ r[1] \in Task /\ ~Touches(s, r[1])
  BY <1>1, <1>4, ClaimTouches, RunParts
<1>6. \A q \in loop[s] \ {r} : q[1] # r[1]
  BY <1>3, <1>4 DEF Good, Active
<1>7. /\ Moves(s) /\ TypesOf(s)' /\ table' = table /\ by'[s] = by[s] /\ todo'[s] = todo[s]
      /\ held'[s] = held[s] /\ draft'[s] = draft[s] /\ todo[s] = {}
      /\ call'[s].op = "fail_run" /\ Of(s)' = r /\ at'[s] = "start" /\ loop'[s] = loop[s] \ {r}
      /\ \A t : Touches(s, t)' <=> Touches(s, t)
      /\ CallFits(s)'
  BY <1>1, <1>2, Performed
<1>8. Calls(s)'
  <2>1. RunFits(s)'
    BY <1>4, <1>5, <1>7 DEF RunFits, Reach
  <2>2. InFailing(s)'
    BY <1>4, <1>6, <1>7 DEF InFailing
  <2>3. ClaimFits(s)'
    BY <1>7, <2>2 DEF ClaimFits, ClaimAt, InCancelling, Cancelling
  <2> QED BY <1>7, <2>1, <2>3 DEF Calls, AwaitFits, CancelFits, EmitFits, CleanupFits
<1> QED BY <1>1, <1>7, <1>8, ClaimKeeps

LEMMA SweepKeeps ==
  ASSUME LockInv, NEW s \in Session, Sweep(s)
  PROVE  LockInv'
<1>1. call[s].op = "claim_task" /\ at[s] = "cancel" /\ Asks(s) = {}
  BY DEF Sweep, In
<1>2. PICK expired \in SUBSET {r \in Run : Sees(s, R(r)) = "running" /\ Free(s, R(r))} :
         /\ held' = [held EXCEPT ![s] = @ \cup {R(r) : r \in expired}]
         /\ loop' = [loop EXCEPT ![s] = expired]
  BY DEF Sweep
<1>3. /\ by[s] = "claim_task" /\ Types /\ Exclusive /\ Good(table)
      /\ CallFits(s) /\ ClaimAt(s) /\ InCancelling(s)
      /\ Good(View(s)) /\ Owner(s) /\ Evolves(s) /\ LastRows(s)
      /\ \A t \in Task : ~Looking(s, t) /\ C(t) \notin held[s]
  BY <1>1, Claims
<1>4. todo[s] = {}
  BY <1>1, <1>3 DEF ClaimAt
<1>5. \A r \in expired : r \in Run /\ r[1] \in Task /\ Sees(s, R(r)) = "running" /\ Free(s, R(r)) /\ R(r) \in Row
  BY RunParts, RowParts
<1> DEFINE more == {R(r) : r \in expired}
<1>6. /\ \A x \in more : x \in Row /\ \E r \in expired : x = R(r)
      /\ \A r \in expired : R(r) \in more
  BY <1>5
<1> HIDE DEF more
<1>7. /\ table' = table /\ by' = by /\ call' = call /\ todo' = todo /\ draft' = draft
      /\ at' = [at EXCEPT ![s] = "fail"] /\ at'[s] = "fail"
      /\ held' = [held EXCEPT ![s] = @ \cup more] /\ held'[s] = held[s] \cup more
      /\ loop' = [loop EXCEPT ![s] = expired] /\ loop'[s] = expired
  BY <1>2, <1>3 DEF Sweep, Types, more
<1>8. Types' /\ OnlyMoves(s)
  <2>1. expired \subseteq Target
    BY <1>5, Parameters
  <2>2. TypesOf(s)'
    BY <1>3, <1>6, <1>7, <2>1 DEF TypesOf, Types, Label
  <2>3. Moves(s)
    BY <1>7 DEF Moves
  <2> QED BY <1>3, <1>7, <2>2, <2>3, Moved DEF Types
<1>9. Exclusive'
  <2>1. \A u \in Session : u # s => \A x \in more : x \notin held[u]
    <3>1. ASSUME NEW u \in Session, u # s, NEW x \in more PROVE x \notin held[u]
      <4>1. PICK r \in expired : x = R(r)
        BY <1>6
      <4>2. Free(s, x) /\ x # EShare
        BY <1>5, <4>1, RowsDiffer
      <4> QED BY <3>1, <4>2 DEF Free, Conflict
    <3> QED BY <3>1
  <2> QED BY <1>3, <1>7, <1>8, <2>1 DEF Exclusive, OnlyMoves, Still
<1>10. \A r \in expired : T(r[1]) \notin held[s] /\ table[R(r)] = "running"
  <2>1. ASSUME NEW r \in expired PROVE T(r[1]) \notin held[s] /\ table[R(r)] = "running"
    <3>1. r \in Run /\ r[1] \in Task /\ Sees(s, R(r)) = "running" /\ R(r) \in Row /\ T(r[1]) \in Row
      BY <1>5, RowParts
    <3>2. Sees(s, T(r[1])) \notin {"failed", "ended"}
      <4>1. View(s)[R(r)] \in Active
        BY <3>1, Drafted DEF Active
      <4>2. View(s)[T(r[1])] \notin {"failed", "ended"}
        BY <1>3, <3>1, <4>1 DEF Good
      <4> QED BY <3>1, <4>2, Drafted
    <3>3. T(r[1]) \notin held[s]
      BY <1>1, <1>3, <3>1, <3>2 DEF InCancelling, Cancelling
    <3> QED BY <1>1, <3>1, <3>3, ClaimTouches
  <2> QED BY <2>1
<1>11. /\ \A x : x \in Reach(s)' <=> x \in Reach(s) \/ x \in more
       /\ Missing(s)' = {} /\ View(s)' = View(s)
       /\ \A t : (Looking(s, t)' <=> Looking(s, t)) /\ (HasActive(s, t) => HasActive(s, t)')
       /\ \A t : Touches(s, t)' <=> Touches(s, t)
  <2>1. /\ \A x : x \in Reach(s)' <=> x \in Reach(s) \/ x \in more
        /\ Missing(s)' = {} /\ View(s)' = View(s)
    BY <1>4, <1>7 DEF Reach, Rows, Missing, View, Sees
  <2>2. \A t : Looking(s, t)' <=> Looking(s, t)
    BY <1>1, <1>7 DEF Looking
  <2>3. \A t : HasActive(s, t) => HasActive(s, t)'
    BY <1>7 DEF HasActive
  <2>4. \A t : Touches(s, t)' <=> Touches(s, t)
    BY <1>7 DEF Touches, Written
  <2> QED BY <2>1, <2>2, <2>3, <2>4
<1>12. \A t \in Task : T(t) \notin more /\ C(t) \notin more /\ \A r \in Run : W(r) \notin more
  BY <1>5, <1>6, RowsDiffer
<1>13. Order(s)'
  <2>1. Good(View(s)')
    BY <1>3, <1>11
  <2>2. Owner(s)'
    <3> SUFFICES ASSUME NEW t \in Task PROVE Owns(s, t)'
      BY DEF Owner
    <3>1. Owns(s, t)
      BY <1>3 DEF Owner
    <3> QED BY <1>7, <1>11, <1>12, <3>1 DEF Owns
  <2>3. Evolves(s)'
    BY <1>3, <1>7 DEF Evolves, Born, Written
  <2>4. LastRows(s)'
    <3>1. \A r \in Run : W(r) \in held'[s] => W(r) \in held[s]
      BY <1>7, <1>12, RunParts
    <3> QED BY <1>3, <1>7, <1>12, <3>1 DEF LastRows
  <2>5. InOrder(s)' /\ OneTask(s)'
    BY <1>3, <1>7, <1>11 DEF InOrder, OneTask
  <2> QED BY <2>1, <2>2, <2>3, <2>4, <2>5 DEF Order, Good
<1>14. Calls(s)'
  <2>1. CallFits(s)'
    BY <1>1, <1>3, <1>7 DEF CallFits
  <2>2. InFailing(s)'
    <3>1. \A r \in expired : R(r) \in held'[s] /\ T(r[1]) \notin held'[s]
      BY <1>5, <1>6, <1>7, <1>10, <1>12
    <3> QED BY <1>1, <1>5, <1>7, <1>10, <3>1 DEF InFailing
  <2>3. ClaimFits(s)'
    BY <1>1, <1>4, <1>7, <2>2 DEF ClaimFits, ClaimAt, InCancelling, Cancelling
  <2> QED BY <1>1, <1>7, <2>1, <2>3 DEF Calls, RunFits, AwaitFits, CancelFits, EmitFits, CleanupFits
<1> QED BY <1>7, <1>8, <1>9, <1>13, <1>14, OneMoves

LEMMA ClaimTaskKeeps ==
  ASSUME LockInv, NEW s \in Session, ClaimTask(s)
  PROVE  LockInv'
<1>1. call[s].op = "claim_task" /\ at[s] = "fail" /\ loop[s] = {} /\ Asks(s) = {}
  BY DEF ClaimTask, In
<1>2. PICK due \in SUBSET {r \in Run : /\ Sees(s, R(r)) \in {"pending", "sleeping"}
                                       /\ Sees(s, T(r[1])) = "active"
                                       /\ Free(s, R(r))} :
         LET claimed == {r \in due : Free(s, T(r[1]))}
             waits == {W(r) : r \in claimed} IN
         /\ held' = [held EXCEPT ![s] = @ \cup {R(r) : r \in due} \cup {T(r[1]) : r \in claimed}]
         /\ todo' = [todo EXCEPT ![s] = Nth(1, Present(s, waits))]
         /\ draft' = [draft EXCEPT ![s] =
               Write(Write(@, {R(r) : r \in claimed}, "running"), waits, "none")]
  BY DEF ClaimTask
<1> DEFINE claimed == {r \in due : Free(s, T(r[1]))}
           waits == {W(r) : r \in claimed}
           runs == {R(r) : r \in claimed}
           more == {R(r) : r \in due} \cup {T(r[1]) : r \in claimed}
           left == Present(s, waits)
           rows == Nth(1, left)
           taken == Write(draft[s], runs, "running")
           writes == Write(taken, waits, "none")
<1>3. /\ by[s] = "claim_task" /\ Types /\ Exclusive /\ Good(table)
      /\ CallFits(s) /\ Good(View(s)) /\ Owner(s) /\ Evolves(s) /\ LastRows(s)
      /\ \A t \in Task : ~Looking(s, t) /\ C(t) \notin held[s]
  BY <1>1, Claims
<1>4. /\ \A r \in due : /\ r \in Run /\ r[1] \in Task /\ Sees(s, R(r)) \in {"pending", "sleeping"}
                        /\ Free(s, R(r)) /\ R(r) \in Row /\ T(r[1]) \in Row
      /\ \A r \in claimed : r \in due /\ Free(s, T(r[1]))
  BY RunParts, RowParts
<1>5. /\ \A x \in more : /\ x \in Row /\ Free(s, x) /\ x # EShare
                         /\ \E r \in Run : x = R(r) \/ (r \in claimed /\ x = T(r[1]))
      /\ \A r \in claimed : R(r) \in more /\ T(r[1]) \in more
  <2>1. /\ \A x \in more : \E r \in due : x = R(r) \/ (r \in claimed /\ x = T(r[1]))
        /\ \A r \in claimed : R(r) \in more /\ T(r[1]) \in more
    OBVIOUS
  <2> HIDE DEF more, claimed
  <2> QED BY <1>4, <2>1, RowsDiffer
<1>6. \A q \in Run : /\ R(q) \in runs <=> q \in claimed
                     /\ W(q) \in waits <=> q \in claimed
                     /\ R(q) \notin waits /\ W(q) \notin runs
  <2>1. \A r \in claimed : r \in Run
    BY <1>4
  <2> HIDE DEF claimed
  <2> QED BY <2>1, RowsDiffer
<1>7. \A t \in Task : T(t) \notin runs /\ T(t) \notin waits
  <2>1. \A r \in claimed : r \in Run
    BY <1>4
  <2> HIDE DEF claimed
  <2> QED BY <2>1, RowsDiffer
<1>8. left \subseteq waits /\ \A x \in waits : \E r \in claimed : x = W(r)
  BY DEF Present
<1> HIDE DEF claimed, more, left
<1>9. /\ writes \in Drafts
      /\ \A x \in Row : writes[x] = IF x \in waits THEN "none" ELSE IF x \in runs THEN "running" ELSE draft[s][x]
      /\ \A x \in Row : Shows(writes, x) = IF x \in waits THEN "none" ELSE IF x \in runs THEN "running"
                                           ELSE View(s)[x]
  <2> HIDE DEF runs, waits
  <2>1. /\ taken \in Drafts
        /\ \A x \in Row : /\ Shows(taken, x) = IF x \in runs THEN "running" ELSE Shows(draft[s], x)
                          /\ taken[x] = IF x \in runs THEN "running" ELSE draft[s][x]
    BY Drafted, ShowsWrite DEF Value, Active
  <2> HIDE DEF taken
  <2>2. /\ writes \in Drafts
        /\ \A x \in Row : /\ Shows(writes, x) = IF x \in waits THEN "none" ELSE Shows(taken, x)
                          /\ writes[x] = IF x \in waits THEN "none" ELSE taken[x]
    BY <2>1, ShowsWrite DEF Value
  <2> HIDE DEF writes
  <2> QED BY <2>1, <2>2, Drafted
<1>10. rows \in Lists /\ \A p \in rows : \E r \in claimed : p = <<1, W(r)>>
  <2>1. left \in SUBSET Lockable
    BY <1>4, <1>8, RowParts, Parameters
  <2>2. \A p \in rows : \E x \in left : p = <<1, x>>
    BY DEF Nth
  <2>3. rows \in Lists
    BY <2>1, NthParts
  <2> HIDE DEF waits
  <2> QED BY <1>8, <2>2, <2>3
<1>11. /\ table' = table /\ by' = by /\ call' = call /\ loop' = loop
       /\ at' = [at EXCEPT ![s] = "end"] /\ at'[s] = "end"
       /\ held' = [held EXCEPT ![s] = held[s] \cup more] /\ held'[s] = held[s] \cup more
       /\ todo' = [todo EXCEPT ![s] = rows] /\ todo'[s] = rows
       /\ draft' = [draft EXCEPT ![s] = writes] /\ draft'[s] = writes
  <2>1. /\ held' = [held EXCEPT ![s] = held[s] \cup more]
        /\ todo' = [todo EXCEPT ![s] = rows] /\ draft' = [draft EXCEPT ![s] = writes]
    <3>1. held' = [held EXCEPT ![s] = @ \cup {R(r) : r \in due} \cup {T(r[1]) : r \in claimed}]
      BY <1>2 DEF claimed
    <3>2. held[s] \cup {R(r) : r \in due} \cup {T(r[1]) : r \in claimed} = held[s] \cup more
      BY DEF more
    <3>3. held' = [held EXCEPT ![s] = held[s] \cup more]
      BY <1>3, <3>1, <3>2 DEF Types
    <3>4. todo' = [todo EXCEPT ![s] = rows] /\ draft' = [draft EXCEPT ![s] = writes]
      BY <1>2, <1>3 DEF claimed, left, Types
    <3> QED BY <3>3, <3>4
  <2> HIDE DEF rows, writes
  <2> QED BY ZenonT(60), <1>3, <2>1 DEF ClaimTask, Types
<1> HIDE DEF runs, waits, rows, writes
<1>12. Types' /\ OnlyMoves(s)
  <2>1. TypesOf(s)'
    BY <1>3, <1>5, <1>9, <1>10, <1>11 DEF TypesOf, Types, Label, Lists, Drafts
  <2>2. Moves(s)
    BY <1>11 DEF Moves
  <2> QED BY <1>3, <1>11, <2>1, <2>2, Moved DEF Types
<1>13. Exclusive'
  <2>1. \A u \in Session : u # s => \A x \in more : x \notin held[u]
    BY <1>5 DEF Free, Conflict
  <2> QED BY <1>3, <1>11, <1>12, <2>1 DEF Exclusive, OnlyMoves, Still
<1>14. /\ \A t \in Task : T(t) \in more => \E r \in claimed : r[1] = t
       /\ \A t \in Task : C(t) \notin more
       /\ \A r \in Run : W(r) \notin more
  BY <1>4, <1>5, RowsDiffer
<1>15. \A q \in Run : /\ writes[R(q)] = IF q \in claimed THEN "running" ELSE draft[s][R(q)]
                      /\ writes[W(q)] = IF q \in claimed THEN "none" ELSE draft[s][W(q)]
  BY <1>6, <1>9, RowParts
<1>16. \A r \in claimed : r \in Run /\ r[1] \in Task /\ Sees(s, R(r)) \in Active /\ View(s)[R(r)] \in Active
                          /\ Sees(s, R(r)) # "none"
  BY <1>4, Drafted DEF Active
<1>17. Good(View(s)')
  <2> DEFINE v == View(s) w == View(s)'
  <2>1. \A x \in Row : w[x] = Shows(writes, x)
    BY <1>11 DEF View, Sees, Shows
  <2>2. \A q \in Run : /\ w[R(q)] = IF q \in claimed THEN "running" ELSE v[R(q)]
                       /\ w[W(q)] = IF q \in claimed THEN "none" ELSE v[W(q)]
                       /\ w[T(q[1])] = v[T(q[1])]
    BY <1>6, <1>7, <1>9, <2>1, RowParts, RunParts
  <2>3. Good(v) /\ \A q \in claimed : v[R(q)] \in Active
    BY <1>3, <1>16
  <2> HIDE DEF v, w
  <2>4. \A q \in Run : w[R(q)] \in Active <=> v[R(q)] \in Active
    BY <2>2, <2>3 DEF Active
  <2>5. \A q \in Run : w[R(q)] = "none" <=> v[R(q)] = "none"
    BY <2>2, <2>3 DEF Active
  <2>6. \A q \in Run : w[W(q)] = "row" => w[R(q)] = "sleeping"
    BY <2>2, <2>3 DEF Good
  <2> QED BY <2>2, <2>3, <2>4, <2>5, <2>6 DEF Good, w
<1>18. Owner(s)'
  <2> SUFFICES ASSUME NEW t \in Task PROVE Owns(s, t)'
    BY DEF Owner
  <2>1. Owns(s, t) /\ ~Looking(s, t) /\ ~Looking(s, t)'
    BY <1>1, <1>3, <1>11 DEF Owner, Looking
  <2>2. Touches(s, t)' => Touches(s, t) \/ \E r \in claimed : r[1] = t
    <3>1. writes[T(t)] = draft[s][T(t)]
      BY <1>7, <1>9, RowParts
    <3> QED BY <1>11, <1>15, <3>1 DEF Touches, Written
  <2>3. \A x : x \in held[s] \/ x \in more => x \in Reach(s)'
    BY <1>11 DEF Reach
  <2>4. \A u \in Task : T(u) \in Reach(s)' => T(u) \in held[s] \/ T(u) \in more
    <3>1. \A p \in rows, u \in Task : p[2] # T(u)
      BY <1>10, <1>16, RowsDiffer
    <3> QED BY <1>11, <3>1 DEF Reach, Rows
  <2>5. CASE T(t) \in held[s]
    <3>1. \A r \in Run : r[1] = t /\ table[R(r)] \in Active => R(r) \in held[s]
      BY <1>1, <2>1, <2>5, HasAll DEF Owns
    <3> QED BY <1>11, <2>1, <2>3, <2>5, <3>1 DEF Owns
  <2>6. CASE T(t) \notin held[s] /\ \E r \in claimed : r[1] = t
    <3>1. PICK r \in claimed : r[1] = t
      BY <2>6
    <3>2. table[R(r)] \in Active /\ r \in Run
      BY <1>1, <1>16, <2>6, <3>1, ClaimTouches
    <3>3. \A q \in Run : q[1] = t /\ table[R(q)] \in Active => q = r
      BY <1>3, <3>1, <3>2 DEF Good
    <3>4. T(t) \in more /\ R(r) \in more
      BY <1>5, <3>1
    <3> QED BY <1>11, <2>1, <2>3, <3>3, <3>4 DEF Owns
  <2>7. CASE T(t) \notin held[s] /\ ~\E r \in claimed : r[1] = t
    <3>1. ~Touches(s, t)' /\ T(t) \notin Reach(s)'
      BY <1>1, <1>14, <2>2, <2>4, <2>7, ClaimTouches
    <3> QED BY <3>1 DEF Owns
  <2> QED BY <2>5, <2>6, <2>7
<1>19. Evolves(s)'
  <2>1. \A r : Born(r)' <=> Born(r)
    BY <1>11 DEF Born
  <2>2. \A q \in claimed : table[R(q)] \in Active \/ (table[R(q)] = "none" /\ Born(q))
    BY <1>3, <1>16 DEF Evolves, Sees
  <2> QED BY <1>3, <1>11, <1>15, <2>1, <2>2 DEF Evolves, Written
<1>20. LastRows(s)'
  <2>1. \A r \in Run : W(r) \in held'[s] => W(r) \in held[s]
    BY <1>11, <1>14
  <2> QED BY <1>3, <1>11, <1>14, <2>1 DEF LastRows
<1>21. InOrder(s)' /\ OneTask(s)'
  <2>1. \A p \in rows : p[2][1] = "w"
    BY <1>10, <1>16, RowParts
  <2> QED BY <1>3, <1>11, <2>1 DEF InOrder, Missing, OneTask
<1>22. Order(s)'
  BY <1>17, <1>18, <1>19, <1>20, <1>21 DEF Order, Good
<1>23. Calls(s)'
  <2>1. CallFits(s)'
    BY <1>1, <1>3, <1>11 DEF CallFits
  <2>2. ClaimAt(s)'
    <3>1. \A p \in rows : \E r \in Run : p = <<1, W(r)>> /\ T(r[1]) \in held'[s]
      BY <1>5, <1>10, <1>11, <1>16
    <3> QED BY <1>11, <3>1 DEF ClaimAt
  <2>3. ClaimFits(s)'
    BY <1>1, <1>11, <2>2 DEF ClaimFits, InCancelling, Cancelling, InFailing, Failing
  <2> QED BY <1>1, <1>11, <2>1, <2>3 DEF Calls, RunFits, AwaitFits, CancelFits, EmitFits, CleanupFits
<1> QED BY <1>11, <1>12, <1>13, <1>22, <1>23, OneMoves

-----------------------------------------------------------------------------
(* No circle of waits without the exceptions.                              *)

Waits(s) == Asks(s) # {}
Plain(s) ==
  /\ by[s] # "cleanup_tasks" /\ ~LateCancel(s)
  /\ call[s].op = "emit_event" => at[s] = "start"

LEMMA ConflictSame ==
  ASSUME NEW x, NEW y, Conflict(x, y)
  PROVE  /\ x[2] = y[2] /\ Place(x) = Place(y)
         /\ x = y \/ (x \in {E, EShare, EInsert} /\ y \in {E, EShare})
BY RowParts, Places DEF Conflict

(* An emission that has only begun holds at most the event, and then waits *)
(* for nothing.                                                            *)
LEMMA EmitStarts ==
  ASSUME LockInv, NEW s \in Session, Plain(s), call[s].op = "emit_event"
  PROVE  /\ held[s] \subseteq {E} /\ Asks(s) \subseteq {E}
         /\ Waits(s) => held[s] = {}
<1>1. Types /\ at[s] = "start" /\ todo[s] = Nth(1, {E}) /\ held[s] \subseteq {E}
  BY DEF LockInv, Calls, EmitFits, Plain
<1>2. Asks(s) \subseteq {E}
  BY <1>1, Asked DEF Rows, Nth
<1>3. \A x \in Asks(s) : x \notin held[s]
  BY <1>1, Asked
<1> QED BY <1>1, <1>2, <1>3 DEF Waits

LEMMA LateOrWaits ==
  ASSUME LockInv, NEW s \in Session, call[s].op = "cancel_task", at[s] = "end", ~LateCancel(s)
  PROVE  /\ \A x \in Asks(s) : \E r \in Run : x = W(r)
         /\ \A r \in Run : R(r) \in Rows(s) => R(r) \in held[s]
<1>1. Types /\ \A p \in todo[s] : \E r \in Run : p \in {<<1, R(r)>>, <<2, W(r)>>}
  BY DEF LockInv, Calls, CancelFits
<1>2. \A r \in Run : R(r) \notin Asks(s)
  BY DEF LateCancel
<1>3. Missing(s) \subseteq todo[s]
  BY DEF Missing
<1>4. ASSUME NEW x \in Asks(s) PROVE \E r \in Run : x = W(r)
  <2>1. PICK p \in Missing(s) : p[2] = x
    BY <1>1, Asked
  <2>2. PICK r \in Run : p \in {<<1, R(r)>>, <<2, W(r)>>}
    BY <1>1, <1>3
  <2> QED BY <1>2, <2>1, <2>2
<1>5. ASSUME NEW r \in Run, R(r) \in Rows(s), R(r) \notin held[s] PROVE FALSE
  <2>1. PICK p \in todo[s] : p[2] = R(r)
    BY <1>5 DEF Rows
  <2>2. p[1] = 1 /\ p \in Missing(s)
    <3>1. PICK q \in Run : p \in {<<1, R(q)>>, <<2, W(q)>>}
      BY <1>1
    <3> QED BY <1>5, <2>1, <3>1, RowsDiffer DEF Missing
  <2>3. \A q \in Missing(s) : p[1] <= q[1]
    <3> SUFFICES ASSUME NEW q \in Missing(s) PROVE 1 <= q[1]
      BY <2>2
    <3> QED BY <1>1, <1>3
  <2> QED BY <1>1, <1>2, <2>1, <2>2, <2>3, Asked
<1> QED BY <1>4, <1>5

(* A row that is waited for comes after those that are held.               *)
LEMMA AskedAfterHeld ==
  ASSUME LockInv, NEW s \in Session, Plain(s), NEW x \in Asks(s), NEW y \in held[s]
  PROVE  x[1] \in {"w", "c"} \/ Before(y, x) \/ \E t \in Task : x = T(t) /\ HasActive(s, t)
<1>1. Types /\ by[s] # "cleanup_tasks" /\ InOrder(s)
  BY DEF LockInv, Order, Plain
<1>2. CASE by[s] = "emit_event"
  BY <1>2, EmitStarts, EmitOp DEF Waits
<1>3. CASE call[s].op = "cancel_task" /\ at[s] = "end"
  BY <1>3, LateOrWaits, RowParts DEF Plain
<1>4. CASE by[s] # "emit_event" /\ ~(call[s].op = "cancel_task" /\ at[s] = "end")
  <2>1. PICK p \in Missing(s) : p[2] = x
    BY <1>1, Asked
  <2> QED BY <1>1, <1>4, <2>1 DEF InOrder
<1> QED BY <1>2, <1>3, <1>4

(* Who has a checkpoint waits for nothing.                                 *)
LEMMA HoldCheckpoint ==
  ASSUME LockInv, NEW s \in Session, Plain(s), NEW t \in Task, C(t) \in held[s]
  PROVE  ~Waits(s)
<1>1. Types /\ Calls(s) /\ LastRows(s) /\ by[s] # "cleanup_tasks"
  BY DEF LockInv, Order, Plain
<1>2. by[s] # "emit_event"
  BY EmitOp, EmitStarts, RowsDiffer
<1>3. /\ call[s].op \in {"await_event", "set_task_checkpoint_state"} /\ at[s] = "end" /\ C(t) \in Rows(s)
  BY <1>1, <1>2 DEF LastRows
<1>4. Of(s) \in Run /\ Of(s)[1] \in Task
  BY <1>1, <1>3, RunParts DEF Calls, AwaitFits
<1>5. SUFFICES ASSUME NEW x \in Asks(s) PROVE FALSE
  BY DEF Waits
<1>6. PICK p \in Missing(s) : p[2] = x
  BY <1>1, Asked
<1>7. p \in todo[s] /\ x \notin held[s] /\ x \in Rows(s)
  BY <1>6 DEF Missing, Rows
<1>8. x = R(Of(s))
  <2>1. CASE call[s].op = "await_event"
    <3>1. todo[s] \subseteq Nth(1, {W(Of(s))}) \/ todo[s] = Nth(1, {C(Of(s)[1])})
      BY <1>1, <1>3, <2>1 DEF Calls, AwaitFits
    <3>2. PICK q \in todo[s] : q[2] = C(t)
      BY <1>3 DEF Rows
    <3> QED BY <1>4, <1>6, <1>7, <3>1, <3>2, RowsDiffer DEF Nth
  <2>2. CASE call[s].op = "set_task_checkpoint_state"
    <3>1. todo[s] \subseteq Nth(1, {R(Of(s))}) \cup Nth(2, {C(Of(s)[1])})
      BY <1>1, <2>2 DEF Calls, AwaitFits
    <3>2. PICK q \in todo[s] : q[2] = C(t)
      BY <1>3 DEF Rows
    <3> QED BY <1>4, <1>6, <1>7, <3>1, <3>2, RowsDiffer DEF Nth
  <2> QED BY <1>3, <2>1, <2>2
<1>9. x[1] = "r" /\ (\A u \in Task : x # T(u)) /\ ~Before(C(t), x)
  <2>1. Place(x) < Place(C(t)) /\ Place(x) \in Nat /\ Place(C(t)) \in Nat
    BY <1>4, <1>8, Places, RunParts, LockAssumption
  <2>2. x[2] = Of(s)[1] /\ C(t)[2] = t
    BY <1>4, <1>8, RowParts
  <2>3. t = Of(s)[1]
    <3>1. C(t) \in held[s] /\ C(t)[2] = t /\ t # 0
      BY RowParts DEF Task
    <3>2. OneTask(s)
      BY <1>1 DEF LockInv, Order
    <3>3. by[s] \notin {"claim_task", "emit_event"}
      BY <1>1, <1>3 DEF Calls, CallFits
    <3> QED BY <3>1, <3>2, <3>3 DEF OneTask
  <2> QED BY <1>4, <1>8, <2>1, <2>2, <2>3, RowParts, RowsDiffer DEF Before, Task
<1> QED BY <1>5, <1>9, AskedAfterHeld

(* Who has an active run of a task does not wait for one who has the task  *)
(* and waits: that one has, or waits for, every active run it knows of,    *)
(* and locks runs before their task.                                       *)
LEMMA HeldTask ==
  ASSUME LockInv, NEW s \in Session, NEW u \in Session, s # u, Plain(u), Waits(u),
         NEW t \in Task, HasActive(s, t), T(t) \in held[u]
  PROVE  FALSE
<1>1. Types /\ Exclusive /\ Calls(u) /\ Owner(u) /\ by[u] # "cleanup_tasks"
  BY DEF LockInv, Order, Plain
<1>2. by[u] # "emit_event"
  BY EmitOp, EmitStarts, RowsDiffer
<1>3. PICK r \in Run : r[1] = t /\ R(r) \in held[s] /\ table[R(r)] \in Active
  BY DEF HasActive
<1>4. R(r) \notin held[u]
  BY <1>1, <1>3, RowsDiffer DEF Exclusive
<1>5. \A q \in Run : q[1] = t => ~Before(T(t), R(q))
  BY Places, RowParts, RunParts, LockAssumption DEF Before, Task
<1>6. ASSUME NEW q \in Run, q[1] = t, R(q) \in Asks(u) PROVE FALSE
  <2>1. R(q)[1] = "r" /\ \A w \in Task : R(q) # T(w)
    BY RowParts, RowsDiffer
  <2> QED BY <1>5, <1>6, <2>1, AskedAfterHeld
<1>7. ~Looking(u, t)
  <2> SUFFICES ASSUME Looking(u, t) PROVE FALSE
    OBVIOUS
  <2>1. PICK x \in Asks(u) : TRUE
    BY DEF Waits
  <2>2. PICK p \in todo[u] : p[2] = x /\ x # T(t)
    BY <1>1, <2>1, Asked DEF Rows
  <2>3. Of(u)[1] = t
    BY DEF Looking
  <2>4. CASE call[u].op \in {"extend_claim", "await_event"}
    <3>1. Of(u) \in Run /\ todo[u] = Nth(1, {R(Of(u))}) \cup Nth(2, {T(t)})
      BY <1>1, <2>3, <2>4 DEF Looking, Calls, AwaitFits
    <3> QED BY <1>6, <2>1, <2>2, <2>3, <3>1 DEF Nth
  <2>5. CASE call[u].op = "retry_task"
    BY <1>1, <2>2, <2>3, <2>5 DEF Looking, Calls, CancelFits, Nth
  <2>6. CASE call[u].op = "cancel_task"
    <3>1. \E q \in Run : q[1] = t /\ p = <<q[2], R(q)>>
      BY <1>1, <2>2, <2>3, <2>6 DEF Looking, Calls, CancelFits
    <3> QED BY <1>6, <2>1, <2>2, <3>1
  <2> QED BY <2>4, <2>5, <2>6 DEF Looking
<1>8. R(r) \in Rows(u)
  BY <1>1, <1>3, <1>4, <1>7 DEF Owner, Owns, Reach
<1>9. PICK p \in todo[u] : p[2] = R(r)
  BY <1>8 DEF Rows
<1>10. p \in Missing(u)
  BY <1>4, <1>9 DEF Missing
<1>11. ~(call[u].op = "cancel_task" /\ at[u] = "end")
  BY <1>4, <1>8, LateOrWaits DEF Plain
<1>12. InOrder(u)
  BY <1>1 DEF LockInv, Order
<1>13. R(r)[1] = "r" /\ \A w \in Task : R(r) # T(w)
  BY RowParts, RowsDiffer
<1> QED BY <1>2, <1>3, <1>5, <1>9, <1>10, <1>11, <1>12, <1>13 DEF InOrder

LEMMA NoCircle ==
  ASSUME LockInv, NEW G \in SUBSET Session, G # {},
         \A s \in G : Plain(s) /\ \E u \in G : WaitsFor(s, u)
  PROVE  FALSE
<1>1. Types /\ Exclusive
  BY DEF LockInv
<1>2. \A s \in G : s \in Session /\ Waits(s)
  BY DEF WaitsFor, Waits
<1> DEFINE Blocks(z, v, w) == v # w /\ z \in Asks(v) /\ \E y \in held[w] : Conflict(z, y)
<1> DEFINE L == {x \in Lockable : \E s, u \in G : Blocks(x, s, u)}
<1>3. \A s \in G : \E u \in G, x \in L : Blocks(x, s, u)
  BY <1>1, Asked DEF WaitsFor
<1>4. L # {}
  BY <1>3
<1>5. ASSUME NEW x \in L PROVE x[1] \notin {"w", "c"}
  <2>1. PICK s \in G, u \in G : Blocks(x, s, u)
    BY <1>5
  <2>2. PICK y \in held[u] : Conflict(x, y)
    BY <2>1
  <2>3. SUFFICES ASSUME x[1] \in {"w", "c"} PROVE FALSE
    OBVIOUS
  <2>4. x = y /\ x \in Row
    BY <2>2, <2>3, ConflictSame, RowParts DEF Lockable
  <2>5. \A r \in Run : x # W(r)
    <3> SUFFICES ASSUME NEW r \in Run, x = W(r) PROVE FALSE
      OBVIOUS
    <3>5. by[s] \notin {"emit_event", "cleanup_tasks"}
      BY <1>2, <2>1, EmitOp, EmitStarts, RowsDiffer DEF Plain
    <3>1. T(r[1]) \in held[s] /\ r[1] \in Task
      BY <1>2, <2>1, <3>5, AskWait, RunParts
    <3>2. call[u].op # "emit_event"
      BY <1>2, <2>2, EmitStarts DEF Waits
    <3>3. LastRows(u) /\ by[u] # "emit_event"
      BY <1>2, <3>2, EmitOp DEF LockInv, Order, Plain
    <3>4. T(r[1]) \in held[u]
      BY <2>2, <2>4, <3>3 DEF LastRows
    <3> QED BY <1>1, <1>2, <2>1, <3>1, <3>4, RowsDiffer DEF Exclusive
  <2>6. \A t \in Task : x # C(t)
    BY <1>2, <2>2, <2>4, HoldCheckpoint
  <2> QED BY <2>3, <2>4, <2>5, <2>6, Kinds, RowParts
<1>6. ASSUME NEW x \in L PROVE \E z \in L : Before(x, z)
  <2>1. PICK s \in G, u \in G : Blocks(x, s, u)
    BY <1>6
  <2>2. PICK y \in held[u] : Conflict(x, y)
    BY <2>1
  <2>3. PICK z \in L, w \in G : Blocks(z, u, w)
    BY <1>3
  <2>4. z[1] \notin {"w", "c"}
    BY <1>5
  <2>5. ASSUME NEW t \in Task, z = T(t), HasActive(u, t) PROVE FALSE
    <3>1. PICK v \in held[w] : Conflict(z, v)
      BY <2>3
    <3>2. v = T(t)
      BY <2>5, <3>1, ConflictSame, RowsDiffer
    <3> QED BY <1>2, <2>3, <2>5, <3>1, <3>2, HeldTask
  <2>6. Before(y, z)
    BY <1>2, <2>2, <2>3, <2>4, <2>5, AskedAfterHeld
  <2>7. x[2] = y[2] /\ Place(x) = Place(y)
    BY <2>2, ConflictSame
  <2> QED BY <2>3, <2>6, <2>7 DEF Before
<1> HIDE DEF L
<1>7. L \in SUBSET Lockable
  BY DEF L
<1> QED BY <1>4, <1>6, <1>7, NoClimb

LEMMA OrderOfLocks ==
  ASSUME LockInv
  PROVE  LockOrder
<1> SUFFICES ASSUME NEW G \in CircularWaits,
                    \A s \in G : /\ by[s] # "cleanup_tasks" /\ ~LateCancel(s)
                                 /\ ~(by[s] = "claim_task" /\ \E u \in G : by[u] = "emit_event")
             PROVE  FALSE
  BY DEF LockOrder
<1>1. /\ G \in SUBSET Session /\ G # {}
      /\ \A s \in G : \E u \in G : WaitsFor(s, u)
  BY DEF CircularWaits
<1>2. Types /\ Exclusive /\ \A s \in G : Calls(s) /\ Order(s) /\ s \in Session
  BY <1>1 DEF LockInv
<1>3. PICK e \in G : call[e].op = "emit_event" /\ at[e] # "start"
  BY <1>1, NoCircle DEF Plain
<1>4. \A s \in G : by[s] # "claim_task"
  BY <1>2, <1>3, EmitOp
<1>5. E \in held[e]
  BY <1>2, <1>3 DEF Calls, EmitFits
<1>6. \A s \in G : s # e => Plain(s)
  <2> SUFFICES ASSUME NEW s \in G, s # e, call[s].op = "emit_event", at[s] # "start" PROVE FALSE
    BY DEF Plain
  <2>1. E \in held[s]
    BY <1>2 DEF Calls, EmitFits
  <2> QED BY <1>2, <1>5, <2>1, RowsDiffer DEF Exclusive
<1>7. \A s \in G : Waits(s)
  BY <1>1 DEF WaitsFor, Waits
<1>8. PICK u \in G, x \in Asks(e) : e # u /\ \E y \in held[u] : Conflict(x, y)
  BY <1>1 DEF WaitsFor
<1>14. PICK y \in held[u] : Conflict(x, y)
  BY <1>8
<1>9. PICK p \in todo[e] : p[2] = x /\ x \notin held[e]
  BY <1>2, <1>8, Asked DEF Rows
<1>10. call[u].op # "emit_event"
  BY <1>2, <1>6, <1>7, <1>8, EmitStarts
<1>11. LastRows(u) /\ by[u] # "emit_event"
  BY <1>2, <1>10, EmitOp DEF Order
<1>12. CASE at[e] = "end"
  <2>1. PICK r \in Run : /\ R(r) \in held[e] /\ table[R(r)] \in Active
                         /\ p \in {<<1, T(r[1])>>, <<1, C(r[1])>>, <<1, W(r)>>}
    BY <1>2, <1>3, <1>9, <1>12 DEF Calls, EmitFits
  <2>2. r[1] \in Task /\ x \in {T(r[1]), C(r[1]), W(r)}
    BY <1>9, <2>1, RunParts
  <2>3. x = y
    BY <1>8, <1>14, <2>2, ConflictSame, RowsDiffer
  <2>4. x # C(r[1])
    BY <1>2, <1>6, <1>7, <1>8, <1>14, <2>2, <2>3, HoldCheckpoint
  <2>5. T(r[1]) \in held[u]
    BY <1>11, <1>14, <2>1, <2>2, <2>3, <2>4 DEF LastRows
  <2>6. HasActive(e, r[1])
    BY <2>1 DEF HasActive
  <2> QED BY <1>2, <1>6, <1>7, <1>8, <2>2, <2>5, <2>6, HeldTask
<1>13. CASE at[e] = "runs_locked"
  <2>1. /\ held[e] \subseteq {E} \cup Rows(e)
        /\ \A q \in todo[e] : \E r \in Run : q \in {<<1, R(r)>>, <<1, W(r)>>}
        /\ \A q, o \in todo[e] : q[2][2] = o[2][2] => q = o
    BY <1>2, <1>3, <1>13 DEF Calls, EmitFits
  <2>2. PICK t \in Task : x[2] = t
    BY <1>9, <2>1, RunParts, RowParts, RowsDiffer
  <2>3. t # 0 /\ x = y /\ y[2] = t
    <3>1. t # 0
      BY DEF Task
    <3>2. x \notin {E, EShare, EInsert}
      BY <2>2, <3>1, RowParts
    <3> QED BY <1>8, <1>14, <2>2, <3>1, <3>2, ConflictSame
  <2> DEFINE H == {s \in G : s # e /\ \E z \in held[s] : z[2] = t}
  <2>4. u \in H /\ H \in SUBSET Session
    BY <1>2, <1>8, <1>14, <2>3
  <2>5. ASSUME NEW s \in H PROVE \E w \in H : WaitsFor(s, w)
    <3>1. PICK w \in G, z \in Asks(s) : s # w /\ \E v \in held[w] : Conflict(z, v)
      BY <1>1 DEF WaitsFor
    <3>9. PICK v \in held[w] : Conflict(z, v)
      BY <3>1
    <3>2. PICK o \in held[s] : o[2] = t
      OBVIOUS
    <3>3. call[s].op # "emit_event" /\ by[s] # "emit_event"
      BY <1>2, <1>6, <1>7, <2>3, <3>2, EmitStarts, EmitOp, RowParts
    <3>4. Of(s)[1] = t /\ z[2] \in {0, t}
      <4>1. OneTask(s)
        BY <1>2 DEF Order
      <4>2. Of(s)[1] = t
        BY <1>4, <2>3, <3>2, <3>3, <4>1 DEF OneTask
      <4> QED BY <1>2, <1>4, <3>1, <3>3, <4>2, AskOne
    <3>5. z[2] = t
      <4> SUFFICES ASSUME z[2] = 0 PROVE FALSE
        BY <3>4
      <4>1. z \in Lockable
        BY <1>2, <3>1, Asked
      <4>2. z \in {E, EShare, EInsert}
        BY <4>1, Kinds, RowParts, RunParts DEF Lockable, Task
      <4>3. z[1] \notin {"w", "c"} /\ ~Before(o, z) /\ \A k \in Task : z # T(k)
        BY <3>2, <4>2, RowParts, RowsDiffer DEF Before, Task
      <4> QED BY <1>2, <1>6, <3>1, <3>2, <4>3, AskedAfterHeld
    <3>6. v = z
      BY <2>3, <3>5, <3>9, ConflictSame, RowParts
    <3>7. w # e
      <4> SUFFICES ASSUME v \in held[e] PROVE FALSE
        BY <3>1
      <4>1. PICK q \in todo[e] : q[2] = v
        BY <2>1, <2>3, <3>5, <3>6, RowParts DEF Rows
      <4>2. q = p
        BY <1>9, <2>1, <2>2, <3>5, <3>6, <4>1
      <4> QED BY <1>9, <4>1, <4>2
    <3>8. w \in H
      BY <3>1, <3>5, <3>6, <3>7, <3>9
    <3> QED BY <3>1, <3>8 DEF WaitsFor
  <2>6. \A s \in H : Plain(s)
    BY <1>6
  <2> HIDE DEF H
  <2> QED BY <2>4, <2>5, <2>6, NoCircle
<1> QED BY <1>2, <1>3, <1>12, <1>13 DEF Calls, EmitFits

-----------------------------------------------------------------------------
(* The theorems.                                                           *)

LEMMA StepKeeps ==
  ASSUME LockInv, [Next]_vars
  PROVE  LockInv'
<1>1. CASE UNCHANGED vars
  <2>1. \A s \in Session : Still(s) /\ table' = table
    BY <1>1 DEF vars, Still
  <2>2. Types' /\ Exclusive' /\ Good(table)'
    BY <1>1 DEF vars, LockInv, Types, Exclusive, Good
  <2>3. \A s \in Session : (Calls(s) /\ Order(s))'
    BY <2>1, Unmoved
  <2> QED BY <2>2, <2>3 DEF LockInv
<1>2. ASSUME NEW s \in Session, Lock(s) \/ End(s) \/ Victim(s)
      PROVE  LockInv'
  BY <1>2, LockKeeps, EndKeeps, RaiseKeeps DEF Victim
<1>3. ASSUME NEW s \in Session, \/ CallOnRun(s) \/ CompleteRun(s) \/ ScheduleRun(s) \/ FailRun(s) \/ DecideRetry(s)
      PROVE  LockInv'
  BY <1>3, CallOnRunKeeps, CompleteRunKeeps, ScheduleRunKeeps, FailRunKeeps, DecideRetryKeeps
<1>4. ASSUME NEW s \in Session, \/ CallCheckpoint(s) \/ InsertEvent(s) \/ LockRunAndTask(s) \/ AwaitEvent(s)
      PROVE  LockInv'
  BY <1>4, CallCheckpointKeeps, InsertEventKeeps, LockRunAndTaskKeeps, AwaitEventKeeps
<1>5. ASSUME NEW s \in Session, CallEmit(s) \/ WakeRuns(s) \/ WakeTasks(s)
      PROVE  LockInv'
  BY <1>5, CallEmitKeeps, WakeRunsKeeps, WakeTasksKeeps
<1>6. ASSUME NEW s \in Session, CallOnTask(s) \/ LockRunsThenTask(s) \/ CancelTask(s) \/ RetryTask(s)
      PROVE  LockInv'
  BY <1>6, CallOnTaskKeeps, LockRunsThenTaskKeeps, CancelTaskKeeps, RetryTaskKeeps
<1>7. ASSUME NEW s \in Session, \/ CallClaim(s) \/ FindOverdue(s) \/ CancelOverdue(s) \/ Sweep(s)
                                \/ FailExpired(s) \/ ClaimTask(s)
      PROVE  LockInv'
  BY <1>7, CallClaimKeeps, FindOverdueKeeps, CancelOverdueKeeps, SweepKeeps, FailExpiredKeeps, ClaimTaskKeeps
<1>8. ASSUME NEW s \in Session, CallCleanupTasks(s) \/ CallCleanupEvents(s)
      PROVE  LockInv'
  BY <1>8, CallCleanupTasksKeeps, CallCleanupEventsKeeps
<1> QED BY <1>1, <1>2, <1>3, <1>4, <1>5, <1>6, <1>7, <1>8 DEF Next

(* What each session has locked and written, and where it stands: rows are *)
(* locked by one session, a task that is written is the writer's own, and  *)
(* what is locked comes after what is held.                                *)
THEOREM LockInvariant == Spec => []LockInv
<1>1. Init => LockInv
  BY Beginning
<1>2. LockInv /\ [Next]_vars => LockInv'
  BY StepKeeps
<1> QED BY <1>1, <1>2, PTL DEF Spec

(* Calls wait in a circle only where a cleanup, a cancellation that finds  *)
(* an attempt made since it began, or a claim and an emission take part:   *)
(* the order of locks of src/sql/absurd.sql:1686, for any number of        *)
(* sessions, tasks and attempts.                                           *)
THEOREM LockOrderKept == Spec => []LockOrder
<1>1. LockInv => LockOrder
  BY OrderOfLocks
<1> QED BY <1>1, LockInvariant, PTL

=================================================================================
