------------------------------- MODULE RowLocks -------------------------------
(***************************************************************************)
(* The row locks of the stored functions of src/sql/absurd.sql.  A call is *)
(* one transaction of PostgreSQL (READ COMMITTED): its statements lock     *)
(* rows one after the other, wait where another transaction holds a row,   *)
(* and release everything when the call returns or raises.  The rows keep  *)
(* as much of their state as decides which rows the next statement locks.  *)
(* Which tasks are overdue, which leases and timeouts have passed and what *)
(* a LIMIT leaves out is any choice.  spawn_task only inserts new rows and *)
(* is left out; so are the keys, which CleanupRace models.                 *)
(***************************************************************************)
EXTENDS Naturals

CONSTANTS
    Session,    \* database sessions, each making one call
    Tasks,      \* tasks, numbered as their ids sort
    MaxRuns,    \* attempts of a task
    FirstRun    \* for each task, the states its first run may be in at the start

Task == 1..Tasks
Run == Task \X (1..MaxRuns)

Active == {"pending", "running", "sleeping"}

ASSUME LockAssumption ==
    /\ Tasks \in Nat
    /\ MaxRuns \in Nat \ {0}
    /\ FirstRun \in [Task -> SUBSET (Active \cup {"failed", "ended"})]

(* The rows of r_, t_, w_ and c_ (one step each), and the row of one event *)
R(r) == <<"r", r[1], r[2]>>
T(t) == <<"t", t, 0>>
W(r) == <<"w", r[1], r[2]>>
C(t) == <<"c", t, 0>>
E == <<"e", 0, 0>>
EShare == <<"e_share", 0, 0>>      \* E, locked in share mode
EInsert == <<"e_insert", 0, 0>>      \* E, waited for and not locked

Row == {R(r) : r \in Run} \cup {T(t) : t \in Task} \cup {W(r) : r \in Run}
          \cup {C(t) : t \in Task} \cup {E}

VARIABLES
    table,      \* the committed rows; "none" where there is no row
    by,         \* the function each session has called, "idle" or "done"
    call,       \* the function it executes, that one or one called from it, and on
                \* what: a run, <<t, 0>> for a task, <<0, 0>> for neither
    at,         \* the statement it has reached in it
    loop,       \* in claim_task: the tasks still to cancel, then the runs still to fail
    todo,       \* the rows its statements lock, each with its place in the order
    held,       \* the rows it has locked
    draft       \* what it has written and not committed, "unwritten" elsewhere

vars == <<table, by, call, at, loop, todo, held, draft>>

-----------------------------------------------------------------------------
(* Transactions *)

TaskOf(state) == IF state \in Active THEN "active" ELSE state

Nothing == [x \in Row |-> "unwritten"]

\* Every task has one run, in one of the states allowed; a run that
\* sleeps may have a wait, and the event may have its sentinel.
Init ==
    /\ \E first \in [Task -> Active \cup {"failed", "ended"}],
          waits \in SUBSET Task, e \in {"none", "sentinel"} :
       /\ \A t \in Task : first[t] \in FirstRun[t]
       /\ table = [x \in Row |->
              CASE x[1] = "e" -> e
                [] x[1] = "c" -> "row"
                [] x[1] = "t" -> TaskOf(first[x[2]])
                [] x[1] = "r" -> IF x[3] = 1 THEN first[x[2]] ELSE "none"
                [] x[1] = "w" -> IF x[3] = 1 /\ x[2] \in waits /\ first[x[2]] = "sleeping"
                                 THEN "row" ELSE "none"]
    /\ by = [s \in Session |-> "idle"]
    /\ call = [s \in Session |-> [op |-> "idle", of |-> <<0, 0>>]]
    /\ at = [s \in Session |-> "start"]
    /\ loop = [s \in Session |-> {}]
    /\ todo = [s \in Session |-> {}]
    /\ held = [s \in Session |-> {}]
    /\ draft = [s \in Session |-> Nothing]

\* What a statement of s reads: its own writes, else what is committed
Sees(s, x) == IF draft[s][x] = "unwritten" THEN table[x] ELSE draft[s][x]

Conflict(x, y) == \/ x = y /\ x # EShare
                  \/ x = E /\ y = EShare
                  \/ x \in {EShare, EInsert} /\ y = E

\* The rows s asks for: among those it does not have, the first in order
Missing(s) == {p \in todo[s] : p[2] \notin held[s]}
Asks(s) == {p[2] : p \in {q \in Missing(s) : \A o \in Missing(s) : q[1] <= o[1]}}

WaitsFor(s, u) ==
    /\ s # u
    /\ \E x \in Asks(s), y \in held[u] : Conflict(x, y)

Free(s, x) == \A u \in Session \ {s} : \A y \in held[u] : ~Conflict(x, y)

\* The sets of sessions in which everyone waits for another one of the set
CircularWaits ==
    LET waiting == {s \in Session : \E u \in Session : WaitsFor(s, u)} IN
    {G \in (SUBSET waiting) \ {{}} : \A s \in G : \E u \in G : WaitsFor(s, u)}

\* The statement of s locks one more row; one that was deleted while it
\* waited counts as locked too
Lock(s) ==
    /\ \E x \in Asks(s) \ {EInsert} :
          /\ Free(s, x)
          /\ held' = [held EXCEPT ![s] = @ \cup {x}]
    /\ UNCHANGED <<table, by, call, at, loop, todo, draft>>

Leave(s) ==
    /\ by' = [by EXCEPT ![s] = "done"]
    /\ call' = [call EXCEPT ![s] = [op |-> "done", of |-> <<0, 0>>]]
    /\ at' = [at EXCEPT ![s] = "start"]
    /\ loop' = [loop EXCEPT ![s] = {}]
    /\ todo' = [todo EXCEPT ![s] = {}]
    /\ held' = [held EXCEPT ![s] = {}]
    /\ draft' = [draft EXCEPT ![s] = Nothing]

Raise(s) == Leave(s) /\ UNCHANGED table

\* s ends, and what it wrote is committed.  The update of a task that was
\* deleted while s waited for it changes no row.
Commit(s) ==
    /\ Leave(s)
    /\ table' = [x \in Row |-> IF x[1] = "t" /\ table[x] = "none" THEN "none" ELSE Sees(s, x)]

\* The current function returns, to claim_task or to the caller
Return(s) ==
    IF call[s].op = by[s]
    THEN Commit(s)
    ELSE /\ call' = [call EXCEPT ![s] = [op |-> "claim_task", of |-> <<0, 0>>]]
         /\ at' = [at EXCEPT ![s] = IF call[s].op = "cancel_task" THEN "cancel" ELSE "fail"]
         /\ todo' = [todo EXCEPT ![s] = {}]
         /\ UNCHANGED <<table, by, loop, held, draft>>

\* PostgreSQL ends one transaction of a circular wait
Victim(s) == s \in UNION CircularWaits /\ Raise(s)

\* Rows locked at one place of the order
Nth(k, rows) == {<<k, x>> : x \in rows}

Write(d, rows, v) == [x \in Row |-> IF x \in rows THEN v ELSE d[x]]

\* s calls a function: where it begins, and what its first statement locks
\* and writes
Begin(s, f, x, label, rows, writes) ==
    /\ by[s] = "idle"
    /\ by' = [by EXCEPT ![s] = f]
    /\ call' = [call EXCEPT ![s] = [op |-> f, of |-> x]]
    /\ at' = [at EXCEPT ![s] = label]
    /\ todo' = [todo EXCEPT ![s] = rows]
    /\ draft' = [draft EXCEPT ![s] = writes]
    /\ UNCHANGED <<table, loop, held>>

\* s has all rows of the statement it was at, and is in f
In(s, f, label) == call[s].op = f /\ at[s] = label /\ Asks(s) = {}

Of(s) == call[s].of

\* The next statements of s: what they lock, and what is written then
Then(s, label, rows, writes) ==
    /\ at' = [at EXCEPT ![s] = label]
    /\ todo' = [todo EXCEPT ![s] = rows]
    /\ draft' = [draft EXCEPT ![s] = writes]
    /\ UNCHANGED <<table, by, call, loop, held>>

Present(s, rows) == {x \in rows : Sees(s, x) # "none"}

End(s) ==
    /\ by[s] \notin {"idle", "done"}
    /\ at[s] = "end" /\ Asks(s) = {}
    /\ Return(s)

-----------------------------------------------------------------------------
(* Calls about one run, by the worker that has claimed it, possibly late *)

Claimed == {r \in Run : table[R(r)] \notin {"none", "pending"}}

\* schedule_run locks nothing and raises unless it finds the run running
CallOnRun(s) ==
    \E r \in Claimed :
       \/ \E f \in {"complete_run", "fail_run"} :
             Begin(s, f, r, "start", Nth(1, {R(r)}), Nothing)
       \/ /\ table[R(r)] = "running"
          /\ Begin(s, "schedule_run", r, "start", Nth(1, {R(r)}), Nothing)
       \/ Begin(s, "extend_claim", r, "end", Nth(1, {R(r)}) \cup Nth(2, {T(r[1])}), Nothing)
       \/ Begin(s, "await_event", r, "start", Nth(1, {EInsert}), Nothing)

\* Refused for a failed run and a cancelled task; the lease is extended
\* first, if that is asked for and the run executes
CallCheckpoint(s) ==
    \E r \in Claimed : \E lease \in SUBSET {R(r)} :
       /\ table[R(r)] # "failed" /\ table[T(r[1])] # "none"
       /\ lease # {} => table[R(r)] = "running"
       /\ Begin(s, "set_task_checkpoint_state", r, "end",
                Nth(1, lease) \cup Nth(2, {C(r[1])}), Nothing)

CompleteRun(s) ==
    /\ In(s, "complete_run", "start")
    /\ LET r == Of(s) IN
       IF Sees(s, R(r)) # "running" THEN Raise(s)
       ELSE Then(s, "end", Nth(1, {T(r[1])}) \cup Nth(2, Present(s, {W(r)})),
                 Write(Write(draft[s], {R(r), T(r[1])}, "ended"), {W(r)}, "none"))

ScheduleRun(s) ==
    /\ In(s, "schedule_run", "start")
    /\ LET r == Of(s) IN
       IF Sees(s, R(r)) # "running" THEN Raise(s)
       ELSE Then(s, "end", Nth(1, {T(r[1])}), Write(draft[s], {R(r)}, "sleeping"))

FailRun(s) ==
    /\ In(s, "fail_run", "start")
    /\ LET r == Of(s) IN
       IF Sees(s, R(r)) \notin {"running", "sleeping"} THEN Raise(s)
       ELSE Then(s, "task_locked", Nth(1, {T(r[1])}), draft[s])

\* A further attempt, or the end: out of attempts, or past max_duration
DecideRetry(s) ==
    /\ In(s, "fail_run", "task_locked")
    /\ LET r == Of(s)
           next == <<r[1], r[2] + 1>>
           failed == Write(Write(draft[s], {R(r)}, "failed"), {W(r)}, "none")
           waits == Nth(1, Present(s, {W(r)})) IN
       \/ \E state \in {"pending", "sleeping"} :
             /\ r[2] < MaxRuns
             /\ Then(s, "end", waits, Write(failed, {R(next)}, state))
       \/ \E state \in {"failed", "ended"} :
             Then(s, "end", waits, Write(failed, {T(r[1])}, state))

\* insert ... on conflict do nothing waits for another's uncommitted write
\* of that row; then FOR SHARE
InsertEvent(s) ==
    /\ call[s].op = "await_event" /\ at[s] = "start"
    /\ Free(s, EInsert)
    /\ IF Sees(s, E) # "none"
       THEN Then(s, "event_locked", Nth(1, {EShare}), draft[s])
       ELSE /\ held' = [held EXCEPT ![s] = @ \cup {E}]
            /\ draft' = [draft EXCEPT ![s] = Write(@, {E}, "sentinel")]
            /\ at' = [at EXCEPT ![s] = "event_locked"]
            /\ todo' = [todo EXCEPT ![s] = {}]
            /\ UNCHANGED <<table, by, call, loop>>

LockRunAndTask(s) ==
    /\ In(s, "await_event", "event_locked")
    /\ Then(s, "run_locked", Nth(1, {R(Of(s))}) \cup Nth(2, {T(Of(s)[1])}), draft[s])

\* An emitted event is stored as checkpoint; a wait that timed out returns;
\* else the run sleeps
AwaitEvent(s) ==
    /\ In(s, "await_event", "run_locked")
    /\ LET r == Of(s) IN
       IF Sees(s, R(r)) # "running" THEN Raise(s)
       ELSE \/ /\ Sees(s, E) = "emitted"
               /\ Then(s, "end", Nth(1, {C(r[1])}), draft[s])
            \/ /\ Sees(s, E) # "emitted"
               /\ Return(s)
            \/ /\ Sees(s, E) # "emitted"
               /\ Then(s, "end", Nth(1, Present(s, {W(r)})),
                       Write(Write(draft[s], {R(r)}, "sleeping"), {W(r)}, "row"))

-----------------------------------------------------------------------------
(* emit_event *)

CallEmit(s) == Begin(s, "emit_event", <<0, 0>>, "start", Nth(1, {E}), Nothing)

\* Waits past their timeout go, and the runs that sleep in the others are
\* updated, in any order; nothing happens if the event had been emitted
WakeRuns(s) ==
    /\ In(s, "emit_event", "start")
    /\ IF Sees(s, E) = "emitted" THEN Return(s)
       ELSE \E expired \in SUBSET {r \in Run : Sees(s, W(r)) = "row"} :
              LET woken == {r \in Run \ expired : /\ Sees(s, W(r)) = "row"
                                                  /\ Sees(s, R(r)) = "sleeping"}
                  gone == {W(r) : r \in expired} IN
              Then(s, "runs_locked", Nth(1, {R(r) : r \in woken} \cup gone),
                   Write(Write(draft[s], gone, "none"), {E}, "emitted"))

\* The runs it found still asleep, and their tasks, checkpoints and waits
WakeTasks(s) ==
    /\ In(s, "emit_event", "runs_locked")
    /\ LET woken == {r \in Run : R(r) \in held[s] /\ Sees(s, R(r)) = "sleeping"}
           waits == {W(r) : r \in woken} IN
       Then(s, "end",
            Nth(1, {T(r[1]) : r \in woken} \cup {C(r[1]) : r \in woken} \cup Present(s, waits)),
            Write(Write(draft[s], {R(r) : r \in woken}, "pending"), waits, "none"))

-----------------------------------------------------------------------------
(* Calls about one task *)

CallOnTask(s) ==
    \E t \in Task :
       \/ Begin(s, "cancel_task", <<t, 0>>, "start", {}, Nothing)
       \/ Begin(s, "retry_task", <<t, 0>>, "start", Nth(1, {T(t)}), Nothing)

RunsOf(s, t) == {r \in Run : r[1] = t /\ Sees(s, R(r)) \in Active}

\* A mistake: the task before its runs, as before src/CHANGELOG.md:58
LockTaskThenRuns(s) ==
    /\ In(s, "cancel_task", "start")
    /\ Then(s, "task_locked",
            Nth(0, {T(Of(s)[1])}) \cup {<<r[2], R(r)>> : r \in RunsOf(s, Of(s)[1])}, draft[s])

\* Active runs first, as seen when the call begins, then the task
LockRunsThenTask(s) ==
    /\ In(s, "cancel_task", "start")
    /\ Then(s, "task_locked",
            {<<r[2], R(r)>> : r \in RunsOf(s, Of(s)[1])} \cup Nth(MaxRuns + 1, {T(Of(s)[1])}),
            draft[s])

\* The second look at the runs also finds an attempt made in between
CancelTask(s) ==
    /\ In(s, "cancel_task", "task_locked")
    /\ LET t == Of(s)[1]
           runs == {R(r) : r \in RunsOf(s, t)}
           waits == Present(s, {W(r) : r \in {q \in Run : q[1] = t}}) IN
       CASE Sees(s, T(t)) = "none" -> Raise(s)
         [] Sees(s, T(t)) \in {"failed", "ended"} -> Return(s)
         [] OTHER -> Then(s, "end", Nth(1, runs) \cup Nth(2, waits),
                          Write(Write(draft[s], runs \cup {T(t)}, "ended"), waits, "none"))

\* Refused for a task that has not failed, or without an attempt left
RetryTask(s) ==
    /\ In(s, "retry_task", "start")
    /\ LET t == Of(s)[1] IN
       \/ Raise(s)
       \/ /\ Sees(s, T(t)) = "failed"
          /\ \E next \in {r \in Run : r[1] = t} :
                /\ \A r \in Run : r[1] = t => (Sees(s, R(r)) = "none" <=> r[2] >= next[2])
                /\ Then(s, "end", {},
                        Write(Write(draft[s], {R(next)}, "pending"), {T(t)}, "active"))

-----------------------------------------------------------------------------
(* claim_task, the cleanups *)

CallClaim(s) == Begin(s, "claim_task", <<0, 0>>, "start", {}, Nothing)

\* claim_task calls f on x, which leaves rest
Perform(s, f, x, rest) ==
    /\ call' = [call EXCEPT ![s] = [op |-> f, of |-> x]]
    /\ at' = [at EXCEPT ![s] = "start"]
    /\ loop' = [loop EXCEPT ![s] = rest]
    /\ UNCHANGED <<table, by, todo, held, draft>>

FindOverdue(s) ==
    /\ In(s, "claim_task", "start")
    /\ \E overdue \in SUBSET {t \in Task : Sees(s, T(t)) = "active"} :
          loop' = [loop EXCEPT ![s] = {<<t, 0>> : t \in overdue}]
    /\ at' = [at EXCEPT ![s] = "cancel"]
    /\ UNCHANGED <<table, by, call, todo, held, draft>>

\* The overdue tasks are cancelled in the order of their ids
CancelOverdue(s) ==
    /\ In(s, "claim_task", "cancel")
    /\ \E t \in loop[s] :
          /\ \A u \in loop[s] : t[1] <= u[1]
          /\ Perform(s, "cancel_task", t, loop[s] \ {t})

\* Expired runs, without those that another session has locked
Sweep(s) ==
    /\ In(s, "claim_task", "cancel") /\ loop[s] = {}
    /\ \E expired \in SUBSET {r \in Run : Sees(s, R(r)) = "running" /\ Free(s, R(r))} :
          /\ held' = [held EXCEPT ![s] = @ \cup {R(r) : r \in expired}]
          /\ loop' = [loop EXCEPT ![s] = expired]
    /\ at' = [at EXCEPT ![s] = "fail"]
    /\ UNCHANGED <<table, by, call, todo, draft>>

\* Each of them fails, in any order
FailExpired(s) ==
    /\ In(s, "claim_task", "fail")
    /\ \E r \in loop[s] : Perform(s, "fail_run", r, loop[s] \ {r})

\* Due runs that are not locked; the lock of a run is kept where that of its
\* task is not to be had
ClaimTask(s) ==
    /\ In(s, "claim_task", "fail") /\ loop[s] = {}
    /\ \E due \in SUBSET {r \in Run : /\ Sees(s, R(r)) \in {"pending", "sleeping"}
                                      /\ Sees(s, T(r[1])) = "active"
                                      /\ Free(s, R(r))} :
         LET claimed == {r \in due : Free(s, T(r[1]))}
             waits == {W(r) : r \in claimed} IN
         /\ held' = [held EXCEPT ![s] = @ \cup {R(r) : r \in due} \cup {T(r[1]) : r \in claimed}]
         /\ todo' = [todo EXCEPT ![s] = Nth(1, Present(s, waits))]
         /\ draft' = [draft EXCEPT ![s] =
               Write(Write(@, {R(r) : r \in claimed}, "running"), waits, "none")]
    /\ at' = [at EXCEPT ![s] = "end"]
    /\ UNCHANGED <<table, by, call, loop>>

\* Ended tasks are chosen when the statement begins, and deleted with their
\* rows in any order
CallCleanupTasks(s) ==
    \E old \in SUBSET {t \in Task : table[T(t)] \in {"failed", "ended"}} :
       LET rows == {x \in Row : x[2] \in old /\ table[x] # "none"} IN
       Begin(s, "cleanup_tasks", <<0, 0>>, "end", Nth(1, rows), Write(Nothing, rows, "none"))

CallCleanupEvents(s) ==
    /\ table[E] # "none"
    /\ Begin(s, "cleanup_events", <<0, 0>>, "end", Nth(1, {E}), Write(Nothing, {E}, "none"))

Next == \E s \in Session :
    \/ Lock(s) \/ End(s) \/ Victim(s)
    \/ CallOnRun(s) \/ CompleteRun(s) \/ ScheduleRun(s) \/ FailRun(s) \/ DecideRetry(s)
    \/ CallCheckpoint(s) \/ InsertEvent(s) \/ LockRunAndTask(s) \/ AwaitEvent(s)
    \/ CallEmit(s) \/ WakeRuns(s) \/ WakeTasks(s)
    \/ CallOnTask(s) \/ LockRunsThenTask(s) \/ CancelTask(s) \/ RetryTask(s)
    \/ CallClaim(s) \/ FindOverdue(s) \/ CancelOverdue(s) \/ Sweep(s)
    \/ FailExpired(s) \/ ClaimTask(s)
    \/ CallCleanupTasks(s) \/ CallCleanupEvents(s)

Spec == Init /\ [][Next]_vars

-----------------------------------------------------------------------------
(* Properties *)

\* cancel_task at its second look at the runs: it has the task, and waits for
\* a run that was not there at the first
LateCancel(s) ==
    /\ call[s].op = "cancel_task" /\ at[s] = "end"
    /\ \E r \in Run : R(r) \in Asks(s)

\* complete_run, fail_run, schedule_run, extend_claim, await_event, emit_event,
\* checkpoints and retries, and cancel_task while it locks the runs it has
\* found, never wait for each other in a circle: event before runs before
\* task before waits and checkpoints (src/sql/absurd.sql:1686, 1922).  What
\* remains are cleanup_tasks, which deletes in no order; the runs of several
\* tasks, which claim_task cancels in the order of the tasks and emit_event
\* wakes in the order it finds them; and a cancel_task that meets an attempt
\* made since it began.
LockOrder ==
    \A G \in CircularWaits : \E s \in G :
        \/ by[s] = "cleanup_tasks"
        \/ LateCancel(s)
        \/ (by[s] = "claim_task" /\ \E u \in G : by[u] = "emit_event")

\* What src/CHANGELOG.md:58 says: cancel_task, complete_run and fail_run do
\* not deadlock.  It is not so when fail_run makes a further attempt while
\* cancel_task waits for the failed one, and the worker that claims that
\* attempt locks its run before cancel_task, which then has the task, does.
CancelNeverDeadlocks ==
    \A G \in CircularWaits : \E s \in G :
        by[s] \notin {"cancel_task", "complete_run", "fail_run"}
=============================================================================
