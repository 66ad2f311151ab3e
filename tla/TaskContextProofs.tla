-------------------------- MODULE TaskContextProofs --------------------------
(***************************************************************************)
(* Replay from checkpoints, for any handlers, tasks, faults and bounds.    *)
(* The p-th call of a handler has the same checkpoint name in every        *)
(* attempt (NameAt) and no other call has it; what is stored under a name  *)
(* never changes; and only the current attempt stores anything.  So every  *)
(* value that a call ever returned is the one that is stored.              *)
(***************************************************************************)
EXTENDS TaskContext, FiniteSetTheorems, SequenceTheorems, WellFoundedInduction, TLAPS

(* The n-th call that a handler of kind k makes, and its checkpoint name.  *)
CallOn(k, n) == LET calls == Handler[k] IN IF n <= Len(calls) THEN calls[n] ELSE calls[Len(calls)]
CountAt(k, p) == Cardinality({i \in 1 .. (p - 1) : CallOn(k, i).name = CallOn(k, p).name}) + 1
NameAt(k, p) == IF CountAt(k, p) = 1 THEN CallOn(k, p).name ELSE Append(CallOn(k, p).name, CountAt(k, p))
Positive == Nat \ {0}

Fields == {"mode", "pc", "called", "cache", "wake", "value"}
Begun == {"body", "persist", "sleep", "await"}
Computing == {"body", "persist"}

-----------------------------------------------------------------------------
(* The parts of the inductive invariant.                                   *)

Domains ==
  /\ DOMAIN task = TaskId /\ DOMAIN ckpt = TaskId /\ DOMAIN event = Event
  /\ DOMAIN exec = TaskId /\ DOMAIN returned = TaskId /\ DOMAIN ran = TaskId
  /\ \A t \in TaskId : DOMAIN exec[t] = Attempt
  /\ faults \in Nat

(* A row of a task, or of none that was spawned.                           *)
RowOK(t) ==
  LET row == task[t]
  IN /\ DOMAIN row = {"kind", "attempt", "state", "due", "wake", "wait"}
     /\ row.kind \in Kind \union {None}
     /\ row.state \in {"absent", "pending", "running", "sleeping"} \union Ended
     /\ row.due \in {"now", "later", "never"} /\ row.wake \in Event \union {None}
     /\ row.kind \in Kind => row.state # "absent" /\ row.attempt \in 1 .. MaxAttempts[row.kind]
     /\ row.kind = None => row.state = "absent" /\ row.attempt = 0 /\ row.wait = NoName

(* A wait is registered under the name of a call that waits for its event. *)
WaitOK(t) ==
  LET row == task[t]
  IN row.wait # NoName =>
       /\ row.state = "sleeping" /\ row.wake \in Event /\ Handler[row.kind] # <<>>
       /\ \E p \in Positive : /\ row.wait = NameAt(row.kind, p)
                              /\ CallOn(row.kind, p).do = "await"
                              /\ CallOn(row.kind, p).arg = row.wake

CurrentOK(t) == task[t].kind \in Kind /\ Live(t, task[t].attempt) => task[t].state \in {"running", "failed", "cancelled"}

(* The call that an execution is at is the one its position says.          *)
Placed(k, x) ==
  LET n == Len(Handler[k])
      p == IF x.mode \in Begun THEN Len(x.called) ELSE Len(x.called) + 1
  IN /\ x.mode \in Begun => x.pc <= n /\ p >= 1
     /\ x.pc <= n => x.pc = p \/ (x.pc = n /\ p >= n)

ExecOK(t, a) ==
  LET x == exec[t][a]
      k == task[t].kind
  IN /\ x.mode \in {"idle", "create", "run", "body", "persist", "sleep", "await", "fail"}
     /\ x.mode # "idle" =>
          /\ k \in Kind /\ a <= task[t].attempt
          /\ DOMAIN x = Fields /\ x.pc \in Positive
          /\ x.called \in Seq(Seq(STRING))
          /\ \A i \in 1 .. Len(x.called) : x.called[i] = CallOn(k, i).name
          /\ x.called # <<>> => Handler[k] # <<>>
          /\ x.mode # "fail" => Placed(k, x)
          /\ x.mode = "create" => DOMAIN x.cache = {}
          /\ x.mode = "await" => Handler[k][x.pc].do = "await"
          /\ x.mode \in {"body", "persist", "sleep"} => Handler[k][x.pc].do # "await"

CurrentNameOf(t, a) == NameAt(task[t].kind, Len(exec[t][a].called))

(* What an execution caches is stored; and the function of a step is only  *)
(* run for a name that is not, or was stored by a later attempt meanwhile. *)
CacheOK(t, a) ==
  LET x == exec[t][a]
      n == CurrentNameOf(t, a)
  IN x.mode # "idle" =>
       /\ \A m \in DOMAIN x.cache : m \in DOMAIN ckpt[t] /\ x.cache[m] = ckpt[t][m].value
       /\ x.mode \in Computing /\ n \in DOMAIN ckpt[t] => ckpt[t][n].owner > a
       /\ x.mode = "persist" => x.value.call = Position(x)
       /\ x.mode = "sleep" => n \in DOMAIN ckpt[t] /\ x.value = ckpt[t][n].value

(* The execution that runs knows the event whose timeout resumed its run,  *)
(* or has gone on from it.                                                 *)
WakeOK(t, a) ==
  LET x == exec[t][a]
      calls == Handler[task[t].kind]
  IN x.mode \notin {"idle", "fail"} /\ a = task[t].attempt /\ task[t].state = "running" =>
       \/ x.wake = task[t].wake /\ (x.mode = "await" => x.wake # calls[x.pc].arg)
       \/ x.pc > Len(calls)
       \/ \E i \in 1 .. (x.pc - 1) :
            "continues" \in calls[i].opts /\ calls[i].do = "await" /\ calls[i].arg = task[t].wake

(* A stored value is that of one call: the payload of its event, or what   *)
(* this very call computed.                                                *)
Holds(k, p, v) ==
  /\ v # NoValue
  /\ IF CallOn(k, p).do = "await" THEN v = event[CallOn(k, p).arg] ELSE v.call = p
StoreOK(t) ==
  \A n \in DOMAIN ckpt[t] :
    /\ task[t].kind \in Kind /\ Handler[task[t].kind] # <<>>
    /\ ckpt[t][n].owner \in Nat /\ ckpt[t][n].owner <= task[t].attempt
    /\ \E p \in Positive : n = NameAt(task[t].kind, p) /\ Holds(task[t].kind, p, ckpt[t][n].value)

ReturnedFrom(t, r) ==
  /\ task[t].kind \in Kind
  /\ r[1] \in Positive /\ NameAt(task[t].kind, r[1]) \in DOMAIN ckpt[t]
  /\ r[2] = ckpt[t][NameAt(task[t].kind, r[1])].value
ReturnedOK(t) == \A r \in returned[t] : ReturnedFrom(t, r)

RanIn(t, r) ==
  /\ task[t].kind \in Kind
  /\ r[2] \in Nat /\ r[2] <= task[t].attempt
  /\ r[1] \in DOMAIN ckpt[t] => r[2] <= ckpt[t][r[1]].owner
RanOK(t) == \A r \in ran[t] : RanIn(t, r)

EventOK == \A e \in Event : event[e] # NoValue => event[e].event = e

ReplayInv ==
  /\ Domains /\ EventOK
  /\ \A t \in TaskId : /\ RowOK(t) /\ WaitOK(t) /\ CurrentOK(t) /\ StoreOK(t) /\ ReturnedOK(t) /\ RanOK(t)
                       /\ \A a \in Attempt : ExecOK(t, a) /\ CacheOK(t, a) /\ WakeOK(t, a)

-----------------------------------------------------------------------------
(* Handlers and the names of their calls.                                  *)

(* A call of a handler is a record of calls' shape, where it is used as    *)
(* the code expects.                                                       *)
LEMMA HandlerCalls ==
  ASSUME NEW k \in Kind
  PROVE  /\ Len(Handler[k]) \in Nat
         /\ DOMAIN Handler[k] = 1 .. Len(Handler[k])
         /\ Handler[k] # <<>> => Len(Handler[k]) >= 1
         /\ \A i \in 1 .. Len(Handler[k]) :
              /\ Handler[k][i] \in CallShape
              /\ Handler[k][i].name \in Seq(STRING)
<1>1. Handler[k] \in Seq(CallShape)
  BY HandlerAssumption
<1>2. \A i \in 1 .. Len(Handler[k]) : Handler[k][i] \in CallShape
  BY <1>1, ElementOfSeq
<1>3. \A c \in CallShape : c.name \in Seq(STRING)
  BY DEF CallShape
<1>4. Len(Handler[k]) \in Nat /\ DOMAIN Handler[k] = 1 .. Len(Handler[k])
  BY <1>1, LenProperties
<1>5. Handler[k] # <<>> => Len(Handler[k]) >= 1
  BY <1>1, <1>4, EmptySeq
<1> QED BY <1>2, <1>3, <1>4, <1>5

(* The call that is the p-th to be made is one of the handler's calls.     *)
LEMMA CallOnIsCall ==
  ASSUME NEW k \in Kind, Handler[k] # <<>>, NEW p \in Positive
  PROVE  /\ \E i \in DOMAIN Handler[k] : CallOn(k, p) = Handler[k][i]
         /\ CallOn(k, p).name \in Seq(STRING)
         /\ CallOn(k, p).do = "await" => CallOn(k, p).arg \in Event
<1>1. PICK i \in 1 .. Len(Handler[k]) : CallOn(k, p) = Handler[k][i]
  <2>1. Len(Handler[k]) \in Nat /\ Len(Handler[k]) >= 1 /\ p \in Nat /\ p >= 1
    BY HandlerCalls DEF Positive
  <2>2. CASE p <= Len(Handler[k])
    BY <2>1, <2>2 DEF CallOn
  <2>3. CASE ~(p <= Len(Handler[k]))
    BY <2>1, <2>3 DEF CallOn
  <2> QED BY <2>2, <2>3
<1> QED BY <1>1, HandlerCalls, HandlerAssumption

(* A count of names is positive.                                           *)
LEMMA CountType ==
  ASSUME NEW k, NEW p \in Positive
  PROVE  CountAt(k, p) \in Positive
<1> DEFINE S == {i \in 1 .. (p - 1) : CallOn(k, i).name = CallOn(k, p).name}
<1>1. IsFiniteSet(S)
  <2>1. IsFiniteSet(1 .. (p - 1))
    BY FS_Interval DEF Positive
  <2> QED BY <2>1, FS_Subset, S \subseteq 1 .. (p - 1)
<1>2. Cardinality(S) \in Nat
  BY <1>1, FS_CardinalityType
<1> QED BY <1>2 DEF CountAt, Positive

(* The second call of a name has a larger count than the first.            *)
LEMMA CountGrows ==
  ASSUME NEW k, NEW p \in Positive, NEW q \in Positive, p < q,
         CallOn(k, p).name = CallOn(k, q).name
  PROVE  CountAt(k, p) < CountAt(k, q)
<1> DEFINE S == {i \in 1 .. (p - 1) : CallOn(k, i).name = CallOn(k, p).name}
           T == {i \in 1 .. (q - 1) : CallOn(k, i).name = CallOn(k, q).name}
<1>1. IsFiniteSet(S) /\ IsFiniteSet(T)
  <2>1. IsFiniteSet(1 .. (p - 1)) /\ IsFiniteSet(1 .. (q - 1))
    BY SMTT(60), FS_Interval DEF Positive
  <2> QED BY <2>1, FS_Subset, S \subseteq 1 .. (p - 1), T \subseteq 1 .. (q - 1)
<1>2. S \subseteq T /\ p \in T /\ p \notin S
  BY DEF Positive
<1>3. Cardinality(S) <= Cardinality(T) /\ (Cardinality(S) = Cardinality(T) => S = T)
  BY <1>1, <1>2, FS_Subset
<1>4. Cardinality(S) \in Nat /\ Cardinality(T) \in Nat
  BY <1>1, FS_CardinalityType
<1>5. Cardinality(S) < Cardinality(T)
  BY <1>2, <1>3, <1>4
<1> QED BY <1>4, <1>5 DEF CountAt

(* A name that is another with a number would be its front.                *)
LEMMA NumberedFront ==
  ASSUME NEW s \in Seq(STRING), NEW c, NEW u \in Seq(STRING), u = Append(s, c)
  PROVE  SubSeq(u, 1, Len(u) - 1) = s
<1>1. Len(s) \in Nat /\ Len(u) \in Nat
  OBVIOUS
<1>2. Len(u) = Len(s) + 1 /\ \A i \in 1 .. Len(s) : u[i] = s[i]
  OBVIOUS
<1>3. SubSeq(u, 1, Len(u) - 1) = [i \in 1 .. Len(s) |-> u[i]]
  BY <1>1, <1>2
<1>4. s = [i \in 1 .. Len(s) |-> s[i]]
  BY <1>1
<1> QED BY <1>2, <1>3, <1>4
LEMMA NumberedInjective ==
  ASSUME NEW s \in Seq(STRING), NEW u \in Seq(STRING), NEW c, NEW d, Append(s, c) = Append(u, d)
  PROVE  s = u /\ c = d
<1>1. Len(s) \in Nat /\ Len(u) \in Nat
  OBVIOUS
<1>2. DOMAIN Append(s, c) = 1 .. Len(s) + 1 /\ DOMAIN Append(u, d) = 1 .. Len(u) + 1
  BY <1>1
<1>3. Len(s) = Len(u)
  BY <1>1, <1>2
<1>4. \A i \in 1 .. Len(s) : s[i] = Append(s, c)[i] /\ u[i] = Append(u, d)[i]
  BY <1>1, <1>3
<1>5. c = Append(s, c)[Len(s) + 1] /\ d = Append(u, d)[Len(s) + 1]
  BY <1>1, <1>3
<1>6. s = [i \in 1 .. Len(s) |-> s[i]] /\ u = [i \in 1 .. Len(u) |-> u[i]]
  BY <1>1
<1> QED BY <1>3, <1>4, <1>5, <1>6

(* Every call of an execution has a checkpoint name of its own.            *)
LEMMA NameInjective ==
  ASSUME NEW k \in Kind, Handler[k] # <<>>, NEW p \in Positive, NEW q \in Positive,
         NameAt(k, p) = NameAt(k, q)
  PROVE  p = q
<1> DEFINE m == CallOn(k, p).name
           n == CallOn(k, q).name
<1>1. m \in Seq(STRING) /\ n \in Seq(STRING)
  BY CallOnIsCall
<1>2. PICK i \in DOMAIN Handler[k], j \in DOMAIN Handler[k] : m = Handler[k][i].name /\ n = Handler[k][j].name
  BY CallOnIsCall
<1>3. SubSeq(m, 1, Len(m) - 1) # n /\ SubSeq(n, 1, Len(n) - 1) # m
  BY <1>2, HandlerAssumption
<1>4. m = n /\ CountAt(k, p) = CountAt(k, q)
  <2>1. CASE CountAt(k, p) = 1 /\ CountAt(k, q) = 1
    BY <2>1 DEF NameAt
  <2>2. CASE CountAt(k, p) = 1 /\ CountAt(k, q) # 1
    <3>1. m = Append(n, CountAt(k, q))
      BY <2>2 DEF NameAt
    <3> QED BY <3>1, <1>1, <1>3, NumberedFront
  <2>3. CASE CountAt(k, p) # 1 /\ CountAt(k, q) = 1
    <3>1. n = Append(m, CountAt(k, p))
      BY <2>3 DEF NameAt
    <3> QED BY <3>1, <1>1, <1>3, NumberedFront
  <2>4. CASE CountAt(k, p) # 1 /\ CountAt(k, q) # 1
    <3>1. Append(m, CountAt(k, p)) = Append(n, CountAt(k, q))
      BY <2>4 DEF NameAt
    <3> QED BY SMTT(60), <3>1, <1>1, NumberedInjective
  <2> QED BY <2>1, <2>2, <2>3, <2>4
<1>5. CountAt(k, p) \in Nat /\ CountAt(k, q) \in Nat
  BY CountType DEF Positive
<1> QED BY <1>4, <1>5, CountGrows DEF Positive

(* getCheckpointName gives the next call the name of its position.         *)
LEMMA NameOfNext ==
  ASSUME NEW k \in Kind, NEW x, x.called \in Seq(Seq(STRING)),
         \A i \in 1 .. Len(x.called) : x.called[i] = CallOn(k, i).name
  PROVE  CheckpointName(x, CallOn(k, Len(x.called) + 1).name) = NameAt(k, Len(x.called) + 1)
<1> DEFINE p == Len(x.called) + 1
<1>1. Len(x.called) \in Nat /\ DOMAIN x.called = 1 .. Len(x.called)
  OBVIOUS
<1>2. p - 1 = Len(x.called)
  BY <1>1
<1>3. {i \in DOMAIN x.called : x.called[i] = CallOn(k, p).name}
        = {i \in 1 .. (p - 1) : CallOn(k, i).name = CallOn(k, p).name}
  BY <1>1, <1>2
<1> QED BY <1>3 DEF CheckpointName, NameAt, CountAt

(* And the call in progress has the name of its position.                  *)
LEMMA NameOfCurrent ==
  ASSUME NEW k \in Kind, NEW x, DOMAIN x = Fields, x.called \in Seq(Seq(STRING)), Len(x.called) >= 1,
         \A i \in 1 .. Len(x.called) : x.called[i] = CallOn(k, i).name
  PROVE  CurrentName(x) = NameAt(k, Len(x.called))
<1> DEFINE y == [x EXCEPT !.called = SubSeq(@, 1, Len(@) - 1)]
           p == Len(x.called)
<1>1. p \in Nat /\ p >= 1
  OBVIOUS
<1>2. y.called = SubSeq(x.called, 1, p - 1)
  BY DEF Fields
<1> HIDE DEF y
<1>3. y.called \in Seq(Seq(STRING)) /\ Len(y.called) = p - 1
  BY SMTT(60), <1>1, <1>2
<1>4. \A i \in 1 .. (p - 1) : y.called[i] = CallOn(k, i).name
  BY <1>1, <1>2
<1>5. CheckpointName(y, CallOn(k, Len(y.called) + 1).name) = NameAt(k, Len(y.called) + 1)
  BY <1>3, <1>4, NameOfNext
<1>6. Len(y.called) + 1 = p /\ x.called[p] = CallOn(k, p).name
  BY SMTT(120), <1>1, <1>3
<1> QED BY <1>5, <1>6 DEF CurrentName, y

-----------------------------------------------------------------------------
(* What a step leaves to the executions and histories it does not touch.   *)

(* A task keeps its kind, its attempts only go up, and what is stored      *)
(* stays; a new checkpoint is the current attempt's.                       *)
Kept(t) ==
  /\ task[t].kind \in Kind => task'[t].kind = task[t].kind /\ task[t].attempt <= task'[t].attempt
  /\ \A n \in DOMAIN ckpt[t] :
       /\ n \in DOMAIN ckpt'[t] /\ ckpt'[t][n].value = ckpt[t][n].value
       /\ ckpt[t][n].owner <= ckpt'[t][n].owner
  /\ \A n \in DOMAIN ckpt'[t] : n \in DOMAIN ckpt[t] \/ ckpt'[t][n].owner = task[t].attempt

(* An execution that does not act: nothing is stored behind the back of    *)
(* the one that computes, and its row is not made to run.                  *)
Undisturbed(t, a) ==
  LET x == exec[t][a]
  IN /\ exec'[t][a] = x
     /\ a = task[t].attempt /\ x.mode \in Computing => DOMAIN ckpt'[t] = DOMAIN ckpt[t]
     /\ x.mode # "idle" /\ a = task'[t].attempt /\ task'[t].state = "running" =>
          task[t].attempt = a /\ task[t].state = "running" /\ task'[t].wake = task[t].wake

(* The attempt of a task is a number.                                      *)
LEMMA AttemptType ==
  ASSUME NEW t \in TaskId, RowOK(t), task[t].kind \in Kind
  PROVE  task[t].attempt \in Attempt /\ task[t].attempt \in 1 .. MaxAttempts[task[t].kind]
BY ConstantAssumption DEF RowOK, Attempt

(* What an execution computes is not stored by an attempt up to its own.   *)
LEMMA FreshKept ==
  ASSUME NEW t \in TaskId, NEW a \in Attempt, RowOK(t), StoreOK(t), StoreOK(t)',
         ExecOK(t, a), CacheOK(t, a), Kept(t), exec[t][a].mode \in Computing,
         a = task[t].attempt => DOMAIN ckpt'[t] = DOMAIN ckpt[t],
         CurrentNameOf(t, a) \in DOMAIN ckpt'[t]
  PROVE  ckpt'[t][CurrentNameOf(t, a)].owner > a
<1> DEFINE n == CurrentNameOf(t, a)
<1>1. exec[t][a].mode # "idle" /\ task[t].kind \in Kind /\ a <= task[t].attempt
  BY DEF ExecOK, Computing
<1>2. task[t].attempt \in Nat /\ a \in Nat
  BY <1>1, AttemptType DEF Attempt
<1>3. CASE n \in DOMAIN ckpt[t]
  <2>1. ckpt[t][n].owner > a /\ ckpt[t][n].owner <= ckpt'[t][n].owner
    BY <1>1, <1>3 DEF CacheOK, Kept
  <2>2. ckpt[t][n].owner \in Nat /\ ckpt'[t][n].owner \in Nat
    BY <1>3 DEF StoreOK
  <2> QED BY <1>2, <2>1, <2>2
<1>4. CASE n \notin DOMAIN ckpt[t]
  <2>1. ckpt'[t][n].owner = task[t].attempt /\ a # task[t].attempt
    BY <1>4 DEF Kept
  <2> QED BY <1>1, <1>2, <2>1
<1> QED BY <1>3, <1>4

LEMMA OtherExecution ==
  ASSUME NEW t \in TaskId, NEW a \in Attempt, RowOK(t), StoreOK(t), RowOK(t)', StoreOK(t)',
         ExecOK(t, a), CacheOK(t, a), WakeOK(t, a), Kept(t), Undisturbed(t, a)
  PROVE  ExecOK(t, a)' /\ CacheOK(t, a)' /\ WakeOK(t, a)'
<1> DEFINE x == exec[t][a]
<1>1. exec'[t][a] = x
  BY DEF Undisturbed
<1>2. CASE x.mode = "idle"
  BY <1>1, <1>2 DEF ExecOK, CacheOK, WakeOK
<1>3. CASE x.mode # "idle"
  <2>1. task[t].kind \in Kind /\ a <= task[t].attempt
    BY <1>3 DEF ExecOK
  <2>2. /\ task'[t].kind = task[t].kind /\ task[t].attempt <= task'[t].attempt
        /\ task[t].attempt \in Nat /\ task'[t].attempt \in Nat /\ a \in Nat
    <3>1. task[t].attempt \in Nat
      BY <2>1, AttemptType DEF Attempt
    <3>2. task'[t].kind \in Kind /\ task'[t].attempt \in 1 .. MaxAttempts[task'[t].kind]
      BY <2>1 DEF Kept, RowOK
    <3>3. task'[t].attempt \in Nat
      BY <3>2, ConstantAssumption DEF Attempt
    <3> QED BY <2>1, <3>1, <3>3 DEF Kept, Attempt
  <2>3. ExecOK(t, a)'
    BY SMTT(120), <1>1, <2>1, <2>2 DEF ExecOK
  <2>4. CacheOK(t, a)'
    <3> DEFINE n == CurrentNameOf(t, a)
    <3>1. n' = n
      BY <1>1, <2>2 DEF CurrentNameOf
    <3>2. ASSUME NEW m \in DOMAIN x.cache
          PROVE  m \in DOMAIN ckpt'[t] /\ x.cache[m] = ckpt'[t][m].value
      BY <1>3 DEF CacheOK, Kept
    <3>3. ASSUME x.mode \in Computing, n \in DOMAIN ckpt'[t]
          PROVE  ckpt'[t][n].owner > a
      BY <3>3, FreshKept DEF Undisturbed
    <3>4. x.mode = "sleep" => n \in DOMAIN ckpt'[t] /\ x.value = ckpt'[t][n].value
      BY <1>3 DEF CacheOK, Kept
    <3>5. x.mode = "persist" => x.value.call = Position(x)
      BY <1>3 DEF CacheOK
    <3> HIDE DEF n
    <3>6. CurrentNameOf(t, a)' = n
      BY SMTT(60), <3>1 DEF n
    <3> QED BY <1>1, <3>2, <3>3, <3>4, <3>5, <3>6 DEF CacheOK
  <2>5. WakeOK(t, a)'
    BY <1>1, <2>2, <1>3 DEF WakeOK, Undisturbed
  <2> QED BY <2>3, <2>4, <2>5
<1> QED BY <1>2, <1>3

(* What calls returned and what ran stays true of what is stored.          *)
LEMMA HistoryKept ==
  ASSUME NEW t \in TaskId, RowOK(t), StoreOK(t), StoreOK(t)', RowOK(t)', Kept(t)
  PROVE  /\ \A r : ReturnedFrom(t, r) => ReturnedFrom(t, r)'
         /\ \A r : RanIn(t, r) => RanIn(t, r)'
<1>1. ASSUME NEW r, ReturnedFrom(t, r)
      PROVE  ReturnedFrom(t, r)'
  BY <1>1 DEF ReturnedFrom, Kept
<1>2. ASSUME NEW r, RanIn(t, r)
      PROVE  RanIn(t, r)'
  <2>1. task[t].kind \in Kind /\ r[2] \in Nat /\ r[2] <= task[t].attempt
    BY <1>2 DEF RanIn
  <2>2. task'[t].kind = task[t].kind /\ task[t].attempt <= task'[t].attempt
    BY <2>1 DEF Kept
  <2>3. task[t].attempt \in Nat /\ task'[t].attempt \in Nat
    BY <2>1, <2>2, ConstantAssumption DEF RowOK, Attempt
  <2>4. ASSUME r[1] \in DOMAIN ckpt'[t]
        PROVE  r[2] <= ckpt'[t][r[1]].owner
    <3>1. CASE r[1] \in DOMAIN ckpt[t]
      <4>1. r[2] <= ckpt[t][r[1]].owner /\ ckpt[t][r[1]].owner <= ckpt'[t][r[1]].owner
        BY <1>2, <3>1 DEF RanIn, Kept
      <4>2. ckpt[t][r[1]].owner \in Nat /\ ckpt'[t][r[1]].owner \in Nat
        BY <2>4, <3>1 DEF StoreOK
      <4> QED BY <4>1, <4>2, <2>1
    <3>2. CASE r[1] \notin DOMAIN ckpt[t]
      BY <2>1, <2>4, <3>2 DEF Kept
    <3> QED BY <3>1, <3>2
  <2> QED BY <2>1, <2>2, <2>3, <2>4 DEF RanIn
<1> QED BY <1>1, <1>2

-----------------------------------------------------------------------------
(* What the stored functions do to the tables.                             *)

(* The invariant of the tables, and its next-state form with what is kept. *)
TablesOK ==
  /\ DOMAIN task = TaskId /\ DOMAIN ckpt = TaskId /\ DOMAIN event = Event /\ EventOK
  /\ \A t \in TaskId : RowOK(t) /\ WaitOK(t) /\ StoreOK(t)
TablesStep == TablesOK' /\ \A t \in TaskId : Kept(t)

LEMMA TablesUnchanged ==
  ASSUME TablesOK, UNCHANGED tables
  PROVE  TablesStep
<1>1. task' = task /\ ckpt' = ckpt /\ event' = event
  BY DEF tables
<1>2. TablesOK'
  BY <1>1 DEF TablesOK, EventOK, RowOK, WaitOK, StoreOK, Holds
<1>3. ASSUME NEW t \in TaskId PROVE Kept(t)
  <2>1. task[t].kind \in Kind => task[t].attempt \in Nat
    BY ConstantAssumption DEF TablesOK, RowOK, Attempt
  <2>2. \A n \in DOMAIN ckpt[t] : ckpt[t][n].owner \in Nat
    BY DEF TablesOK, StoreOK
  <2> QED BY <1>1, <2>1, <2>2 DEF Kept
<1> QED BY <1>2, <1>3 DEF TablesStep

(* The row of a task becomes another row of it.                            *)
RowAfter(t, row) ==
  /\ DOMAIN row = {"kind", "attempt", "state", "due", "wake", "wait"}
  /\ row.kind = task[t].kind
  /\ row.attempt \in 1 .. MaxAttempts[row.kind] /\ task[t].attempt <= row.attempt
  /\ row.state \in {"pending", "running", "sleeping"} \union Ended
  /\ row.due \in {"now", "later", "never"} /\ row.wake \in Event \union {None}

LEMMA RowStep ==
  ASSUME TablesOK, NEW t \in TaskId, NEW row, task[t].kind \in Kind, RowAfter(t, row),
         SetTask(t, row), UNCHANGED <<ckpt, event>>,
         row.wait = NoName \/ WaitOK(t)'
  PROVE  TablesStep
<1>1. /\ task'[t] = row /\ DOMAIN task' = TaskId /\ \A u \in TaskId \ {t} : task'[u] = task[u]
      /\ ckpt' = ckpt /\ event' = event
  BY DEF SetTask, TablesOK
<1>2. ASSUME NEW u \in TaskId PROVE RowOK(u)'
  <2>1. CASE u = t
    <3>1. row.kind \in Kind /\ None \notin Kind
      BY ConstantAssumption DEF RowAfter
    <3> QED BY <1>1, <2>1, <3>1 DEF RowOK, RowAfter, Ended
  <2>2. CASE u # t
    BY <1>1, <2>2 DEF RowOK, TablesOK
  <2> QED BY <2>1, <2>2
<1>3. ASSUME NEW u \in TaskId PROVE WaitOK(u)'
  <2>1. CASE u = t
    BY <1>1, <2>1 DEF WaitOK
  <2>2. CASE u # t
    BY <1>1, <2>2 DEF WaitOK, TablesOK
  <2> QED BY <2>1, <2>2
<1>4. ASSUME NEW u \in TaskId
      PROVE  /\ task[u].kind \in Kind => /\ task'[u].kind = task[u].kind
                                         /\ task[u].attempt <= task'[u].attempt
                                         /\ task[u].attempt \in Nat /\ task'[u].attempt \in Nat
  <2>1. task[u].kind \in Kind => task[u].attempt \in Nat
    BY ConstantAssumption DEF TablesOK, RowOK, Attempt
  <2>2. row.attempt \in Nat
    BY ConstantAssumption DEF RowAfter, Attempt
  <2>3. CASE u = t
    BY <1>1, <2>1, <2>2, <2>3 DEF RowAfter
  <2>4. CASE u # t
    BY SMTT(60), <1>1, <2>1, <2>4
  <2> QED BY <2>3, <2>4
<1>5. ASSUME NEW u \in TaskId, NEW n \in DOMAIN ckpt[u]
      PROVE  /\ task[u].kind \in Kind /\ Handler[task[u].kind] # <<>>
             /\ ckpt[u][n].owner \in Nat /\ ckpt[u][n].owner <= task'[u].attempt
             /\ \E p \in Positive : n = NameAt(task[u].kind, p) /\ Holds(task[u].kind, p, ckpt[u][n].value)'
  <2>1. /\ task[u].kind \in Kind /\ Handler[task[u].kind] # <<>>
        /\ ckpt[u][n].owner \in Nat /\ ckpt[u][n].owner <= task[u].attempt
        /\ \E p \in Positive : n = NameAt(task[u].kind, p) /\ Holds(task[u].kind, p, ckpt[u][n].value)
    BY DEF TablesOK, StoreOK
  <2> QED BY <2>1, <1>1, <1>4 DEF Holds
<1>6. ASSUME NEW u \in TaskId PROVE StoreOK(u)'
  BY <1>1, <1>4, <1>5 DEF StoreOK, Holds
<1>7. ASSUME NEW u \in TaskId PROVE Kept(u)
  BY <1>1, <1>4, <1>5 DEF Kept
<1>8. DOMAIN ckpt' = TaskId /\ DOMAIN event' = Event /\ EventOK'
  BY <1>1 DEF TablesOK, EventOK
<1> QED BY <1>1, <1>2, <1>3, <1>6, <1>7, <1>8 DEF TablesStep, TablesOK

(* The current attempt stores the value of one of its calls.               *)
LEMMA WriteStep ==
  ASSUME TablesOK, NEW t \in TaskId, NEW p \in Positive, NEW v,
         task[t].kind \in Kind, Handler[task[t].kind] # <<>>,
         Holds(task[t].kind, p, v),
         NameAt(task[t].kind, p) \in DOMAIN ckpt[t] => ckpt[t][NameAt(task[t].kind, p)].value = v,
         WriteCheckpoint(t, task[t].attempt, NameAt(task[t].kind, p), v), UNCHANGED <<task, event>>
  PROVE  /\ TablesStep
         /\ NameAt(task[t].kind, p) \in DOMAIN ckpt'[t]
         /\ ckpt'[t][NameAt(task[t].kind, p)] = [value |-> v, owner |-> task[t].attempt]
         /\ \A u \in TaskId \ {t} : ckpt'[u] = ckpt[u]
<1> DEFINE m == NameAt(task[t].kind, p)
<1>1. /\ DOMAIN ckpt' = TaskId /\ \A u \in TaskId \ {t} : ckpt'[u] = ckpt[u]
      /\ DOMAIN ckpt'[t] = DOMAIN ckpt[t] \union {m}
      /\ ckpt'[t][m] = [value |-> v, owner |-> task[t].attempt]
      /\ \A n \in DOMAIN ckpt[t] \ {m} : ckpt'[t][n] = ckpt[t][n]
  BY DEF WriteCheckpoint, Put, TablesOK
<1>2. task[t].attempt \in Nat
  BY ConstantAssumption DEF TablesOK, RowOK, Attempt
<1>3. ASSUME NEW u \in TaskId PROVE RowOK(u)' /\ WaitOK(u)'
  BY DEF TablesOK, RowOK, WaitOK
<1>4. \A k, q, w : Holds(k, q, w)' = Holds(k, q, w)
  BY DEF Holds
<1> HIDE DEF m
<1>5. ASSUME NEW u \in TaskId PROVE StoreOK(u)'
  <2>1. CASE u # t
    BY <1>1, <1>4, <2>1 DEF TablesOK, StoreOK, Holds
  <2>2. CASE u = t
    <3> SUFFICES ASSUME NEW n \in DOMAIN ckpt'[t]
                 PROVE  /\ ckpt'[t][n].owner \in Nat /\ ckpt'[t][n].owner <= task[t].attempt
                        /\ \E q \in Positive : n = NameAt(task[t].kind, q) /\ Holds(task[t].kind, q, ckpt'[t][n].value)
      BY <2>2 DEF StoreOK, Holds
    <3>1. CASE n = m
      BY <3>1, <1>1, <1>2 DEF m
    <3>2. CASE n # m
      BY <3>2, <1>1 DEF TablesOK, StoreOK
    <3> QED BY <3>1, <3>2
  <2> QED BY <2>1, <2>2
<1>6. ASSUME NEW u \in TaskId PROVE Kept(u)
  <2>1. task[u].kind \in Kind => task[u].attempt \in Nat
    BY ConstantAssumption DEF TablesOK, RowOK, Attempt
  <2>2. \A n \in DOMAIN ckpt[u] : ckpt[u][n].owner \in Nat /\ ckpt[u][n].owner <= task[u].attempt
    BY DEF TablesOK, StoreOK
  <2>3. CASE u # t
    BY <1>1, <2>1, <2>2, <2>3 DEF Kept
  <2>4. CASE u = t
    BY <1>1, <2>1, <2>2, <2>4 DEF Kept, m
  <2> QED BY <2>3, <2>4
<1>7. DOMAIN task' = TaskId /\ DOMAIN event' = Event /\ EventOK'
  BY DEF TablesOK, EventOK
<1> QED BY <1>1, <1>3, <1>5, <1>6, <1>7 DEF TablesStep, TablesOK, m

(* A set of task identifiers has a first one.                              *)
LEMMA FirstTask ==
  ASSUME NEW S \in SUBSET TaskId, S # {}
  PROVE  \E s \in S : \A u \in S : s <= u
<1> DEFINE R == OpToRel(<, Nat)
<1>1. S \subseteq Nat
  BY DEF TaskId
<1>2. \A x, y \in Nat : x < y => <<x, y>> \in R
  BY DEF OpToRel
<1>3. IsWellFoundedOn(R, Nat)
  BY NatLessThanWellFounded
<1> HIDE DEF R
<1>4. PICK s \in S : \A u \in S : ~(<<u, s>> \in R)
  BY <1>1, <1>3, WFMin
<1>5. ASSUME NEW u \in S PROVE s <= u
  <2>1. u \in Nat /\ s \in Nat /\ ~(<<u, s>> \in R)
    BY <1>1, <1>4
  <2>2. ~(u < s)
    BY <1>2, <2>1
  <2> QED BY <2>1, <2>2
<1> QED BY <1>5

(* spawn_task gives a new row to a task that had none.                     *)
LEMMA SpawnStep ==
  ASSUME TablesOK, NEW k \in Kind, SpawnTask(k)
  PROVE  /\ TablesStep /\ UNCHANGED <<ckpt, event>>
         /\ \A u \in TaskId : task'[u] = task[u] \/ (task[u].kind = None /\ task'[u].state = "pending")
<1> DEFINE f == FirstUnused
<1>1. f \in Unused /\ Unused \subseteq TaskId
  <2>1. Unused \subseteq TaskId /\ Unused # {}
    BY DEF Unused, SpawnTask
  <2>2. \E s \in Unused : \A u \in Unused : s <= u
    BY <2>1, FirstTask
  <2> QED BY <2>1, <2>2 DEF FirstUnused
<1>2. f \in TaskId /\ task[f].kind = None
  BY <1>1 DEF Unused
<1>3. /\ DOMAIN task' = TaskId /\ task'[f] = NewTask(k) /\ \A u \in TaskId \ {f} : task'[u] = task[u]
      /\ ckpt' = ckpt /\ event' = event
  BY <1>2 DEF SpawnTask, SetTask, TablesOK
<1> HIDE DEF f
<1>4. None \notin Kind /\ 1 \in 1 .. MaxAttempts[k]
  BY ConstantAssumption DEF Attempt
<1>5. DOMAIN ckpt[f] = {}
  BY <1>2, <1>4 DEF TablesOK, StoreOK
<1>6. ASSUME NEW u \in TaskId PROVE RowOK(u)' /\ WaitOK(u)' /\ StoreOK(u)' /\ Kept(u)
  <2>1. CASE u = f
    <3>1. RowOK(u)'
      BY <1>3, <1>4, <2>1 DEF RowOK, NewTask
    <3>2. WaitOK(u)'
      BY <1>3, <2>1 DEF WaitOK, NewTask
    <3>3. StoreOK(u)' /\ Kept(u)
      BY <1>2, <1>3, <1>4, <1>5, <2>1 DEF StoreOK, Kept
    <3> QED BY <3>1, <3>2, <3>3
  <2>2. CASE u # f
    <3>1. task'[u] = task[u]
      BY <1>3, <2>2
    <3>2. task[u].kind \in Kind => task[u].attempt \in Nat
      BY ConstantAssumption DEF TablesOK, RowOK, Attempt
    <3>3. Kept(u)
      BY <1>3, <3>1, <3>2 DEF Kept, TablesOK, StoreOK
    <3> QED BY <1>3, <3>1, <3>3 DEF TablesOK, RowOK, WaitOK, StoreOK, Holds
  <2> QED BY <2>1, <2>2
<1>7. DOMAIN ckpt' = TaskId /\ DOMAIN event' = Event /\ EventOK'
  BY <1>3 DEF TablesOK, EventOK
<1>8. TablesStep
  BY <1>3, <1>6, <1>7 DEF TablesStep, TablesOK
<1>9. ASSUME NEW u \in TaskId
      PROVE  task'[u] = task[u] \/ (task[u].kind = None /\ task'[u].state = "pending")
  BY <1>2, <1>3 DEF NewTask
<1> QED BY <1>3, <1>8, <1>9

(* emit_event stores a payload once, and writes the checkpoints of waits   *)
(* of sleeping runs only.                                                  *)
LEMMA EmitStep ==
  ASSUME TablesOK, NEW e \in Event, NEW b, EmitEvent(e, Value(0, e, b, FALSE))
  PROVE  /\ TablesStep
         /\ \A u \in TaskId :
              /\ task'[u].attempt = task[u].attempt
              /\ task[u].state # "sleeping" => /\ ckpt'[u] = ckpt[u]
                                               /\ task'[u].state = task[u].state
                                               /\ task'[u].wake = task[u].wake
              /\ task[u].state = "sleeping" => task'[u].state \in {"pending", "sleeping"}
<1> DEFINE v == Value(0, e, b, FALSE)
<1>1. v # NoValue /\ v.event = e
  BY ConstantAssumption DEF Value, NoValue
<1> HIDE DEF v
<1>2. CASE event[e] # NoValue
  <2>1. UNCHANGED tables
    BY <1>2 DEF EmitEvent
  <2>2. task' = task /\ ckpt' = ckpt
    BY <2>1 DEF tables
  <2> QED BY <2>1, <2>2, TablesUnchanged
<1>3. CASE event[e] = NoValue
  <2>1. /\ event' = [event EXCEPT ![e] = v]
        /\ task' = [t \in TaskId |->
                      IF t \in Woken(e)
                      THEN [task[t] EXCEPT !.state = "pending", !.due = "now", !.wake = None, !.wait = NoName]
                      ELSE IF task[t].wake = e THEN [task[t] EXCEPT !.wait = NoName] ELSE task[t]]
        /\ ckpt' = [t \in TaskId |->
                      IF t \in Woken(e)
                      THEN Put(ckpt[t], task[t].wait, [value |-> v, owner |-> task[t].attempt])
                      ELSE ckpt[t]]
    BY <1>3 DEF EmitEvent, v
  <2>2. ASSUME NEW u \in TaskId
        PROVE  /\ DOMAIN task'[u] = {"kind", "attempt", "state", "due", "wake", "wait"}
               /\ task'[u].kind = task[u].kind /\ task'[u].attempt = task[u].attempt
               /\ u \in Woken(e) =>
                    /\ task'[u].state = "pending" /\ task'[u].due = "now"
                    /\ task'[u].wake = None /\ task'[u].wait = NoName
               /\ u \notin Woken(e) =>
                    /\ task'[u].state = task[u].state /\ task'[u].due = task[u].due
                    /\ task'[u].wake = task[u].wake
                    /\ task'[u].wait = IF task[u].wake = e THEN NoName ELSE task[u].wait
    <3>1. DOMAIN task[u] = {"kind", "attempt", "state", "due", "wake", "wait"}
      BY DEF TablesOK, RowOK
    <3>2. CASE u \in Woken(e)
      BY <2>1, <3>1, <3>2
    <3>3. CASE u \notin Woken(e)
      BY <2>1, <3>1, <3>3
    <3> QED BY <3>2, <3>3
  <2>3. ASSUME NEW u \in TaskId, u \in Woken(e)
        PROVE  /\ task[u].state = "sleeping" /\ task[u].kind \in Kind /\ Handler[task[u].kind] # <<>>
               /\ \E p \in Positive : /\ task[u].wait = NameAt(task[u].kind, p)
                                      /\ CallOn(task[u].kind, p).do = "await"
                                      /\ CallOn(task[u].kind, p).arg = e
    BY <2>3 DEF Woken, TablesOK, WaitOK, RowOK
  <2>4. ASSUME NEW u \in TaskId PROVE RowOK(u)'
    <3>1. CASE u \in Woken(e)
      BY <2>2, <2>3, <3>1, ConstantAssumption DEF TablesOK, RowOK
    <3>2. CASE u \notin Woken(e)
      BY <2>2, <3>2 DEF TablesOK, RowOK
    <3> QED BY <3>1, <3>2
  <2>5. ASSUME NEW u \in TaskId PROVE WaitOK(u)'
    <3>1. task'[u].wait = NoName \/ (task'[u].wait = task[u].wait /\ u \notin Woken(e))
      BY <2>2
    <3>2. CASE task'[u].wait = NoName
      BY <3>2 DEF WaitOK
    <3>3. CASE task'[u].wait = task[u].wait /\ u \notin Woken(e)
      BY <2>2, <3>3 DEF TablesOK, WaitOK
    <3> QED BY <3>1, <3>2, <3>3
  <2> DEFINE HoldsNext(k, p, w) ==
               w # NoValue /\ IF CallOn(k, p).do = "await" THEN w = event'[CallOn(k, p).arg] ELSE w.call = p
  <2>6. ASSUME NEW k \in Kind, Handler[k] # <<>>, NEW p \in Positive, NEW w, Holds(k, p, w)
        PROVE  HoldsNext(k, p, w)
    <3>1. CallOn(k, p).do = "await" => CallOn(k, p).arg \in Event
      BY <2>6, CallOnIsCall
    <3>2. DOMAIN event = Event
      BY DEF TablesOK
    <3> QED BY <1>3, <2>1, <2>6, <3>1, <3>2 DEF Holds
  <2>7. ASSUME NEW u \in TaskId PROVE StoreOK(u)' /\ Kept(u)
    <3>0. task[u].kind \in Kind => task[u].attempt \in Nat
      BY ConstantAssumption DEF TablesOK, RowOK, Attempt
    <3>1. \A n \in DOMAIN ckpt[u] :
            /\ task[u].kind \in Kind /\ Handler[task[u].kind] # <<>>
            /\ ckpt[u][n].owner \in Nat /\ ckpt[u][n].owner <= task[u].attempt
            /\ \E p \in Positive : n = NameAt(task[u].kind, p) /\ Holds(task[u].kind, p, ckpt[u][n].value)
      BY DEF TablesOK, StoreOK
    <3>2. CASE u \notin Woken(e)
      <4>1. ckpt'[u] = ckpt[u]
        BY <2>1, <3>2
      <4>2. \A n \in DOMAIN ckpt[u] :
              \E p \in Positive : n = NameAt(task[u].kind, p) /\ HoldsNext(task[u].kind, p, ckpt[u][n].value)
        BY <2>6, <3>1
      <4>3. StoreOK(u)'
        BY <2>2, <3>1, <4>1, <4>2 DEF StoreOK, Holds
      <4>4. Kept(u)
        BY <2>2, <3>0, <3>1, <4>1 DEF Kept
      <4> QED BY <4>3, <4>4
    <3>3. CASE u \in Woken(e)
      <4> DEFINE m == task[u].wait
      <4>1. /\ DOMAIN ckpt'[u] = DOMAIN ckpt[u] \union {m}
            /\ ckpt'[u][m] = [value |-> v, owner |-> task[u].attempt]
            /\ \A n \in DOMAIN ckpt[u] \ {m} : ckpt'[u][n] = ckpt[u][n]
        BY <2>1, <3>3 DEF Put
      <4>2. PICK p \in Positive : /\ m = NameAt(task[u].kind, p)
                                  /\ CallOn(task[u].kind, p).do = "await"
                                  /\ CallOn(task[u].kind, p).arg = e
        BY <2>3, <3>3
      <4>3. task[u].kind \in Kind /\ Handler[task[u].kind] # <<>>
        BY <2>3, <3>3
      <4>4. m \notin DOMAIN ckpt[u]
        <5> SUFFICES ASSUME m \in DOMAIN ckpt[u] PROVE FALSE
          OBVIOUS
        <5>1. PICK q \in Positive : m = NameAt(task[u].kind, q) /\ Holds(task[u].kind, q, ckpt[u][m].value)
          BY <3>1
        <5>2. q = p
          BY <4>2, <4>3, <5>1, NameInjective
        <5> QED BY <1>3, <4>2, <5>1, <5>2 DEF Holds
      <4> HIDE DEF m
      <4>5. StoreOK(u)'
        <5>1. ASSUME NEW n \in DOMAIN ckpt'[u]
              PROVE  /\ ckpt'[u][n].owner \in Nat /\ ckpt'[u][n].owner <= task[u].attempt
                     /\ \E q \in Positive : n = NameAt(task[u].kind, q) /\ HoldsNext(task[u].kind, q, ckpt'[u][n].value)
          <6>1. CASE n = m
            <7>1. DOMAIN event = Event
              BY DEF TablesOK
            <7>2. HoldsNext(task[u].kind, p, v)
              BY <1>1, <2>1, <4>2, <7>1
            <7>3. ckpt'[u][n].value = v /\ ckpt'[u][n].owner = task[u].attempt
              BY <4>1, <6>1
            <7> HIDE DEF HoldsNext
            <7>4. HoldsNext(task[u].kind, p, ckpt'[u][n].value)
              BY <7>2, <7>3
            <7> QED BY <3>0, <4>2, <4>3, <6>1, <7>3, <7>4
          <6>2. CASE n # m
            <7>1. n \in DOMAIN ckpt[u] /\ ckpt'[u][n] = ckpt[u][n]
              BY <4>1, <6>2
            <7> HIDE DEF HoldsNext
            <7> QED BY <2>6, <3>1, <4>3, <7>1
          <6> QED BY <6>1, <6>2
        <5> QED BY <2>2, <4>3, <5>1 DEF StoreOK, Holds
      <4>6. Kept(u)
        BY <2>2, <3>0, <3>1, <4>1, <4>4 DEF Kept
      <4> QED BY <4>5, <4>6
    <3> QED BY <3>2, <3>3
  <2>8. EventOK' /\ DOMAIN event' = Event /\ DOMAIN task' = TaskId /\ DOMAIN ckpt' = TaskId
    BY <1>1, <2>1 DEF TablesOK, EventOK
  <2>9. TablesStep
    BY SMTT(60), <2>4, <2>5, <2>7, <2>8 DEF TablesStep, TablesOK
  <2>10. ASSUME NEW u \in TaskId, u \notin Woken(e) PROVE ckpt'[u] = ckpt[u]
    BY <2>1, <2>10
  <2> QED BY <2>2, <2>3, <2>9, <2>10
<1> QED BY <1>2, <1>3

-----------------------------------------------------------------------------
(* Executions at a call, in a call, and returning from it.                 *)

(* An execution that is about to make a call: which one, and its name.     *)
LEMMA AtCallFacts ==
  ASSUME NEW t \in TaskId, NEW a \in Attempt, ExecOK(t, a), AtCall(t, a)
  PROVE  LET x == exec[t][a]
             k == task[t].kind
             p == Len(x.called) + 1
         IN /\ k \in Kind /\ Handler[k] # <<>> /\ p \in Positive /\ DOMAIN x = Fields
            /\ x.pc \in 1 .. Len(Handler[k]) /\ Len(Handler[k]) \in Nat
            /\ x.pc = p \/ (x.pc = Len(Handler[k]) /\ p >= x.pc)
            /\ CallOf(t, a) = CallOn(k, p) /\ CallOf(t, a) = Handler[k][x.pc]
            /\ CallOf(t, a).name \in Seq(STRING)
            /\ CheckpointName(x, CallOf(t, a).name) = NameAt(k, p)
<1> DEFINE x == exec[t][a]
           k == task[t].kind
           p == Len(x.called) + 1
<1>1. /\ k \in Kind /\ DOMAIN x = Fields /\ x.pc \in Positive /\ x.called \in Seq(Seq(STRING))
      /\ \A i \in 1 .. Len(x.called) : x.called[i] = CallOn(k, i).name
      /\ Placed(k, x) /\ x.mode = "run" /\ x.pc <= Len(Handler[k])
  BY DEF ExecOK, AtCall, Calls
<1>2. Len(Handler[k]) \in Nat
  BY <1>1, HandlerCalls
<1>3. p \in Positive /\ p \in Nat /\ x.pc \in 1 .. Len(Handler[k])
  BY <1>1, <1>2 DEF Positive
<1>4. Handler[k] # <<>>
  BY <1>1, <1>2, <1>3
<1>5. x.pc = p \/ (x.pc = Len(Handler[k]) /\ p >= x.pc)
  BY <1>1 DEF Placed, Begun
<1>6. CallOf(t, a) = Handler[k][x.pc]
  BY DEF CallOf, Calls
<1>7. CallOf(t, a) = CallOn(k, p)
  BY SMTT(60), <1>2, <1>3, <1>5, <1>6 DEF CallOn
<1>8. CheckpointName(x, CallOf(t, a).name) = NameAt(k, p)
  BY <1>1, <1>7, NameOfNext
<1>9. CallOf(t, a).name \in Seq(STRING)
  BY <1>1, <1>3, <1>6, HandlerCalls
<1> HIDE DEF x, k, p
<1>10. /\ k \in Kind /\ Handler[k] # <<>> /\ p \in Positive /\ DOMAIN x = Fields
       /\ x.pc \in 1 .. Len(Handler[k]) /\ Len(Handler[k]) \in Nat
       /\ x.pc = p \/ (x.pc = Len(Handler[k]) /\ p >= x.pc)
       /\ CallOf(t, a) = CallOn(k, p) /\ CallOf(t, a) = Handler[k][x.pc]
       /\ CallOf(t, a).name \in Seq(STRING)
       /\ CheckpointName(x, CallOf(t, a).name) = NameAt(k, p)
  BY <1>1, <1>2, <1>3, <1>4, <1>5, <1>6, <1>7, <1>8, <1>9
<1> QED BY <1>10 DEF x, k, p

(* An execution in a call.                                                 *)
LEMMA InCallFacts ==
  ASSUME NEW t \in TaskId, NEW a \in Attempt, ExecOK(t, a), exec[t][a].mode \in Begun
  PROVE  LET x == exec[t][a]
             k == task[t].kind
             p == Len(x.called)
         IN /\ k \in Kind /\ Handler[k] # <<>> /\ p \in Positive /\ DOMAIN x = Fields
            /\ x.pc \in 1 .. Len(Handler[k]) /\ Len(Handler[k]) \in Nat
            /\ x.pc = p \/ (x.pc = Len(Handler[k]) /\ p >= x.pc)
            /\ CallOf(t, a) = CallOn(k, p) /\ CallOf(t, a) = Handler[k][x.pc]
            /\ CurrentName(x) = NameAt(k, p)
<1> DEFINE x == exec[t][a]
           k == task[t].kind
           p == Len(x.called)
<1>1. /\ k \in Kind /\ DOMAIN x = Fields /\ x.pc \in Positive /\ x.called \in Seq(Seq(STRING))
      /\ \A i \in 1 .. Len(x.called) : x.called[i] = CallOn(k, i).name
      /\ Placed(k, x)
  BY DEF ExecOK, Begun
<1>2. Len(Handler[k]) \in Nat
  BY <1>1, HandlerCalls
<1>3. p \in Positive /\ p \in Nat /\ p >= 1 /\ x.pc \in 1 .. Len(Handler[k])
  BY <1>1, <1>2 DEF Placed, Positive
<1>4. Handler[k] # <<>>
  BY <1>1, <1>2, <1>3
<1>5. x.pc = p \/ (x.pc = Len(Handler[k]) /\ p >= x.pc)
  BY <1>1 DEF Placed
<1>6. CallOf(t, a) = Handler[k][x.pc]
  BY DEF CallOf, Calls
<1>7. CallOf(t, a) = CallOn(k, p)
  BY SMTT(60), <1>2, <1>3, <1>5, <1>6 DEF CallOn
<1>8. CurrentName(x) = NameAt(k, p)
  BY <1>1, <1>3, NameOfCurrent
<1> HIDE DEF x, k, p
<1>9. /\ k \in Kind /\ Handler[k] # <<>> /\ p \in Positive /\ DOMAIN x = Fields
      /\ x.pc \in 1 .. Len(Handler[k]) /\ Len(Handler[k]) \in Nat
      /\ x.pc = p \/ (x.pc = Len(Handler[k]) /\ p >= x.pc)
      /\ CallOf(t, a) = CallOn(k, p) /\ CallOf(t, a) = Handler[k][x.pc]
      /\ CurrentName(x) = NameAt(k, p)
  BY <1>1, <1>2, <1>3, <1>4, <1>5, <1>6, <1>7, <1>8
<1> QED BY SMTT(60), <1>9 DEF x, k, p

(* A call that begins is counted under its name.                           *)
LEMMA CalledFacts ==
  ASSUME NEW t \in TaskId, NEW a \in Attempt, ExecOK(t, a), AtCall(t, a)
  PROVE  LET x == Called(exec[t][a], CallOf(t, a).name)
             y == exec[t][a]
         IN /\ DOMAIN x = Fields
            /\ x.mode = y.mode /\ x.pc = y.pc /\ x.cache = y.cache /\ x.wake = y.wake /\ x.value = y.value
            /\ x.called \in Seq(Seq(STRING)) /\ Len(x.called) = Len(y.called) + 1 /\ x.called # <<>>
            /\ \A i \in 1 .. Len(x.called) : x.called[i] = CallOn(task[t].kind, i).name
<1> DEFINE y == exec[t][a]
           n == CallOf(t, a).name
           x == Called(y, n)
<1>1. /\ DOMAIN y = Fields /\ y.called \in Seq(Seq(STRING))
      /\ \A i \in 1 .. Len(y.called) : y.called[i] = CallOn(task[t].kind, i).name
  BY DEF ExecOK, AtCall
<1>2. n \in Seq(STRING) /\ n = CallOn(task[t].kind, Len(y.called) + 1).name
  BY AtCallFacts
<1>3. /\ DOMAIN x = Fields /\ x.called = Append(y.called, n)
      /\ x.mode = y.mode /\ x.pc = y.pc /\ x.cache = y.cache /\ x.wake = y.wake /\ x.value = y.value
  BY <1>1 DEF Called, Fields
<1> HIDE DEF n, x
<1>4. x.called \in Seq(Seq(STRING)) /\ Len(x.called) = Len(y.called) + 1 /\ x.called # <<>>
  <2> DEFINE s == y.called
  <2>1. s \in Seq(Seq(STRING)) /\ n \in Seq(STRING)
    BY <1>1, <1>2
  <2> HIDE DEF s
  <2>2. Append(s, n) \in Seq(Seq(STRING)) /\ Append(s, n) # <<>> /\ Len(Append(s, n)) = Len(s) + 1
    BY <2>1, AppendProperties
  <2> QED BY <1>3, <2>2 DEF s
<1>5. ASSUME NEW i \in 1 .. Len(x.called) PROVE x.called[i] = CallOn(task[t].kind, i).name
  <2>1. Len(y.called) \in Nat
    BY <1>1
  <2>2. CASE i = Len(y.called) + 1
    BY <1>1, <1>2, <1>3, <2>1, <2>2
  <2>3. CASE i # Len(y.called) + 1
    <3>1. i \in 1 .. Len(y.called)
      BY <1>4, <2>1, <2>3
    <3> QED BY <1>1, <1>2, <1>3, <3>1
  <2> QED BY <2>2, <2>3
<1> QED BY <1>3, <1>4, <1>5 DEF n, x

(* What a lookup finds is what is stored, and it finds all that is.        *)
LEMMA LookupFacts ==
  ASSUME NEW t \in TaskId, NEW a \in Attempt, StoreOK(t), ExecOK(t, a), CacheOK(t, a),
         exec[t][a].mode # "idle", NEW n
  PROVE  LET found == LookupCheckpoint(t, exec[t][a], n)
         IN /\ found # NoValue => n \in DOMAIN ckpt[t] /\ found = ckpt[t][n].value
            /\ found = NoValue => n \notin DOMAIN ckpt[t]
<1>1. \A m \in DOMAIN ckpt[t] : ckpt[t][m].value # NoValue
  BY DEF StoreOK, Holds
<1>2. \A m \in DOMAIN exec[t][a].cache : m \in DOMAIN ckpt[t] /\ exec[t][a].cache[m] = ckpt[t][m].value
  BY DEF CacheOK
<1> QED BY <1>1, <1>2 DEF LookupCheckpoint

(* The cache with one more value.                                          *)
LEMMA CacheFacts ==
  ASSUME NEW x, DOMAIN x = Fields, NEW n, NEW v
  PROVE  LET y == Cache(x, n, v)
         IN /\ DOMAIN y = Fields /\ y.mode = x.mode /\ y.pc = x.pc /\ y.called = x.called
            /\ y.wake = x.wake /\ y.value = x.value
            /\ DOMAIN y.cache = DOMAIN x.cache \union {n} /\ y.cache[n] = v
            /\ \A m \in DOMAIN x.cache \ {n} : y.cache[m] = x.cache[m]
<1>1. Cache(x, n, v).cache = Put(x.cache, n, v)
  BY DEF Cache, Fields
<1>2. /\ DOMAIN Cache(x, n, v) = Fields /\ Cache(x, n, v).mode = x.mode /\ Cache(x, n, v).pc = x.pc
      /\ Cache(x, n, v).called = x.called /\ Cache(x, n, v).wake = x.wake /\ Cache(x, n, v).value = x.value
  BY DEF Cache, Fields
<1> QED BY <1>1, <1>2 DEF Put

(* x, on its way to be the execution, is within the call that it makes.    *)
WithinCall(t, a, x) ==
  LET k == task[t].kind
  IN /\ k \in Kind /\ DOMAIN x = Fields
     /\ x.called \in Seq(Seq(STRING)) /\ Len(x.called) \in Positive /\ Handler[k] # <<>>
     /\ \A i \in 1 .. Len(x.called) : x.called[i] = CallOn(k, i).name
     /\ x.pc = exec[t][a].pc /\ x.wake = exec[t][a].wake
     /\ x.pc \in 1 .. Len(Handler[k]) /\ Len(Handler[k]) \in Nat
     /\ x.pc = Len(x.called) \/ (x.pc = Len(Handler[k]) /\ Len(x.called) >= x.pc)

LEMMA BeginsWithin ==
  ASSUME NEW t \in TaskId, NEW a \in Attempt, ExecOK(t, a), AtCall(t, a)
  PROVE  /\ WithinCall(t, a, Called(exec[t][a], CallOf(t, a).name))
         /\ Len(Called(exec[t][a], CallOf(t, a).name).called) = Len(exec[t][a].called) + 1
<1>1. exec[t][a].called \in Seq(Seq(STRING))
  BY DEF ExecOK, AtCall
<1>2. Len(exec[t][a].called) \in Nat
  BY <1>1
<1> QED BY SMTT(60), <1>2, AtCallFacts, CalledFacts DEF WithinCall
LEMMA GoesOnWithin ==
  ASSUME NEW t \in TaskId, NEW a \in Attempt, ExecOK(t, a), exec[t][a].mode \in Begun
  PROVE  WithinCall(t, a, exec[t][a])
BY InCallFacts DEF WithinCall, ExecOK, Begun
LEMMA CacheWithin ==
  ASSUME NEW t, NEW a, NEW x, WithinCall(t, a, x), NEW n, NEW v
  PROVE  WithinCall(t, a, Cache(x, n, v))
BY SMTT(60), CacheFacts DEF WithinCall

(* An execution becomes another, and no other execution changes.           *)
LEMMA ActStep ==
  ASSUME Domains, NEW t \in TaskId, NEW a \in Attempt, NEW y, Become(t, a, y)
  PROVE  /\ exec'[t][a] = y /\ DOMAIN exec' = TaskId
         /\ \A u \in TaskId : DOMAIN exec'[u] = Attempt
         /\ \A u \in TaskId, b \in Attempt : u # t \/ b # a => exec'[u][b] = exec[u][b]
BY DEF Domains, Become

(* An execution enters, or goes on in, a call.                             *)
LEMMA WithinStep ==
  ASSUME Domains, NEW t \in TaskId, NEW a \in Attempt, NEW y, Become(t, a, y),
         task'[t].kind = task[t].kind, a <= task'[t].attempt,
         task'[t].attempt = a /\ task'[t].state = "running" =>
           task[t].attempt = a /\ task[t].state = "running" /\ task'[t].wake = task[t].wake,
         RowOK(t), ExecOK(t, a), WakeOK(t, a), exec[t][a].mode \notin {"idle", "fail"},
         WithinCall(t, a, y), y.mode \in Begun \union {"fail"},
         y.mode = "await" => Handler[task[t].kind][y.pc].do = "await"
                             /\ y.wake # Handler[task[t].kind][y.pc].arg,
         y.mode \in {"body", "persist", "sleep"} => Handler[task[t].kind][y.pc].do # "await"
  PROVE  ExecOK(t, a)' /\ WakeOK(t, a)'
<1>1. exec'[t][a] = y
  BY SMTT(60), ActStep
<1>2. task[t].kind \in Kind /\ a <= task[t].attempt
  BY SMTT(60) DEF ExecOK
<1>3. y.pc \in Positive /\ y.called # <<>> /\ Len(y.called) \in Nat /\ Len(y.called) >= 1
  BY SMTT(60) DEF WithinCall, Positive
<1>4. y.mode # "fail" => Placed(task[t].kind, y)
  BY SMTT(60), <1>3 DEF WithinCall, Placed
<1>5. ExecOK(t, a)'
  BY SMTT(120), <1>1, <1>2, <1>3, <1>4 DEF ExecOK, WithinCall, Begun
<1>6. WakeOK(t, a)'
  BY ZenonT(60), <1>1 DEF WakeOK, WithinCall
<1> QED BY <1>5, <1>6

(* An execution that goes on keeps what it knows of the timeout.           *)
LEMMA WakeGoesOn ==
  ASSUME NEW t, NEW a, NEW y, task' = task, exec'[t][a] = y, WakeOK(t, a),
         exec[t][a].mode \notin {"idle", "fail"}, y.mode \in {"run", "fail"},
         y.wake = exec[t][a].wake, exec[t][a].pc \in Nat, y.pc \in Nat, exec[t][a].pc <= y.pc,
         Len(Handler[task[t].kind]) \in Nat, exec[t][a].pc <= Len(Handler[task[t].kind])
  PROVE  WakeOK(t, a)'
<1> SUFFICES ASSUME y.mode = "run", a = task[t].attempt, task[t].state = "running"
             PROVE  \/ y.wake = task[t].wake
                    \/ \E i \in 1 .. (y.pc - 1) : /\ "continues" \in Handler[task[t].kind][i].opts
                                                 /\ Handler[task[t].kind][i].do = "await"
                                                 /\ Handler[task[t].kind][i].arg = task[t].wake
  BY SMTT(60) DEF WakeOK
<1>1. \/ exec[t][a].wake = task[t].wake
      \/ \E i \in 1 .. (exec[t][a].pc - 1) : /\ "continues" \in Handler[task[t].kind][i].opts
                                            /\ Handler[task[t].kind][i].do = "await"
                                            /\ Handler[task[t].kind][i].arg = task[t].wake
  BY DEF WakeOK
<1>2. 1 .. (exec[t][a].pc - 1) \subseteq 1 .. (y.pc - 1)
  BY SMTT(60)
<1> QED BY <1>1, <1>2

(* A call returns what is stored under its name.                           *)
LEMMA ReturnStep ==
  ASSUME Domains, NEW t \in TaskId, NEW a \in Attempt, NEW x, NEW v, Returns(t, a, x, v), task' = task,
         TablesStep, RowOK(t), StoreOK(t), ReturnedOK(t),
         ExecOK(t, a), WakeOK(t, a), exec[t][a].mode \notin {"idle", "fail"}, WithinCall(t, a, x),
         \A m \in DOMAIN x.cache : m \in DOMAIN ckpt'[t] /\ x.cache[m] = ckpt'[t][m].value,
         NameAt(task[t].kind, Len(x.called)) \in DOMAIN ckpt'[t],
         v = ckpt'[t][NameAt(task[t].kind, Len(x.called))].value
  PROVE  /\ ExecOK(t, a)' /\ CacheOK(t, a)' /\ WakeOK(t, a)' /\ ReturnedOK(t)'
         /\ \E y : Become(t, a, y)
         /\ DOMAIN returned' = TaskId /\ \A u \in TaskId \ {t} : returned'[u] = returned[u]
<1> DEFINE y == Goes(t, x, v)
           k == task[t].kind
           n == Len(Handler[k])
           p == Len(x.called)
<1>1. Become(t, a, y) /\ returned' = [returned EXCEPT ![t] = @ \union {<<p, v>>}]
  BY SMTT(60) DEF Returns, Position
<1>2. exec'[t][a] = y
  BY <1>1, ActStep
<1>3. /\ DOMAIN y = Fields /\ y.called = x.called /\ y.cache = x.cache /\ y.wake = x.wake
      /\ y.mode \in {"run", "fail"}
      /\ y.pc = x.pc + 1 \/ (y.pc = x.pc /\ "again" \in Handler[k][x.pc].opts)
  BY ZenonT(60) DEF Goes, WithinCall, Fields, Calls
<1>4. /\ k \in Kind /\ x.pc \in 1 .. n /\ n \in Nat /\ p \in Positive /\ p \in Nat /\ p >= 1
      /\ x.pc = p \/ (x.pc = n /\ p >= x.pc)
      /\ x.called \in Seq(Seq(STRING)) /\ \A i \in 1 .. p : x.called[i] = CallOn(k, i).name
      /\ Handler[k] # <<>> /\ x.pc = exec[t][a].pc /\ x.wake = exec[t][a].wake
  <2> HIDE DEF y
  <2>1. p \in Positive => p \in Nat /\ p >= 1
    BY DEF Positive
  <2> QED BY SMTT(60), <2>1 DEF WithinCall
<1>5. y.pc = x.pc => x.pc = n
  <2>1. "again" \in Handler[k][x.pc].opts => x.pc = n
    BY <1>4, HandlerCalls, HandlerAssumption
  <2> QED BY SMTT(60), <1>3, <1>4, <2>1
<1>6. y.pc \in Positive /\ y.pc \in Nat /\ y.pc >= x.pc
  BY SMTT(60), <1>3, <1>4 DEF Positive
<1> HIDE DEF y
<1>7. Placed(k, y) \/ y.mode = "fail"
  BY SMTT(60), <1>3, <1>4, <1>5, <1>6 DEF Placed, Begun
<1>8. a <= task[t].attempt
  BY SMTT(60) DEF ExecOK
<1>9. ExecOK(t, a)'
  BY SMTT(60), <1>2, <1>3, <1>4, <1>6, <1>7, <1>8 DEF ExecOK
<1>10. CacheOK(t, a)'
  BY <1>2, <1>3 DEF CacheOK, Computing
<1>11. WakeOK(t, a)'
  <2>1. /\ y.wake = exec[t][a].wake /\ y.pc \in Nat /\ y.pc >= exec[t][a].pc
        /\ exec[t][a].pc \in Nat /\ exec[t][a].pc <= n /\ n \in Nat
    BY <1>3, <1>4, <1>6
  <2>2. y.mode \in {"run", "fail"}
    BY SMTT(60), <1>3
  <2> QED BY SMTT(60), <1>2, <2>1, <2>2, WakeGoesOn
<1>12. ReturnedOK(t)'
  <2>1. returned'[t] = returned[t] \union {<<p, v>>}
    BY <1>1 DEF Domains
  <2>2. Kept(t) /\ RowOK(t)' /\ StoreOK(t)'
    BY DEF TablesStep, TablesOK
  <2>3. \A r \in returned[t] : ReturnedFrom(t, r)'
    BY <2>2, HistoryKept DEF ReturnedOK
  <2>4. ReturnedFrom(t, <<p, v>>)'
    BY <1>4 DEF ReturnedFrom
  <2> QED BY SMTT(60), <2>1, <2>3, <2>4 DEF ReturnedOK
<1>13. DOMAIN returned' = TaskId /\ \A u \in TaskId \ {t} : returned'[u] = returned[u]
  BY <1>1 DEF Domains
<1> QED BY <1>1, <1>9, <1>10, <1>11, <1>12, <1>13

(* A step of one execution preserves the invariant if it does so for that  *)
(* execution and for what it touches.                                      *)
LEMMA StepPreserves ==
  ASSUME ReplayInv, NEW t \in TaskId, NEW a \in Attempt, TablesStep,
         DOMAIN exec' = TaskId, \A u \in TaskId : DOMAIN exec'[u] = Attempt,
         DOMAIN returned' = TaskId, DOMAIN ran' = TaskId, faults' \in Nat,
         ExecOK(t, a)', CacheOK(t, a)', WakeOK(t, a)',
         \A u \in TaskId : CurrentOK(u)',
         \A u \in TaskId, b \in Attempt : u # t \/ b # a => Undisturbed(u, b),
         \A u \in TaskId : returned'[u] = returned[u] \/ ReturnedOK(u)',
         \A u \in TaskId : ran'[u] = ran[u] \/ RanOK(u)'
  PROVE  ReplayInv'
<1>1. TablesOK' /\ \A u \in TaskId : Kept(u)
  BY DEF TablesStep
<1>2. Domains' /\ EventOK'
  BY <1>1 DEF Domains, TablesOK
<1>3. ASSUME NEW u \in TaskId, NEW b \in Attempt PROVE ExecOK(u, b)' /\ CacheOK(u, b)' /\ WakeOK(u, b)'
  BY <1>1, OtherExecution DEF TablesOK, ReplayInv
<1>4. ASSUME NEW u \in TaskId PROVE ReturnedOK(u)' /\ RanOK(u)'
  BY <1>1, HistoryKept DEF TablesOK, ReplayInv, ReturnedOK, RanOK
<1> QED BY <1>1, <1>2, <1>3, <1>4 DEF ReplayInv, TablesOK

(* The same, for a step that leaves the tables as they are.                *)
LEMMA ExecutionStep ==
  ASSUME ReplayInv, NEW t \in TaskId, NEW a \in Attempt, NEW y, Become(t, a, y), Live(t, a),
         UNCHANGED tables, faults' \in Nat, DOMAIN returned' = TaskId, DOMAIN ran' = TaskId,
         ExecOK(t, a)', CacheOK(t, a)', WakeOK(t, a)',
         \A u \in TaskId : returned'[u] = returned[u] \/ ReturnedOK(u)',
         \A u \in TaskId : ran'[u] = ran[u] \/ RanOK(u)'
  PROVE  ReplayInv'
<1>1. task' = task /\ ckpt' = ckpt /\ event' = event
  BY DEF tables
<1>2. TablesStep
  BY TablesUnchanged DEF TablesOK, ReplayInv, Domains
<1>3. /\ exec'[t][a] = y /\ DOMAIN exec' = TaskId
      /\ \A u \in TaskId : DOMAIN exec'[u] = Attempt
      /\ \A u \in TaskId, b \in Attempt : u # t \/ b # a => exec'[u][b] = exec[u][b]
  BY ActStep DEF ReplayInv
<1>4. ASSUME NEW u \in TaskId PROVE CurrentOK(u)'
  <2>1. CASE u = t /\ a = task[u].attempt
    BY <1>1, <2>1 DEF CurrentOK, ReplayInv, Live
  <2>2. CASE u # t \/ a # task[u].attempt
    <3>1. task[u].kind \in Kind => task[u].attempt \in Attempt
      BY AttemptType DEF ReplayInv
    <3> QED BY <1>1, <1>3, <2>2, <3>1 DEF CurrentOK, ReplayInv, Live
  <2> QED BY <2>1, <2>2
<1>5. ASSUME NEW u \in TaskId, NEW b \in Attempt, u # t \/ b # a PROVE Undisturbed(u, b)
  BY <1>1, <1>3, <1>5 DEF Undisturbed
<1> QED BY <1>2, <1>3, <1>4, <1>5, StepPreserves

-----------------------------------------------------------------------------
(* The steps of an execution that leave the tables as they are.            *)

(* The parts of the invariant about one execution and its task.            *)
LEMMA PartsOf ==
  ASSUME ReplayInv, NEW t \in TaskId, NEW a \in Attempt
  PROVE  /\ Domains /\ TablesOK
         /\ RowOK(t) /\ WaitOK(t) /\ CurrentOK(t) /\ StoreOK(t) /\ ReturnedOK(t) /\ RanOK(t)
         /\ ExecOK(t, a) /\ CacheOK(t, a) /\ WakeOK(t, a)
BY DEF ReplayInv, TablesOK, Domains

LEMMA QuitStep ==
  ASSUME Domains, NEW t \in TaskId, NEW a \in Attempt, Quit(t, a)
  PROVE  /\ exec'[t][a] = Idle /\ Become(t, a, Idle)
         /\ ExecOK(t, a)' /\ CacheOK(t, a)' /\ WakeOK(t, a)'
<1>1. exec'[t][a] = Idle
  BY ActStep DEF Quit
<1> QED BY <1>1 DEF Quit, Idle, ExecOK, CacheOK, WakeOK

LEMMA CreatePreserves ==
  ASSUME ReplayInv, NEW t \in TaskId, NEW a \in Attempt, Create(t, a)
  PROVE  ReplayInv'
<1> DEFINE x == exec[t][a]
           y == [x EXCEPT !.mode = "run", !.cache = Visible(t, a)]
<1>1. Become(t, a, y) /\ x.mode = "create"
  BY DEF Create
<1>2. task' = task /\ ckpt' = ckpt /\ event' = event /\ faults' = faults /\ returned' = returned /\ ran' = ran
  BY DEF Create, tables, history
<1>3. exec'[t][a] = y
  BY SMTT(60), <1>1, ActStep, PartsOf
<1>4. DOMAIN x = Fields
  BY <1>1, PartsOf DEF ExecOK
<1>5. /\ DOMAIN y = Fields /\ y.mode = "run" /\ y.pc = x.pc /\ y.called = x.called /\ y.wake = x.wake
      /\ y.cache = Visible(t, a)
  BY SMTT(60), <1>4 DEF Fields
<1> HIDE DEF y
<1>6. ExecOK(t, a)'
  BY SMTT(120), <1>1, <1>2, <1>3, <1>5, PartsOf DEF ExecOK, Placed, Begun
<1>7. CacheOK(t, a)'
  <2>1. \A m \in DOMAIN Visible(t, a) : m \in DOMAIN ckpt[t] /\ Visible(t, a)[m] = ckpt[t][m].value
    BY DEF Visible
  <2> QED BY <1>2, <1>3, <1>5, <2>1 DEF CacheOK, Computing
<1>8. WakeOK(t, a)'
  BY <1>1, <1>2, <1>3, <1>5, PartsOf DEF WakeOK
<1>9. Live(t, a) /\ faults' \in Nat /\ DOMAIN returned' = TaskId /\ DOMAIN ran' = TaskId
  BY <1>1, <1>2, PartsOf DEF Live, Domains
<1> QED BY <1>1, <1>2, <1>6, <1>7, <1>8, <1>9, ExecutionStep DEF Create, tables

LEMMA BeginStepPreserves ==
  ASSUME ReplayInv, NEW t \in TaskId, NEW a \in Attempt, BeginStep(t, a)
  PROVE  ReplayInv'
<1> DEFINE k == task[t].kind
           name == CallOf(t, a).name
           n == CheckpointName(exec[t][a], name)
           x == Called(exec[t][a], name)
           found == LookupCheckpoint(t, exec[t][a], n)
<1>1. /\ AtCall(t, a) /\ CallOf(t, a).do = "step" /\ exec[t][a].mode = "run"
      /\ task' = task /\ ckpt' = ckpt /\ event' = event /\ faults' = faults /\ ran' = ran /\ UNCHANGED tables
  BY SMTT(60) DEF BeginStep, tables, AtCall
<1>2. /\ WithinCall(t, a, x) /\ n = NameAt(k, Len(x.called))
      /\ x.cache = exec[t][a].cache /\ CallOf(t, a) = Handler[k][x.pc] /\ DOMAIN x = Fields
  BY SMTT(60), <1>1, PartsOf, BeginsWithin, AtCallFacts, CalledFacts
<1>3. /\ found # NoValue => n \in DOMAIN ckpt[t] /\ found = ckpt[t][n].value
      /\ found = NoValue => n \notin DOMAIN ckpt[t]
  BY <1>1, PartsOf, LookupFacts
<1>4. \A m \in DOMAIN x.cache : m \in DOMAIN ckpt[t] /\ x.cache[m] = ckpt[t][m].value
  BY <1>1, <1>2, PartsOf DEF CacheOK
<1>5. TablesStep /\ Live(t, a)
  BY <1>1, PartsOf, TablesUnchanged DEF Live
<1>6. faults' \in Nat /\ DOMAIN ran' = TaskId
  BY <1>1, PartsOf DEF Domains
<1>7. CASE found # NoValue
  <2> DEFINE z == Cache(x, n, found)
  <2>1. Returns(t, a, z, found)
    BY <1>7 DEF BeginStep
  <2>2. WithinCall(t, a, z) /\ z.called = x.called
    BY SMTT(60), <1>2, CacheWithin, CacheFacts
  <2>3. \A m \in DOMAIN z.cache : m \in DOMAIN ckpt[t] /\ z.cache[m] = ckpt[t][m].value
    BY <1>2, <1>3, <1>4, <1>7, CacheFacts
  <2> HIDE DEF z, x, n, found, k
  <2>4. /\ ExecOK(t, a)' /\ CacheOK(t, a)' /\ WakeOK(t, a)' /\ ReturnedOK(t)'
        /\ \E y : Become(t, a, y)
        /\ DOMAIN returned' = TaskId /\ \A u \in TaskId \ {t} : returned'[u] = returned[u]
    BY SMTT(60), <1>1, <1>2, <1>3, <1>5, <1>7, <2>1, <2>2, <2>3, PartsOf, ReturnStep DEF k
  <2> QED BY <1>1, <1>5, <1>6, <2>4, ExecutionStep
<1>8. CASE found = NoValue
  <2> DEFINE y == [x EXCEPT !.mode = "body"]
  <2>1. Become(t, a, y) /\ returned' = returned
    BY <1>8 DEF BeginStep
  <2>2. /\ DOMAIN y = Fields /\ y.mode = "body" /\ y.pc = x.pc /\ y.called = x.called /\ y.wake = x.wake
        /\ y.cache = x.cache
    BY <1>2 DEF Fields
  <2> HIDE DEF y, x, n, found, k
  <2>3. WithinCall(t, a, y)
    BY <1>2, <2>2 DEF WithinCall
  <2>4. exec'[t][a] = y
    BY SMTT(60), <2>1, ActStep, PartsOf
  <2>5. task[t].kind \in Kind /\ a <= task[t].attempt
    BY SMTT(60), <1>1, PartsOf DEF ExecOK
  <2>6. ExecOK(t, a)' /\ WakeOK(t, a)'
    BY <1>1, <1>2, <2>1, <2>2, <2>3, <2>5, PartsOf, WithinStep DEF Begun, k
  <2>7. CacheOK(t, a)'
    BY <1>1, <1>2, <1>3, <1>4, <1>8, <2>2, <2>4 DEF CacheOK, CurrentNameOf, k
  <2>8. DOMAIN returned' = TaskId
    BY <2>1, PartsOf DEF Domains
  <2> QED BY <1>1, <1>5, <1>6, <2>1, <2>6, <2>7, <2>8, ExecutionStep
<1> QED BY <1>7, <1>8

LEMMA BodyThrowsPreserves ==
  ASSUME ReplayInv, NEW t \in TaskId, NEW a \in Attempt, BodyThrows(t, a)
  PROVE  ReplayInv'
<1> DEFINE x == exec[t][a]
           y == [x EXCEPT !.mode = "fail"]
           n == CurrentName(x)
<1>0. PICK m : m = n
  OBVIOUS
<1>1. /\ x.mode = "body" /\ Become(t, a, y) /\ ran' = [ran EXCEPT ![t] = @ \union {<<n, a>>}]
      /\ task' = task /\ ckpt' = ckpt /\ faults' = faults /\ returned' = returned /\ UNCHANGED tables
  BY DEF BodyThrows, tables
<1>2. WithinCall(t, a, x) /\ n = CurrentNameOf(t, a) /\ DOMAIN x = Fields
  BY <1>1, PartsOf, GoesOnWithin, InCallFacts DEF Begun, CurrentNameOf
<1>3. /\ DOMAIN y = Fields /\ y.mode = "fail" /\ y.pc = x.pc /\ y.called = x.called /\ y.wake = x.wake
      /\ y.cache = x.cache
  BY <1>2 DEF Fields
<1> HIDE DEF y
<1>4. WithinCall(t, a, y)
  BY <1>2, <1>3 DEF WithinCall
<1>5. exec'[t][a] = y
  BY SMTT(60), <1>1, ActStep, PartsOf
<1>6. task[t].kind \in Kind /\ a <= task[t].attempt
  BY SMTT(60), <1>1, PartsOf DEF ExecOK
<1>7. ExecOK(t, a)' /\ WakeOK(t, a)'
  BY <1>1, <1>3, <1>4, <1>6, PartsOf, WithinStep
<1>8. CacheOK(t, a)'
  BY <1>1, <1>3, <1>5, PartsOf DEF CacheOK, Computing
<1>9. RanOK(t)' /\ DOMAIN ran' = TaskId /\ \A u \in TaskId \ {t} : ran'[u] = ran[u]
  <2>1. \A r \in ran[t] : RanIn(t, r)'
    BY <1>1, PartsOf DEF RanOK, RanIn
  <2>2. m \in DOMAIN ckpt[t] => ckpt[t][m].owner > a /\ ckpt[t][m].owner \in Nat
    BY <1>0, <1>1, <1>2, PartsOf DEF CacheOK, Computing, StoreOK
  <2>3. a \in Nat
    BY DEF Attempt
  <2>4. RanIn(t, <<m, a>>)'
    BY <1>1, <1>6, <2>2, <2>3 DEF RanIn
  <2>5. ran'[t] = ran[t] \union {<<m, a>>} /\ DOMAIN ran' = TaskId /\ \A u \in TaskId \ {t} : ran'[u] = ran[u]
    BY <1>0, <1>1, PartsOf DEF Domains
  <2> QED BY <2>1, <2>4, <2>5 DEF RanOK
<1>10. Live(t, a) /\ faults' \in Nat /\ DOMAIN returned' = TaskId
  BY <1>1, PartsOf DEF Live, Domains
<1> QED BY <1>1, <1>7, <1>8, <1>9, <1>10, ExecutionStep

(* A call is passed over, or the handler is left.                          *)
LEMMA PassStep ==
  ASSUME ReplayInv, NEW t \in TaskId, NEW a \in Attempt, NEW y, Become(t, a, y), AtCall(t, a),
         task' = task, DOMAIN y = Fields, y.mode \in {"run", "fail"},
         y.called = Called(exec[t][a], CallOf(t, a).name).called,
         y.pc = exec[t][a].pc \/ y.pc = exec[t][a].pc + 1 \/ y.pc = Len(Calls(t)) + 1,
         y.mode = "run" => y.pc # exec[t][a].pc
  PROVE  ExecOK(t, a)'
<1> DEFINE x == Called(exec[t][a], CallOf(t, a).name)
           k == task[t].kind
<1>1. exec'[t][a] = y
  BY ActStep, PartsOf
<1>2. WithinCall(t, a, x) /\ a <= task[t].attempt
  BY PartsOf, BeginsWithin DEF ExecOK, AtCall
<1> HIDE DEF x
<1>3. /\ k \in Kind /\ Handler[k] # <<>> /\ Len(Handler[k]) \in Nat
      /\ x.called \in Seq(Seq(STRING)) /\ Len(x.called) \in Nat
      /\ \A i \in 1 .. Len(x.called) : x.called[i] = CallOn(k, i).name
      /\ x.pc = exec[t][a].pc /\ x.pc \in 1 .. Len(Handler[k])
      /\ x.pc = Len(x.called) \/ (x.pc = Len(Handler[k]) /\ Len(x.called) >= x.pc)
  BY <1>2 DEF WithinCall, Positive
<1>4. y.called = x.called
  BY DEF x
<1> DEFINE c == y.pc
           d == x.pc
           n == Len(Handler[k])
           l == Len(x.called)
<1>5. /\ d \in 1 .. n /\ n \in Nat /\ l \in Nat
      /\ d = l \/ (d = n /\ l >= d)
      /\ c = d \/ c = d + 1 \/ c = n + 1
      /\ y.mode = "run" => c # d
  BY <1>3 DEF Calls
<1> HIDE DEF c, d, n, l
<1>6. c \in Positive
  BY <1>5 DEF Positive
<1>7. y.mode = "run" /\ c <= n => c = l + 1 \/ (c = n /\ l + 1 >= n)
  BY <1>5
<1>8. y.mode = "run" => Placed(k, y)
  BY <1>4, <1>7 DEF Placed, Begun, c, n, l
<1> QED BY SMTT(120), <1>1, <1>2, <1>3, <1>4, <1>6, <1>8 DEF ExecOK, c

LEMMA BeginSleepPreserves ==
  ASSUME ReplayInv, NEW t \in TaskId, NEW a \in Attempt, BeginSleep(t, a)
  PROVE  ReplayInv'
<1> DEFINE k == task[t].kind
           name == CallOf(t, a).name
           n == CheckpointName(exec[t][a], name)
           x == Called(exec[t][a], name)
           found == LookupCheckpoint(t, exec[t][a], n)
           fresh == Value(Position(x), None, a, FALSE)
<1>1. /\ AtCall(t, a) /\ CallOf(t, a).do = "sleep" /\ exec[t][a].mode = "run"
      /\ task' = task /\ ckpt' = ckpt /\ event' = event /\ faults' = faults /\ ran' = ran /\ returned' = returned
      /\ UNCHANGED tables
  BY DEF BeginSleep, tables, history, AtCall
<1>2. /\ WithinCall(t, a, x) /\ n = NameAt(k, Len(x.called))
      /\ x.cache = exec[t][a].cache /\ CallOf(t, a) = Handler[k][x.pc] /\ DOMAIN x = Fields
      /\ x.pc = exec[t][a].pc /\ x.mode = "run" /\ x.wake = exec[t][a].wake
  BY SMTT(60), <1>1, PartsOf, BeginsWithin, AtCallFacts, CalledFacts
<1>3. /\ found # NoValue => n \in DOMAIN ckpt[t] /\ found = ckpt[t][n].value
      /\ found = NoValue => n \notin DOMAIN ckpt[t]
  BY <1>1, PartsOf, LookupFacts
<1>4. \A m \in DOMAIN x.cache : m \in DOMAIN ckpt[t] /\ x.cache[m] = ckpt[t][m].value
  BY SMTT(60), <1>1, <1>2, PartsOf DEF CacheOK
<1>5. Live(t, a) /\ faults' \in Nat /\ DOMAIN ran' = TaskId /\ DOMAIN returned' = TaskId
      /\ task[t].kind \in Kind /\ a <= task[t].attempt
  BY <1>1, PartsOf DEF Domains, Live, ExecOK
<1>6. fresh.call = Len(x.called)
  BY DEF Value, Position
<1>7. SUFFICES \E y : Become(t, a, y) /\ ExecOK(t, a)' /\ WakeOK(t, a)' /\ CacheOK(t, a)'
  BY <1>1, <1>5, ExecutionStep
<1>8. CASE "unlessPast" \in CallOf(t, a).opts /\ <<t, exec[t][a].pc>> \in past
  <2> DEFINE y == [x EXCEPT !.pc = @ + 1]
  <2>1. Become(t, a, y)
    BY <1>8 DEF BeginSleep
  <2>2. /\ DOMAIN y = Fields /\ y.mode = "run" /\ y.pc = exec[t][a].pc + 1 /\ y.called = x.called
        /\ y.wake = exec[t][a].wake /\ y.cache = x.cache
    BY <1>2 DEF Fields
  <2>3. y.pc # exec[t][a].pc
    BY <1>2, <2>2 DEF WithinCall
  <2> HIDE DEF y
  <2>4. ExecOK(t, a)'
    BY <1>1, <2>1, <2>2, <2>3, PassStep
  <2>5. exec'[t][a] = y
    BY <2>1, ActStep, PartsOf
  <2>6. CacheOK(t, a)'
    BY SMTT(120), <1>1, <1>4, <2>2, <2>5 DEF CacheOK, Computing
  <2>7. WakeOK(t, a)'
    <3>1. exec[t][a].pc \in Nat
      BY <1>2 DEF WithinCall
    <3>2. 1 .. (exec[t][a].pc - 1) \subseteq 1 .. (y.pc - 1)
      BY <2>2, <3>1
    <3>3. exec[t][a].pc > Len(Handler[k]) => y.pc > Len(Handler[k])
      BY SMTT(60), <1>2, <2>2 DEF WithinCall
    <3> QED BY <1>1, <2>2, <2>5, <3>2, <3>3, PartsOf DEF WakeOK
  <2> QED BY <2>1, <2>4, <2>6, <2>7
<1>9. CASE ~("unlessPast" \in CallOf(t, a).opts /\ <<t, exec[t][a].pc>> \in past) /\ found # NoValue
  <2> DEFINE z == Cache(x, n, found)
             y == [z EXCEPT !.mode = "sleep", !.value = found]
  <2>1. Become(t, a, y)
    BY SMTT(30), <1>9 DEF BeginSleep
  <2>2. /\ WithinCall(t, a, z) /\ z.called = x.called /\ DOMAIN z = Fields
        /\ \A m \in DOMAIN z.cache : m \in DOMAIN ckpt[t] /\ z.cache[m] = ckpt[t][m].value
    <3>1. DOMAIN x = Fields /\ WithinCall(t, a, x)
      BY <1>2
    <3>2. n \in DOMAIN ckpt[t] /\ found = ckpt[t][n].value
      BY <1>3, <1>9
    <3> HIDE DEF x, n, found, k
    <3>3. WithinCall(t, a, z)
      BY <3>1, CacheWithin
    <3>4. /\ z.called = x.called /\ DOMAIN z = Fields
          /\ \A m \in DOMAIN z.cache : (m \in DOMAIN x.cache /\ z.cache[m] = x.cache[m]) \/ (m = n /\ z.cache[m] = found)
      BY <3>1, CacheFacts
    <3> QED BY <1>4, <3>2, <3>3, <3>4
  <2> HIDE DEF z
  <2>3. /\ DOMAIN y = Fields /\ y.mode = "sleep" /\ y.pc = z.pc /\ y.called = z.called
        /\ y.wake = z.wake /\ y.cache = z.cache /\ y.value = found
    BY <2>2 DEF Fields
  <2> HIDE DEF y, x, n, found, k
  <2>4. WithinCall(t, a, y) /\ y.pc = x.pc
    BY SMTT(60), <1>2, <2>2, <2>3 DEF WithinCall
  <2>5. exec'[t][a] = y
    BY <2>1, ActStep, PartsOf
  <2>6. ExecOK(t, a)' /\ WakeOK(t, a)'
    BY SMTT(60), <1>1, <1>2, <1>5, <2>1, <2>3, <2>4, PartsOf, WithinStep DEF Begun, k
  <2>7. CacheOK(t, a)'
    BY <1>1, <1>2, <1>3, <1>9, <2>2, <2>3, <2>5 DEF CacheOK, CurrentNameOf, Computing, k
  <2> QED BY <2>1, <2>6, <2>7
<1>10. CASE ~("unlessPast" \in CallOf(t, a).opts /\ <<t, exec[t][a].pc>> \in past) /\ found = NoValue
  <2> DEFINE y == [x EXCEPT !.mode = "persist", !.value = fresh]
  <2>1. Become(t, a, y)
    BY <1>10 DEF BeginSleep
  <2> HIDE DEF fresh
  <2>2. /\ DOMAIN y = Fields /\ y.mode = "persist" /\ y.pc = x.pc /\ y.called = x.called /\ y.wake = x.wake
        /\ y.cache = x.cache /\ y.value = fresh
    BY <1>2 DEF Fields
  <2> HIDE DEF y, x, n, found, k
  <2>3. WithinCall(t, a, y)
    BY SMTT(60), <1>2, <2>2 DEF WithinCall
  <2>4. exec'[t][a] = y
    BY <2>1, ActStep, PartsOf
  <2>5. ExecOK(t, a)' /\ WakeOK(t, a)'
    BY SMTT(60), <1>1, <1>2, <1>5, <2>1, <2>2, <2>3, PartsOf, WithinStep DEF Begun, k
  <2>6. CacheOK(t, a)'
    BY <1>1, <1>2, <1>3, <1>4, <1>6, <1>10, <2>2, <2>4 DEF CacheOK, CurrentNameOf, Position, k
  <2> QED BY <2>1, <2>5, <2>6
<1> QED BY <1>8, <1>9, <1>10

LEMMA ThrowIfPreserves ==
  ASSUME ReplayInv, NEW t \in TaskId, NEW a \in Attempt, ThrowIf(t, a)
  PROVE  ReplayInv'
<1> DEFINE e == exec[t][a]
           x == Called(e, CallOf(t, a).name)
<1>1. /\ AtCall(t, a) /\ e.mode = "run"
      /\ task' = task /\ ckpt' = ckpt /\ faults' = faults /\ ran' = ran /\ returned' = returned /\ UNCHANGED tables
  BY DEF ThrowIf, tables, history, AtCall
<1>2. Live(t, a) /\ faults' \in Nat /\ DOMAIN ran' = TaskId /\ DOMAIN returned' = TaskId
  BY <1>1, PartsOf DEF Domains, Live
<1>3. /\ WithinCall(t, a, x) /\ x.cache = e.cache /\ DOMAIN x = Fields /\ DOMAIN e = Fields
      /\ x.pc = e.pc /\ x.mode = "run" /\ x.wake = e.wake
  BY <1>1, PartsOf, BeginsWithin, AtCallFacts, CalledFacts
<1>4. SUFFICES \E y : Become(t, a, y) /\ ExecOK(t, a)' /\ WakeOK(t, a)' /\ CacheOK(t, a)'
  BY <1>1, <1>2, ExecutionStep
<1>5. CASE e.value.flag /\ tries[t] <= Outage
  <2> DEFINE y == [e EXCEPT !.mode = "fail"]
  <2>1. Become(t, a, y)
    BY <1>5 DEF ThrowIf
  <2>2. DOMAIN y = Fields /\ y.mode = "fail" /\ y.pc = e.pc /\ y.called = e.called /\ y.cache = e.cache
    BY SMTT(60), <1>3 DEF Fields
  <2> HIDE DEF y
  <2>3. exec'[t][a] = y
    BY <2>1, ActStep, PartsOf
  <2>4. ExecOK(t, a)' /\ WakeOK(t, a)' /\ CacheOK(t, a)'
    BY <1>1, <2>2, <2>3, PartsOf DEF ExecOK, WakeOK, CacheOK, Computing
  <2> QED BY <2>1, <2>4
<1>6. CASE ~(e.value.flag /\ tries[t] <= Outage)
  <2> DEFINE y == [x EXCEPT !.pc = @ + 1]
  <2>1. Become(t, a, y)
    BY <1>6 DEF ThrowIf
  <2>2. /\ DOMAIN y = Fields /\ y.mode = "run" /\ y.pc = e.pc + 1 /\ y.called = x.called
        /\ y.wake = e.wake /\ y.cache = e.cache
    BY <1>3 DEF Fields
  <2>3. y.pc # e.pc /\ e.pc \in Nat /\ e.pc <= Len(Handler[task[t].kind]) /\ Len(Handler[task[t].kind]) \in Nat
    BY <1>3, <2>2 DEF WithinCall
  <2> HIDE DEF y
  <2>4. ExecOK(t, a)'
    BY <1>1, <2>1, <2>2, <2>3, PassStep
  <2>5. exec'[t][a] = y
    BY <2>1, ActStep, PartsOf
  <2>6. CacheOK(t, a)'
    BY SMTT(120), <1>1, <2>2, <2>5, PartsOf DEF CacheOK, Computing
  <2>7. WakeOK(t, a)'
    <3>1. 1 .. (e.pc - 1) \subseteq 1 .. (y.pc - 1)
      BY <2>2, <2>3
    <3>2. ~(e.pc > Len(Handler[task[t].kind]))
      BY <2>3
    <3> QED BY <1>1, <2>2, <2>5, <3>1, <3>2, PartsOf DEF WakeOK
  <2> QED BY <2>1, <2>4, <2>6, <2>7
<1> QED BY <1>5, <1>6

LEMMA BeginAwaitPreserves ==
  ASSUME ReplayInv, NEW t \in TaskId, NEW a \in Attempt, BeginAwait(t, a)
  PROVE  ReplayInv'
<1> DEFINE k == task[t].kind
           e == exec[t][a]
           c == CallOf(t, a)
           n == CheckpointName(e, c.name)
           x == Called(e, c.name)
           found == LookupCheckpoint(t, e, n)
<1>1. /\ AtCall(t, a) /\ c.do = "await" /\ e.mode = "run"
      /\ task' = task /\ ckpt' = ckpt /\ event' = event /\ faults' = faults /\ ran' = ran /\ UNCHANGED tables
  BY DEF BeginAwait, tables, AtCall
<1>2. /\ WithinCall(t, a, x) /\ n = NameAt(k, Len(x.called))
      /\ x.cache = e.cache /\ c = Handler[k][x.pc] /\ DOMAIN x = Fields
      /\ x.pc = e.pc /\ x.mode = "run" /\ x.wake = e.wake
  BY SMTT(60), <1>1, PartsOf, BeginsWithin, AtCallFacts, CalledFacts
<1>3. /\ found # NoValue => n \in DOMAIN ckpt[t] /\ found = ckpt[t][n].value
      /\ found = NoValue => n \notin DOMAIN ckpt[t]
  BY <1>1, PartsOf, LookupFacts
<1>4. \A m \in DOMAIN x.cache : m \in DOMAIN ckpt[t] /\ x.cache[m] = ckpt[t][m].value
  BY SMTT(60), <1>1, <1>2, PartsOf DEF CacheOK
<1>5. Live(t, a) /\ faults' \in Nat /\ DOMAIN ran' = TaskId /\ k \in Kind /\ a <= task[t].attempt /\ TablesStep
  BY <1>1, PartsOf, TablesUnchanged DEF Domains, Live, ExecOK
<1>6. CASE found # NoValue
  <2> DEFINE z == Cache(x, n, found)
  <2>1. Returns(t, a, z, found)
    BY <1>6 DEF BeginAwait
  <2>2. WithinCall(t, a, z) /\ z.called = x.called
    BY SMTT(60), <1>2, CacheWithin, CacheFacts
  <2>3. \A m \in DOMAIN z.cache : m \in DOMAIN ckpt[t] /\ z.cache[m] = ckpt[t][m].value
    BY SMTT(60), <1>2, <1>3, <1>4, <1>6, CacheFacts
  <2> HIDE DEF z, x, n, found, k
  <2>4. /\ ExecOK(t, a)' /\ CacheOK(t, a)' /\ WakeOK(t, a)' /\ ReturnedOK(t)'
        /\ \E y : Become(t, a, y)
        /\ DOMAIN returned' = TaskId /\ \A u \in TaskId \ {t} : returned'[u] = returned[u]
    BY <1>1, <1>2, <1>3, <1>5, <1>6, <2>1, <2>2, <2>3, PartsOf, ReturnStep DEF k
  <2> QED BY <1>1, <1>5, <2>4, ExecutionStep
<1>7. CASE found = NoValue /\ x.wake # c.arg
  <2> DEFINE y == [x EXCEPT !.mode = "await"]
  <2>1. Become(t, a, y) /\ returned' = returned
    BY <1>7 DEF BeginAwait
  <2>2. /\ DOMAIN y = Fields /\ y.mode = "await" /\ y.pc = x.pc /\ y.called = x.called /\ y.wake = x.wake
        /\ y.cache = x.cache
    BY <1>2 DEF Fields
  <2> HIDE DEF y, x, n, found, k
  <2>3. WithinCall(t, a, y)
    BY SMTT(120), <1>2, <2>2 DEF WithinCall
  <2>4. exec'[t][a] = y
    BY <2>1, ActStep, PartsOf
  <2>5. ExecOK(t, a)' /\ WakeOK(t, a)'
    BY <1>1, <1>2, <1>5, <1>7, <2>1, <2>2, <2>3, PartsOf, WithinStep DEF Begun, k
  <2>6. CacheOK(t, a)'
    BY <1>1, <1>4, <2>2, <2>4 DEF CacheOK, Computing
  <2>7. DOMAIN returned' = TaskId
    BY <2>1, PartsOf DEF Domains
  <2> QED BY <1>1, <1>5, <2>1, <2>5, <2>6, <2>7, ExecutionStep
<1>8. CASE found = NoValue /\ x.wake = c.arg
  <2>1. CatchTimeout(t, a, x) /\ returned' = returned
    BY <1>8 DEF BeginAwait
  <2>2. DOMAIN returned' = TaskId
    BY <2>1, PartsOf DEF Domains
  <2>3. SUFFICES \E y : Become(t, a, y) /\ ExecOK(t, a)' /\ WakeOK(t, a)' /\ CacheOK(t, a)'
    BY <1>1, <1>5, <2>1, <2>2, ExecutionStep
  <2>4. /\ e.pc \in 1 .. Len(Handler[k]) /\ Len(Handler[k]) \in Nat /\ e.pc \in Nat
    BY <1>2 DEF WithinCall
  <2> HIDE DEF found, n
  <2>5. CASE "continues" \in c.opts
    <3> DEFINE y == [x EXCEPT !.pc = @ + 1, !.wake = None]
    <3>1. Become(t, a, y)
      BY <2>1, <2>5 DEF CatchTimeout
    <3>2. DOMAIN y = Fields /\ y.mode = "run" /\ y.pc = e.pc + 1 /\ y.called = x.called /\ y.cache = x.cache
      BY <1>2 DEF Fields
    <3> HIDE DEF y
    <3>3. ExecOK(t, a)'
      BY <1>1, <2>4, <3>1, <3>2, PassStep
    <3>4. exec'[t][a] = y
      BY <3>1, ActStep, PartsOf
    <3>5. CacheOK(t, a)'
      BY <1>1, <1>4, <3>2, <3>4 DEF CacheOK, Computing
    <3>6. WakeOK(t, a)'
      <4> SUFFICES ASSUME a = task[t].attempt, task[t].state = "running"
                   PROVE  \E i \in 1 .. (y.pc - 1) : /\ "continues" \in Handler[k][i].opts
                                                     /\ Handler[k][i].do = "await"
                                                     /\ Handler[k][i].arg = task[t].wake
        BY SMTT(60), <1>1, <3>4 DEF WakeOK
      <4>1. CASE e.wake = task[t].wake
        <5>1. e.pc \in 1 .. (y.pc - 1)
          BY <2>4, <3>2
        <5> QED BY ZenonT(120), <1>1, <1>2, <1>8, <2>5, <4>1, <5>1
      <4>2. CASE e.wake # task[t].wake
        <5>1. PICK i \in 1 .. (e.pc - 1) : /\ "continues" \in Handler[k][i].opts
                                            /\ Handler[k][i].do = "await"
                                            /\ Handler[k][i].arg = task[t].wake
          BY SMTT(60), <1>1, <2>4, <4>2, PartsOf DEF WakeOK
        <5>2. i \in 1 .. (y.pc - 1)
          BY <2>4, <3>2
        <5> QED BY SMTT(60), <5>1, <5>2
      <4> QED BY <4>1, <4>2
    <3> QED BY <3>1, <3>3, <3>5, <3>6
  <2>6. CASE "continues" \notin c.opts /\ "returns" \in c.opts
    <3> DEFINE y == [x EXCEPT !.pc = Len(Calls(t)) + 1, !.wake = None]
    <3>1. Become(t, a, y)
      BY <2>1, <2>6 DEF CatchTimeout
    <3>2. /\ DOMAIN y = Fields /\ y.mode = "run" /\ y.pc = Len(Calls(t)) + 1
          /\ y.called = x.called /\ y.cache = x.cache
      BY <1>2 DEF Fields
    <3>3. y.pc # e.pc /\ y.pc > Len(Handler[k])
      BY <2>4, <3>2 DEF Calls
    <3> HIDE DEF y
    <3>4. ExecOK(t, a)'
      BY <1>1, <3>1, <3>2, <3>3, PassStep
    <3>5. exec'[t][a] = y
      BY <3>1, ActStep, PartsOf
    <3>6. CacheOK(t, a)' /\ WakeOK(t, a)'
      BY <1>1, <1>4, <3>2, <3>3, <3>5 DEF CacheOK, WakeOK, Computing
    <3> QED BY <3>1, <3>4, <3>6
  <2>7. CASE "continues" \notin c.opts /\ "returns" \notin c.opts
    <3> DEFINE y == [x EXCEPT !.mode = "fail", !.wake = None]
    <3>1. Become(t, a, y)
      BY <2>1, <2>7 DEF CatchTimeout
    <3>2. DOMAIN y = Fields /\ y.mode = "fail" /\ y.pc = e.pc /\ y.called = x.called /\ y.cache = x.cache
      BY <1>2 DEF Fields
    <3> HIDE DEF y
    <3>3. ExecOK(t, a)'
      BY <1>1, <3>1, <3>2, PassStep
    <3>4. exec'[t][a] = y
      BY <3>1, ActStep, PartsOf
    <3>5. CacheOK(t, a)' /\ WakeOK(t, a)'
      BY <1>1, <1>4, <3>2, <3>4 DEF CacheOK, WakeOK, Computing
    <3> QED BY <3>1, <3>3, <3>5
  <2> QED BY <2>5, <2>6, <2>7
<1> QED BY <1>6, <1>7, <1>8

-----------------------------------------------------------------------------
(* The steps of an execution on the tables.                                *)

(* An execution that is not refused is that of the current attempt.        *)
LEMMA NotRefused ==
  ASSUME ReplayInv, NEW t \in TaskId, NEW a \in Attempt, Live(t, a), RunState(t, a) \notin {"failed", "cancelled"}
  PROVE  a = task[t].attempt /\ task[t].state = "running" /\ task[t].kind \in Kind
<1>1. task[t].kind \in Kind /\ a <= task[t].attempt
  BY PartsOf DEF ExecOK, Live
<1>2. a \in Nat /\ task[t].attempt \in Nat
  BY <1>1, PartsOf, AttemptType DEF Attempt
<1>3. a = task[t].attempt /\ RunState(t, a) = task[t].state
  BY <1>1, <1>2 DEF RunState
<1> QED BY SMTT(60), <1>1, <1>3, PartsOf DEF CurrentOK

(* The acting execution is that of the current attempt: the others of its  *)
(* task and the executions of other tasks notice nothing.                  *)
LEMMA CurrentStep ==
  ASSUME ReplayInv, NEW t \in TaskId, NEW a \in Attempt, NEW y, Become(t, a, y), TablesStep,
         a = task[t].attempt, task'[t].state = "running" => task'[t].attempt = a,
         \A u \in TaskId \ {t} : task'[u] = task[u] /\ ckpt'[u] = ckpt[u],
         faults' = faults, ran' = ran, DOMAIN returned' = TaskId,
         \A u \in TaskId : returned'[u] = returned[u] \/ ReturnedOK(u)',
         CurrentOK(t)', ExecOK(t, a)', CacheOK(t, a)', WakeOK(t, a)'
  PROVE  ReplayInv'
<1>1. /\ exec'[t][a] = y /\ DOMAIN exec' = TaskId
      /\ \A u \in TaskId : DOMAIN exec'[u] = Attempt
      /\ \A u \in TaskId, b \in Attempt : u # t \/ b # a => exec'[u][b] = exec[u][b]
  BY ActStep, PartsOf
<1>2. ASSUME NEW u \in TaskId PROVE CurrentOK(u)'
  <2>1. CASE u = t
    BY <2>1
  <2>2. CASE u # t
    <3>1. task[u].kind \in Kind => task[u].attempt \in Attempt
      BY AttemptType, PartsOf
    <3> QED BY <1>1, <2>2, <3>1, PartsOf DEF CurrentOK, Live
  <2> QED BY <2>1, <2>2
<1>3. ASSUME NEW u \in TaskId, NEW b \in Attempt, u # t \/ b # a PROVE Undisturbed(u, b)
  BY <1>1, <1>3 DEF Undisturbed
<1>4. faults' \in Nat /\ DOMAIN ran' = TaskId
  BY PartsOf DEF Domains
<1> QED BY <1>1, <1>2, <1>3, <1>4, StepPreserves

(* The current execution ends, and its task's row is another.              *)
LEMMA LastStep ==
  ASSUME ReplayInv, NEW t \in TaskId, NEW a \in Attempt, Quit(t, a), task[t].kind \in Kind,
         a = task[t].attempt, NEW row, RowAfter(t, row), SetTask(t, row), row.state # "running",
         row.wait = NoName \/ WaitOK(t)',
         UNCHANGED <<ckpt, event, faults, returned, ran>>
  PROVE  ReplayInv'
<1>1. TablesStep
  BY PartsOf, RowStep
<1>2. ExecOK(t, a)' /\ CacheOK(t, a)' /\ WakeOK(t, a)' /\ Become(t, a, Idle) /\ exec'[t][a] = Idle
  BY PartsOf, QuitStep
<1>3. task'[t] = row /\ \A u \in TaskId \ {t} : task'[u] = task[u] /\ ckpt'[u] = ckpt[u]
  BY PartsOf DEF SetTask, Domains
<1>4. CurrentOK(t)'
  <2>1. row.attempt \in Attempt
    BY ConstantAssumption DEF RowAfter, Attempt
  <2>2. exec'[t][row.attempt].mode = "idle"
    <3>1. CASE row.attempt = a
      BY SMTT(60), <1>2, <3>1 DEF Idle
    <3>2. CASE row.attempt # a
      <4>1. exec'[t][row.attempt] = exec[t][row.attempt]
        BY <1>2, <2>1, <3>2, PartsOf, ActStep
      <4>2. ~(row.attempt <= task[t].attempt)
        BY <2>1, <3>2 DEF RowAfter, Attempt
      <4> QED BY <2>1, <4>1, <4>2, PartsOf DEF ExecOK
    <3> QED BY <3>1, <3>2
  <2> QED BY <1>3, <2>2 DEF CurrentOK, Live
<1>5. DOMAIN returned' = TaskId
  BY PartsOf DEF Domains
<1> QED BY <1>1, <1>2, <1>3, <1>4, <1>5, CurrentStep

LEMMA PersistCheckpointPreserves ==
  ASSUME ReplayInv, NEW t \in TaskId, NEW a \in Attempt, PersistCheckpoint(t, a)
  PROVE  ReplayInv'
<1> DEFINE x == exec[t][a]
           k == task[t].kind
           n == CurrentName(x)
           z == Cache(x, n, x.value)
<1>1. /\ x.mode = "persist"
      /\ task' = task /\ event' = event /\ faults' = faults /\ ran' = ran
  BY DEF PersistCheckpoint
<1>2. /\ WithinCall(t, a, x) /\ n = NameAt(k, Len(x.called)) /\ CallOf(t, a) = CallOn(k, Len(x.called))
      /\ CallOf(t, a) = Handler[k][x.pc] /\ k \in Kind /\ Handler[k] # <<>> /\ DOMAIN x = Fields
      /\ Len(x.called) \in Positive
  BY <1>1, PartsOf, GoesOnWithin, InCallFacts DEF Begun
<1>3. Live(t, a) /\ faults' \in Nat /\ DOMAIN ran' = TaskId
  BY <1>1, PartsOf DEF Live, Domains
<1>4. CASE Refused(t, a)
  <2>1. Quit(t, a) /\ UNCHANGED tables /\ returned' = returned
    BY <1>1, <1>4 DEF PersistCheckpoint, tables
  <2>2. DOMAIN returned' = TaskId
    BY <2>1, PartsOf DEF Domains
  <2> QED BY <1>1, <1>3, <2>1, <2>2, PartsOf, QuitStep, ExecutionStep
<1>5. CASE ~Refused(t, a)
  <2>1. a = task[t].attempt /\ task[t].state = "running"
    <3>1. RunState(t, a) = "cancelled" => task[t].state = "cancelled"
      BY DEF RunState
    <3> QED BY <1>3, <1>5, <3>1, NotRefused DEF Refused
  <2>2. n \notin DOMAIN ckpt[t]
    <3> SUFFICES ASSUME n \in DOMAIN ckpt[t] PROVE FALSE
      OBVIOUS
    <3>1. ckpt[t][n].owner \in Nat /\ ckpt[t][n].owner <= task[t].attempt
      BY SMTT(60), PartsOf DEF StoreOK
    <3>2. ckpt[t][n].owner > a
      BY <1>1, <1>2, PartsOf DEF CacheOK, CurrentNameOf, Computing
    <3> QED BY <2>1, <3>1, <3>2 DEF Attempt
  <2>3. WriteCheckpoint(t, a, n, x.value)
    BY SMTT(60), <1>5, <2>2 DEF PersistCheckpoint, MayWrite
  <2>4. Holds(k, Len(x.called), x.value)
    <3>1. x.value.call = Len(x.called)
      BY <1>1, PartsOf DEF CacheOK, Position
    <3>2. x.value # NoValue
      BY SMTT(60), <1>2, <3>1 DEF NoValue, Value, Positive
    <3>3. Handler[k][x.pc].do # "await"
      BY <1>1, PartsOf DEF ExecOK
    <3> QED BY <1>2, <3>1, <3>2, <3>3 DEF Holds
  <2>5. /\ TablesStep /\ n \in DOMAIN ckpt'[t] /\ ckpt'[t][n].value = x.value
        /\ \A u \in TaskId \ {t} : ckpt'[u] = ckpt[u]
    <3> HIDE DEF n, z
    <3>1. WriteCheckpoint(t, task[t].attempt, NameAt(k, Len(x.called)), x.value)
      BY <1>2, <2>1, <2>3
    <3>2. NameAt(k, Len(x.called)) \notin DOMAIN ckpt[t] /\ UNCHANGED <<task, event>> /\ TablesOK
      BY <1>1, <1>2, <2>2, PartsOf
    <3>3. /\ Len(x.called) \in Positive /\ task[t].kind \in Kind /\ Handler[task[t].kind] # <<>>
          /\ Holds(task[t].kind, Len(x.called), x.value)
      BY <1>2, <2>4
    <3>4. /\ TablesStep /\ \A u \in TaskId \ {t} : ckpt'[u] = ckpt[u]
          /\ NameAt(task[t].kind, Len(x.called)) \in DOMAIN ckpt'[t]
          /\ ckpt'[t][NameAt(task[t].kind, Len(x.called))] = [value |-> x.value, owner |-> task[t].attempt]
      BY SMTT(60), <3>1, <3>2, <3>3, WriteStep
    <3> QED BY SMTT(60), <1>2, <3>4
  <2>6. /\ WithinCall(t, a, z) /\ z.called = x.called /\ z.pc = x.pc /\ DOMAIN z = Fields
        /\ z.value = x.value
        /\ \A m \in DOMAIN z.cache : m \in DOMAIN ckpt'[t] /\ z.cache[m] = ckpt'[t][m].value
    <3>1. \A m \in DOMAIN x.cache : m \in DOMAIN ckpt'[t] /\ x.cache[m] = ckpt'[t][m].value
      BY <1>1, <2>5, PartsOf DEF CacheOK, TablesStep, Kept
    <3> QED BY <1>2, <2>5, <3>1, CacheWithin, CacheFacts
  <2>7. CurrentOK(t)'
    BY <1>1, <2>1 DEF CurrentOK
  <2>8. CASE CallOf(t, a).do = "sleep"
    <3> DEFINE y == [z EXCEPT !.mode = "sleep"]
    <3>1. Become(t, a, y) /\ returned' = returned
      BY <1>5, <2>8 DEF PersistCheckpoint
    <3> HIDE DEF z
    <3>2. /\ DOMAIN y = Fields /\ y.mode = "sleep" /\ y.pc = z.pc /\ y.called = z.called
          /\ y.wake = z.wake /\ y.cache = z.cache /\ y.value = z.value
      BY <2>6 DEF Fields
    <3> HIDE DEF y, n, k
    <3>3. WithinCall(t, a, y)
      BY SMTT(60), <2>6, <3>2 DEF WithinCall
    <3>4. exec'[t][a] = y
      BY <3>1, ActStep, PartsOf
    <3>5. ExecOK(t, a)' /\ WakeOK(t, a)'
      <4>1. Handler[task[t].kind][y.pc].do # "await" /\ y.mode \in Begun
        BY <1>2, <2>6, <2>8, <3>2 DEF k, Begun
      <4>2. a <= task'[t].attempt /\ task' = task /\ x.mode \notin {"idle", "fail"}
        BY SMTT(60), <1>1, <2>1 DEF Attempt
      <4> HIDE DEF x
      <4> QED BY SMTT(60), <3>1, <3>2, <3>3, <4>1, <4>2, PartsOf, WithinStep DEF x
    <3>6. CacheOK(t, a)'
      BY <1>1, <1>2, <2>5, <2>6, <3>2, <3>4 DEF CacheOK, CurrentNameOf, Computing, k
    <3>7. DOMAIN returned' = TaskId
      BY <3>1, PartsOf DEF Domains
    <3> QED BY <1>1, <2>1, <2>5, <2>7, <3>1, <3>5, <3>6, <3>7, CurrentStep
  <2>9. CASE CallOf(t, a).do # "sleep"
    <3>1. Returns(t, a, z, x.value)
      BY SMTT(60), <1>5, <2>9 DEF PersistCheckpoint
    <3> HIDE DEF z, n, k
    <3>2. /\ ExecOK(t, a)' /\ CacheOK(t, a)' /\ WakeOK(t, a)' /\ ReturnedOK(t)'
          /\ \E y : Become(t, a, y)
          /\ DOMAIN returned' = TaskId /\ \A u \in TaskId \ {t} : returned'[u] = returned[u]
      BY <1>1, <1>2, <2>5, <2>6, <3>1, PartsOf, ReturnStep DEF k
    <3> QED BY <1>1, <2>1, <2>5, <2>7, <3>2, CurrentStep
  <2> QED BY <2>8, <2>9
<1> QED BY <1>4, <1>5

LEMMA SleepUntilPreserves ==
  ASSUME ReplayInv, NEW t \in TaskId, NEW a \in Attempt, SleepUntil(t, a)
  PROVE  ReplayInv'
<1> DEFINE x == exec[t][a]
           k == task[t].kind
           n == CurrentNameOf(t, a)
<1>1. x.mode = "sleep" /\ ckpt' = ckpt /\ event' = event /\ faults' = faults /\ ran' = ran
  BY SMTT(60) DEF SleepUntil
<1>2. /\ WithinCall(t, a, x) /\ DOMAIN x = Fields /\ n = NameAt(k, Len(x.called))
      /\ n \in DOMAIN ckpt[t] /\ x.value = ckpt[t][n].value
      /\ \A m \in DOMAIN x.cache : m \in DOMAIN ckpt[t] /\ x.cache[m] = ckpt[t][m].value
  BY SMTT(60), <1>1, PartsOf, GoesOnWithin DEF Begun, CacheOK, CurrentNameOf, WithinCall
<1>3. Live(t, a) /\ faults' \in Nat /\ DOMAIN ran' = TaskId /\ k \in Kind /\ a <= task[t].attempt
  BY <1>1, PartsOf DEF Live, Domains, ExecOK
<1>4. CASE <<t, x.pc>> \in past
  <2>1. Returns(t, a, x, x.value) /\ task' = task /\ UNCHANGED tables
    BY <1>1, <1>4 DEF SleepUntil, tables
  <2>2. TablesStep
    BY <2>1, PartsOf, TablesUnchanged
  <2> HIDE DEF n
  <2>3. x.value = ckpt'[t][NameAt(k, Len(x.called))].value /\ NameAt(k, Len(x.called)) \in DOMAIN ckpt'[t]
    BY <1>1, <1>2
  <2>4. \A m \in DOMAIN x.cache : m \in DOMAIN ckpt'[t] /\ x.cache[m] = ckpt'[t][m].value
    BY <1>1, <1>2
  <2>5. x.mode \notin {"idle", "fail"}
    BY SMTT(60), <1>1
  <2>6. /\ ExecOK(t, a)' /\ CacheOK(t, a)' /\ WakeOK(t, a)' /\ ReturnedOK(t)'
        /\ \E y : Become(t, a, y)
        /\ DOMAIN returned' = TaskId /\ \A u \in TaskId \ {t} : returned'[u] = returned[u]
    BY <1>2, <2>1, <2>2, <2>3, <2>4, <2>5, PartsOf, ReturnStep
  <2> QED BY <1>1, <1>3, <2>1, <2>6, ExecutionStep
<1>5. CASE <<t, x.pc>> \notin past /\ RunState(t, a) = "running"
  <2> DEFINE row == [task[t] EXCEPT !.state = "sleeping", !.due = "later", !.wake = None]
  <2>1. Quit(t, a) /\ SetTask(t, row) /\ returned' = returned
    BY <1>5 DEF SleepUntil
  <2>2. a = task[t].attempt /\ task[t].state = "running"
    BY <1>3, <1>5, NotRefused
  <2>3. RowAfter(t, row) /\ row.state # "running" /\ row.wait = NoName
    BY <1>3, <2>2, PartsOf, AttemptType DEF RowOK, WaitOK, RowAfter, Attempt
  <2> HIDE DEF row
  <2> QED BY <1>1, <1>3, <2>1, <2>2, <2>3, LastStep
<1>6. CASE <<t, x.pc>> \notin past /\ RunState(t, a) # "running"
  <2> DEFINE y == [x EXCEPT !.mode = "fail"]
  <2>1. Become(t, a, y) /\ task' = task /\ UNCHANGED tables /\ returned' = returned
    BY <1>1, <1>6 DEF SleepUntil, tables
  <2>2. DOMAIN y = Fields /\ y.mode = "fail" /\ y.pc = x.pc /\ y.called = x.called /\ y.cache = x.cache
    BY <1>2 DEF Fields
  <2> HIDE DEF y
  <2>3. exec'[t][a] = y
    BY SMTT(120), <2>1, ActStep, PartsOf
  <2>4. ExecOK(t, a)' /\ WakeOK(t, a)' /\ CacheOK(t, a)'
    BY SMTT(60), <1>1, <2>1, <2>2, <2>3, PartsOf DEF ExecOK, WakeOK, CacheOK, Computing
  <2>5. DOMAIN returned' = TaskId
    BY <2>1, PartsOf DEF Domains
  <2> QED BY <1>1, <1>3, <2>1, <2>4, <2>5, ExecutionStep
<1> QED BY <1>4, <1>5, <1>6

(* await_event by the current attempt is never answered by a timeout: who  *)
(* has seen it, in whichever execution, does not ask again.                *)
LEMMA NotAnsweredByTimeout ==
  ASSUME ReplayInv, NEW t \in TaskId, NEW a \in Attempt,
         exec[t][a].mode = "await", a = task[t].attempt, task[t].state = "running"
  PROVE  task[t].wake # CallOf(t, a).arg
<1> DEFINE x == exec[t][a]
           calls == Handler[task[t].kind]
<1>1. /\ task[t].kind \in Kind /\ x.pc \in 1 .. Len(calls) /\ Len(calls) \in Nat
      /\ CallOf(t, a) = calls[x.pc] /\ calls[x.pc].do = "await"
  <2>1. ExecOK(t, a) /\ x.mode \in Begun
    BY PartsOf DEF Begun
  <2>2. calls[x.pc].do = "await"
    BY SMTT(60), <2>1 DEF ExecOK
  <2> QED BY SMTT(60), <2>1, <2>2, InCallFacts
<1>2. \/ x.wake = task[t].wake /\ x.wake # calls[x.pc].arg
      \/ \E i \in 1 .. (x.pc - 1) :
           "continues" \in calls[i].opts /\ calls[i].do = "await" /\ calls[i].arg = task[t].wake
  <2>1. WakeOK(t, a) /\ x.mode \notin {"idle", "fail"} /\ ~(x.pc > Len(calls))
    BY SMTT(60), <1>1, PartsOf
  <2> QED BY ZenonT(60), <2>1 DEF WakeOK
<1>3. ASSUME NEW i \in 1 .. (x.pc - 1), "continues" \in calls[i].opts, calls[i].do = "await",
             calls[i].arg = task[t].wake
      PROVE  task[t].wake # calls[x.pc].arg
  <2>1. DOMAIN calls = 1 .. Len(calls)
    BY SMTT(60), <1>1, HandlerCalls
  <2>2. i \in DOMAIN calls /\ x.pc \in DOMAIN calls /\ i < x.pc
    BY SMTT(120), <1>1, <2>1
  <2>3. ~WaitsAgain(calls[i], calls[x.pc])
    BY <1>1, <2>2, HandlerAssumption
  <2> QED BY SMTT(60), <1>1, <1>3, <2>3 DEF WaitsAgain
<1> QED BY ZenonT(60), <1>1, <1>2, <1>3

LEMMA AwaitPreserves ==
  ASSUME ReplayInv, NEW t \in TaskId, NEW a \in Attempt, Await(t, a)
  PROVE  ReplayInv'
<1> DEFINE x == exec[t][a]
           k == task[t].kind
           c == CallOf(t, a)
           n == CurrentName(x)
           p == Len(x.called)
<1>1. x.mode = "await" /\ event' = event /\ faults' = faults /\ ran' = ran
  BY DEF Await
<1>2. /\ WithinCall(t, a, x) /\ n = NameAt(k, p) /\ c = CallOn(k, p)
      /\ c = Handler[k][x.pc] /\ k \in Kind /\ Handler[k] # <<>> /\ DOMAIN x = Fields /\ p \in Positive
  BY <1>1, PartsOf, GoesOnWithin, InCallFacts DEF Begun
<1>3. Live(t, a) /\ faults' \in Nat /\ DOMAIN ran' = TaskId /\ k \in Kind /\ a <= task[t].attempt
  BY SMTT(60), <1>1, PartsOf DEF Live, Domains, ExecOK
<1>4. c.do = "await" /\ c.arg \in Event
  <2>1. c.do = "await"
    BY SMTT(60), <1>1, <1>2, PartsOf DEF ExecOK
  <2>2. CallOn(k, p).do = "await" => CallOn(k, p).arg \in Event
    BY <1>2, CallOnIsCall
  <2> QED BY SMTT(60), <1>2, <2>1, <2>2
<1>5. \A m \in DOMAIN x.cache : m \in DOMAIN ckpt[t] /\ x.cache[m] = ckpt[t][m].value
  BY <1>1, PartsOf DEF CacheOK
<1>6. CASE task[t].state = "cancelled"
  <2>1. Quit(t, a) /\ UNCHANGED tables /\ returned' = returned
    BY <1>1, <1>6 DEF Await, tables
  <2>2. DOMAIN returned' = TaskId
    BY <2>1, PartsOf DEF Domains
  <2> QED BY <1>1, <1>3, <2>1, <2>2, PartsOf, QuitStep, ExecutionStep
<1>7. CASE task[t].state # "cancelled" /\ RunState(t, a) # "running"
  <2> DEFINE y == [x EXCEPT !.mode = "fail"]
  <2>1. Become(t, a, y) /\ task' = task /\ UNCHANGED tables /\ returned' = returned
    BY <1>1, <1>7 DEF Await, tables
  <2>2. DOMAIN y = Fields /\ y.mode = "fail" /\ y.pc = x.pc /\ y.called = x.called /\ y.cache = x.cache
    BY <1>2 DEF Fields
  <2> HIDE DEF y
  <2>3. exec'[t][a] = y
    BY <2>1, ActStep, PartsOf
  <2>4. ExecOK(t, a)' /\ WakeOK(t, a)' /\ CacheOK(t, a)'
    <3> HIDE DEF x, c, n, p
    <3>1. ExecOK(t, a)'
      BY <1>1, <2>1, <2>2, <2>3, PartsOf DEF ExecOK, x
    <3>2. CacheOK(t, a)'
      BY <1>5, <2>1, <2>2, <2>3 DEF CacheOK, Computing, tables
    <3> QED BY SMTT(60), <2>2, <2>3, <3>1, <3>2 DEF WakeOK
  <2>5. DOMAIN returned' = TaskId
    BY <2>1, PartsOf DEF Domains
  <2> QED BY <1>1, <1>3, <2>1, <2>4, <2>5, ExecutionStep
<1>8. CASE task[t].state # "cancelled" /\ RunState(t, a) = "running"
  <2>1. a = task[t].attempt /\ task[t].state = "running"
    BY <1>3, <1>8, NotRefused
  <2>2. task[t].wake # c.arg
    BY <1>1, <2>1, NotAnsweredByTimeout
  <2>3. CASE event[c.arg] # NoValue
    <3> DEFINE v == event[c.arg]
               z == Cache(x, n, v)
    <3>1. WriteCheckpoint(t, a, n, v) /\ task' = task /\ Returns(t, a, z, v)
      BY SMTT(60), <1>8, <2>3 DEF Await
    <3>2. Holds(k, p, v)
      BY SMTT(60), <1>2, <1>4, <2>3 DEF Holds
    <3>3. n \in DOMAIN ckpt[t] => ckpt[t][n].value = v
      <4> SUFFICES ASSUME n \in DOMAIN ckpt[t] PROVE ckpt[t][n].value = v
        OBVIOUS
      <4>1. PICK q \in Positive : n = NameAt(k, q) /\ Holds(k, q, ckpt[t][n].value)
        BY PartsOf DEF StoreOK
      <4>2. q = p
        BY <1>2, <4>1, NameInjective
      <4> QED BY <1>2, <1>4, <4>1, <4>2 DEF Holds
    <3>4. WriteCheckpoint(t, task[t].attempt, NameAt(k, p), v) /\ UNCHANGED <<task, event>> /\ TablesOK
      BY <1>1, <1>2, <2>1, <3>1, PartsOf
    <3> HIDE DEF v, n, p, k
    <3>5. /\ TablesStep /\ \A u \in TaskId \ {t} : ckpt'[u] = ckpt[u]
          /\ NameAt(k, p) \in DOMAIN ckpt'[t]
          /\ ckpt'[t][NameAt(k, p)] = [value |-> v, owner |-> task[t].attempt]
      BY SMTT(60), <1>2, <3>2, <3>3, <3>4, WriteStep DEF k
    <3>6. /\ WithinCall(t, a, z) /\ Len(z.called) = p
          /\ \A m \in DOMAIN z.cache : m \in DOMAIN ckpt'[t] /\ z.cache[m] = ckpt'[t][m].value
      <4>1. \A m \in DOMAIN x.cache : m \in DOMAIN ckpt'[t] /\ x.cache[m] = ckpt'[t][m].value
        BY <1>5, <3>5 DEF TablesStep, Kept
      <4> QED BY <1>2, <3>5, <4>1, CacheWithin, CacheFacts DEF p
    <3>7. v = ckpt'[t][NameAt(k, Len(z.called))].value /\ NameAt(k, Len(z.called)) \in DOMAIN ckpt'[t]
      BY <3>5, <3>6
    <3> HIDE DEF z
    <3>8. /\ ExecOK(t, a)' /\ CacheOK(t, a)' /\ WakeOK(t, a)' /\ ReturnedOK(t)'
          /\ \E y : Become(t, a, y)
          /\ DOMAIN returned' = TaskId /\ \A u \in TaskId \ {t} : returned'[u] = returned[u]
      BY <1>1, <3>1, <3>5, <3>6, <3>7, PartsOf, ReturnStep DEF k
    <3>9. CurrentOK(t)'
      BY <2>1, <3>1 DEF CurrentOK
    <3> QED BY <1>1, <2>1, <3>1, <3>5, <3>8, <3>9, CurrentStep
  <2>4. CASE event[c.arg] = NoValue
    <3> DEFINE row == Suspended(t, n)
    <3>1. Quit(t, a) /\ SetTask(t, row) /\ ckpt' = ckpt /\ returned' = returned
      BY <1>8, <2>2, <2>4 DEF Await
    <3>2. /\ RowAfter(t, row) /\ row.state = "sleeping" /\ row.wait = n /\ row.wake = c.arg
      BY <1>4, <2>1, <1>3, PartsOf, AttemptType DEF Suspended, RowOK, RowAfter, Attempt
    <3> HIDE DEF row
    <3>3. task'[t] = row
      BY SMTT(60), <3>1, PartsOf DEF SetTask, Domains
    <3>4. WaitOK(t)'
      BY ZenonT(60), <1>2, <1>4, <3>2, <3>3 DEF WaitOK, RowAfter
    <3> QED BY <1>1, <1>3, <2>1, <3>1, <3>2, <3>4, LastStep
  <2> QED BY <2>3, <2>4
<1> QED BY <1>6, <1>7, <1>8

-----------------------------------------------------------------------------
(* The steps that several tasks notice: a spawn and an event.              *)

(* What spawn_task and emit_event do to a task: nothing, or they create    *)
(* it, or they touch its row and answer its wait while it sleeps.          *)
Calm(u) ==
  \/ task'[u] = task[u] /\ ckpt'[u] = ckpt[u]
  \/ task[u].kind = None /\ task'[u].state = "pending" /\ ckpt'[u] = ckpt[u]
  \/ /\ task'[u].attempt = task[u].attempt
     /\ task[u].state # "sleeping" => /\ ckpt'[u] = ckpt[u] /\ task'[u].state = task[u].state
                                      /\ task'[u].wake = task[u].wake
     /\ task[u].state = "sleeping" => task'[u].state \in {"pending", "sleeping"}

LEMMA CalmStep ==
  ASSUME ReplayInv, NEW u \in TaskId, Calm(u), TablesStep
  PROVE  /\ \A b \in Attempt : exec'[u][b] = exec[u][b] => Undisturbed(u, b)
         /\ (\A b \in Attempt : exec'[u][b].mode # "idle" => exec[u][b].mode # "idle") => CurrentOK(u)'
         /\ \A b \in Attempt :
              exec[u][b].mode # "idle" =>
                /\ b = task[u].attempt => ckpt'[u] = ckpt[u]
                /\ b = task'[u].attempt /\ task'[u].state = "running" =>
                     task[u].attempt = b /\ task[u].state = "running" /\ task'[u].wake = task[u].wake
<1>1. ASSUME NEW b \in Attempt, exec[u][b].mode # "idle"
      PROVE  /\ task[u].kind \in Kind /\ task[u].kind # None
             /\ b = task[u].attempt => task[u].state # "sleeping"
  <2>1. task[u].kind \in Kind
    BY <1>1, PartsOf DEF ExecOK
  <2> QED BY <1>1, <2>1, PartsOf, ConstantAssumption DEF CurrentOK, Live
<1>2. ASSUME NEW b \in Attempt, exec[u][b].mode # "idle"
      PROVE  /\ b = task[u].attempt => ckpt'[u] = ckpt[u]
             /\ b = task'[u].attempt /\ task'[u].state = "running" =>
                  task[u].attempt = b /\ task[u].state = "running" /\ task'[u].wake = task[u].wake
  BY <1>1, <1>2 DEF Calm
<1>3. ASSUME NEW b \in Attempt, exec'[u][b] = exec[u][b] PROVE Undisturbed(u, b)
  BY <1>2, <1>3 DEF Undisturbed, Computing
<1>4. ASSUME \A b \in Attempt : exec'[u][b].mode # "idle" => exec[u][b].mode # "idle"
      PROVE  CurrentOK(u)'
  <2> SUFFICES ASSUME task'[u].kind \in Kind, exec'[u][task'[u].attempt].mode # "idle"
               PROVE  task'[u].state \in {"running", "failed", "cancelled"}
    BY DEF CurrentOK, Live
  <2>1. task'[u].attempt \in Attempt
    BY ConstantAssumption DEF TablesStep, TablesOK, RowOK, Attempt
  <2>2. exec[u][task'[u].attempt].mode # "idle"
    BY <1>4, <2>1
  <2>3. task[u].kind \in Kind /\ task[u].kind # None
    BY <1>1, <2>1, <2>2
  <2>4. task'[u].attempt = task[u].attempt
    BY <2>3 DEF Calm
  <2>5. task[u].state \in {"running", "failed", "cancelled"}
    BY <2>1, <2>2, <2>3, <2>4, PartsOf DEF CurrentOK, Live
  <2> QED BY <2>3, <2>5 DEF Calm
<1> QED BY <1>2, <1>3, <1>4

LEMMA EmitCalm ==
  ASSUME ReplayInv, NEW e \in Event, NEW b, EmitEvent(e, Value(0, e, b, FALSE))
  PROVE  TablesStep /\ \A u \in TaskId : Calm(u)
<1>1. TablesOK
  BY DEF ReplayInv, Domains, TablesOK
<1> QED BY <1>1, EmitStep DEF Calm
LEMMA SpawnCalm ==
  ASSUME ReplayInv, NEW k \in Kind, SpawnTask(k)
  PROVE  TablesStep /\ \A u \in TaskId : Calm(u)
<1>1. TablesOK
  BY DEF ReplayInv, Domains, TablesOK
<1> QED BY <1>1, SpawnStep DEF Calm

LEMMA RunBodyPreserves ==
  ASSUME ReplayInv, NEW t \in TaskId, NEW a \in Attempt, RunBody(t, a)
  PROVE  ReplayInv'
<1> DEFINE x == exec[t][a]
           k == task[t].kind
           c == CallOf(t, a)
           n == CurrentName(x)
<1>1. /\ x.mode = "body" /\ faults' = faults /\ returned' = returned
      /\ ran' = [ran EXCEPT ![t] = @ \union {<<n, a>>}]
  BY DEF RunBody
<1>2. /\ WithinCall(t, a, x) /\ n = CurrentNameOf(t, a) /\ c = Handler[k][x.pc] /\ k \in Kind
      /\ DOMAIN x = Fields /\ x.pc \in 1 .. Len(Handler[k])
  BY SMTT(60), <1>1, PartsOf, GoesOnWithin, InCallFacts DEF Begun, CurrentNameOf
<1>3. k \in Kind /\ a <= task[t].attempt /\ task[t].attempt \in Nat /\ a \in Nat
  BY <1>1, PartsOf, AttemptType DEF ExecOK, Attempt
<1>4. TablesStep /\ \A u \in TaskId : Calm(u)
  <2>1. x.pc \in DOMAIN Handler[k]
    BY SMTT(60), <1>2, HandlerCalls
  <2>2. c.body = "spawn" => c.arg \in Kind
    BY SMTT(60), <1>2, <2>1, HandlerAssumption
  <2>3. c.body = "emit" => c.arg \in Event
    BY <1>2, <2>1, HandlerAssumption
  <2>4. CASE c.body = "spawn"
    BY <2>2, <2>4, SpawnCalm DEF RunBody
  <2>5. CASE c.body = "emit"
    BY <2>3, <2>5, EmitCalm DEF RunBody
  <2>6. CASE c.body \notin {"spawn", "emit"}
    <3>1. UNCHANGED tables
      <4>1. CASE c.body = "result"
        BY <4>1 DEF RunBody
      <4>2. CASE c.body # "result"
        BY <2>6, <4>2 DEF RunBody
      <4> QED BY <4>1, <4>2
    <3> QED BY <3>1, PartsOf, TablesUnchanged DEF Calm, tables
  <2> QED BY <2>4, <2>5, <2>6
<1>5. Kept(t) /\ RowOK(t)' /\ StoreOK(t)'
  BY <1>4 DEF TablesStep, TablesOK
<1>6. task'[t].kind = k /\ task[t].attempt <= task'[t].attempt /\ task'[t].attempt \in Nat
  <2>1. task'[t].kind = k /\ task[t].attempt <= task'[t].attempt
    BY <1>3, <1>5 DEF Kept
  <2> QED BY <1>3, <1>5, <2>1, ConstantAssumption DEF RowOK, Attempt
<1>7. PICK b : Become(t, a, [x EXCEPT !.mode = "persist", !.value = Value(Position(x), None, a, b)])
  BY DEF RunBody
<1> DEFINE v == Value(Position(x), None, a, b)
           y == [x EXCEPT !.mode = "persist", !.value = v]
<1>8. v.call = Len(x.called)
  BY DEF Value, Position
<1> HIDE DEF v
<1>9. /\ DOMAIN y = Fields /\ y.mode = "persist" /\ y.pc = x.pc /\ y.called = x.called /\ y.wake = x.wake
      /\ y.cache = x.cache /\ y.value = v
  BY <1>2 DEF Fields
<1>10. Become(t, a, y)
  BY <1>7 DEF v
<1> HIDE DEF y
<1>11. /\ exec'[t][a] = y /\ DOMAIN exec' = TaskId
       /\ \A u \in TaskId : DOMAIN exec'[u] = Attempt
       /\ \A u \in TaskId, d \in Attempt : u # t \/ d # a => exec'[u][d] = exec[u][d]
  BY <1>10, ActStep, PartsOf
<1>12. /\ a = task[t].attempt => DOMAIN ckpt'[t] = DOMAIN ckpt[t]
       /\ a = task'[t].attempt /\ task'[t].state = "running" =>
            task[t].attempt = a /\ task[t].state = "running" /\ task'[t].wake = task[t].wake
  BY SMTT(60), <1>1, <1>4, CalmStep
<1>13. ExecOK(t, a)' /\ WakeOK(t, a)'
  <2>1. WithinCall(t, a, y)
    BY SMTT(60), <1>2, <1>9 DEF WithinCall
  <2>2. Handler[k][y.pc].do # "await"
    BY <1>1, <1>9, PartsOf DEF ExecOK
  <2>3. a <= task'[t].attempt /\ x.mode \notin {"idle", "fail"} /\ y.mode \in Begun
    BY <1>1, <1>3, <1>6, <1>9 DEF Begun
  <2> HIDE DEF x, n
  <2> QED BY <1>6, <1>9, <1>10, <1>12, <2>1, <2>2, <2>3, PartsOf, WithinStep DEF x
<1>14. CurrentNameOf(t, a) \in DOMAIN ckpt'[t] => ckpt'[t][CurrentNameOf(t, a)].owner > a
  BY <1>1, <1>5, <1>12, PartsOf, FreshKept DEF Computing
<1>15. CacheOK(t, a)'
  <2>1. \A m \in DOMAIN x.cache : m \in DOMAIN ckpt'[t] /\ x.cache[m] = ckpt'[t][m].value
    BY <1>1, <1>5, PartsOf DEF CacheOK, Kept
  <2>2. CurrentNameOf(t, a)' = CurrentNameOf(t, a)
    BY <1>6, <1>9, <1>11 DEF CurrentNameOf
  <2> QED BY <1>8, <1>9, <1>11, <1>14, <2>1, <2>2 DEF CacheOK, Computing, Position
<1>16. RanOK(t)' /\ DOMAIN ran' = TaskId /\ \A u \in TaskId \ {t} : ran'[u] = ran[u]
  <2>1. \A r \in ran[t] : RanIn(t, r)'
    BY <1>5, PartsOf, HistoryKept DEF RanOK
  <2>2. PICK m : m = n
    OBVIOUS
  <2>3. m \in DOMAIN ckpt'[t] => ckpt'[t][m].owner > a /\ ckpt'[t][m].owner \in Nat
    BY <1>2, <1>5, <1>14, <2>2 DEF StoreOK
  <2>4. RanIn(t, <<m, a>>)'
    BY <1>3, <1>6, <2>3 DEF RanIn
  <2>5. ran'[t] = ran[t] \union {<<m, a>>} /\ DOMAIN ran' = TaskId /\ \A u \in TaskId \ {t} : ran'[u] = ran[u]
    BY <1>1, <2>2, PartsOf DEF Domains
  <2> QED BY <2>1, <2>4, <2>5 DEF RanOK
<1>17. \A u \in TaskId : CurrentOK(u)'
  <2>1. \A u \in TaskId, d \in Attempt : exec'[u][d].mode # "idle" => exec[u][d].mode # "idle"
    BY <1>1, <1>11
  <2> QED BY <1>4, <2>1, CalmStep
<1>18. \A u \in TaskId, d \in Attempt : u # t \/ d # a => Undisturbed(u, d)
  BY <1>4, <1>11, CalmStep
<1>19. faults' \in Nat /\ DOMAIN returned' = TaskId
  BY <1>1, PartsOf DEF Domains
<1> HIDE DEF x, n, c, k
<1> QED BY <1>1, <1>4, <1>11, <1>13, <1>15, <1>16, <1>17, <1>18, <1>19, StepPreserves

-----------------------------------------------------------------------------
(* The ends of executions, claims, clocks, faults and the outside.         *)

(* An execution ends without a trace in the tables.                        *)
LEMMA EndStep ==
  ASSUME ReplayInv, NEW t \in TaskId, NEW a \in Attempt, Live(t, a), Quit(t, a),
         UNCHANGED tables, faults' \in Nat, returned' = returned, ran' = ran
  PROVE  ReplayInv'
<1>1. DOMAIN returned' = TaskId /\ DOMAIN ran' = TaskId
  BY PartsOf DEF Domains
<1> QED BY <1>1, PartsOf, QuitStep, ExecutionStep

(* A run that has failed becomes the next one, or its task's failure.      *)
LEMMA FailedRow ==
  ASSUME NEW t \in TaskId, RowOK(t), task[t].kind \in Kind
  PROVE  /\ RowAfter(t, Failed(task[t])) /\ Failed(task[t]).wait = NoName
         /\ Failed(task[t]).state = "failed"
              \/ (Failed(task[t]).state = "pending" /\ Failed(task[t]).attempt # task[t].attempt)
<1> DEFINE row == task[t]
<1>1. /\ DOMAIN row = {"kind", "attempt", "state", "due", "wake", "wait"}
      /\ row.attempt \in 1 .. MaxAttempts[row.kind] /\ MaxAttempts[row.kind] \in Nat
      /\ row.due \in {"now", "later", "never"}
  BY ConstantAssumption DEF RowOK, Attempt
<1>2. CASE row.attempt < MaxAttempts[row.kind]
  <2>1. Failed(row) = [row EXCEPT !.attempt = @ + 1, !.state = "pending", !.due = "now",
                                  !.wake = None, !.wait = NoName]
    BY <1>2 DEF Failed
  <2> HIDE DEF row
  <2>2. /\ DOMAIN Failed(row) = {"kind", "attempt", "state", "due", "wake", "wait"}
        /\ Failed(row).kind = row.kind /\ Failed(row).attempt = row.attempt + 1
        /\ Failed(row).state = "pending" /\ Failed(row).due = "now"
        /\ Failed(row).wake = None /\ Failed(row).wait = NoName
    BY <1>1, <2>1
  <2> QED BY <1>1, <1>2, <2>2 DEF RowAfter, row
<1>3. CASE ~(row.attempt < MaxAttempts[row.kind])
  <2>1. Failed(row) = [row EXCEPT !.state = "failed", !.wake = None, !.wait = NoName]
    BY <1>3 DEF Failed
  <2> HIDE DEF row
  <2>2. /\ DOMAIN Failed(row) = {"kind", "attempt", "state", "due", "wake", "wait"}
        /\ Failed(row).kind = row.kind /\ Failed(row).attempt = row.attempt
        /\ Failed(row).state = "failed" /\ Failed(row).due = row.due
        /\ Failed(row).wake = None /\ Failed(row).wait = NoName
    BY <1>1, <2>1
  <2> QED BY <1>1, <2>2 DEF RowAfter, Ended, row
<1> QED BY <1>2, <1>3

LEMMA CompleteRunPreserves ==
  ASSUME ReplayInv, NEW t \in TaskId, NEW a \in Attempt, CompleteRun(t, a)
  PROVE  ReplayInv'
<1>1. /\ Live(t, a) /\ Quit(t, a) /\ ckpt' = ckpt /\ event' = event
      /\ faults' = faults /\ returned' = returned /\ ran' = ran
  BY DEF CompleteRun, Live, history
<1>2. faults' \in Nat
  BY <1>1, PartsOf DEF Domains
<1>3. CASE RunState(t, a) = "running"
  <2> DEFINE row == [task[t] EXCEPT !.state = "completed"]
  <2>1. SetTask(t, row)
    BY <1>3 DEF CompleteRun
  <2>2. a = task[t].attempt /\ task[t].state = "running" /\ task[t].kind \in Kind
    BY <1>1, <1>3, NotRefused
  <2>3. RowAfter(t, row) /\ row.state # "running" /\ row.wait = NoName
    BY <2>2, PartsOf, AttemptType DEF RowOK, WaitOK, RowAfter, Attempt, Ended
  <2> HIDE DEF row
  <2> QED BY <1>1, <2>1, <2>2, <2>3, LastStep
<1>4. CASE RunState(t, a) # "running"
  <2>1. UNCHANGED tables
    BY <1>1, <1>4 DEF CompleteRun, tables
  <2> QED BY <1>1, <1>2, <2>1, EndStep
<1> QED BY <1>3, <1>4

LEMMA FailRunPreserves ==
  ASSUME ReplayInv, NEW t \in TaskId, NEW a \in Attempt, FailRun(t, a)
  PROVE  ReplayInv'
<1>1. /\ Live(t, a) /\ Quit(t, a) /\ ckpt' = ckpt /\ event' = event
      /\ faults' = faults /\ returned' = returned /\ ran' = ran
  BY DEF FailRun, Live, history
<1>2. faults' \in Nat
  BY <1>1, PartsOf DEF Domains
<1>3. CASE RunState(t, a) = "running"
  <2>1. SetTask(t, Failed(task[t]))
    BY <1>3 DEF FailRun
  <2>2. a = task[t].attempt /\ task[t].kind \in Kind
    BY <1>1, <1>3, NotRefused
  <2>3. /\ RowAfter(t, Failed(task[t])) /\ Failed(task[t]).state # "running"
        /\ Failed(task[t]).wait = NoName
    BY <2>2, PartsOf, FailedRow
  <2> QED BY <1>1, <2>1, <2>2, <2>3, LastStep
<1>4. CASE RunState(t, a) # "running"
  <2>1. UNCHANGED tables
    BY <1>1, <1>4 DEF FailRun, tables
  <2> QED BY <1>1, <1>2, <2>1, EndStep
<1> QED BY <1>3, <1>4

LEMMA WorkerLostPreserves ==
  ASSUME ReplayInv, NEW t \in TaskId, NEW a \in Attempt, WorkerLost(t, a)
  PROVE  ReplayInv'
<1>1. /\ Live(t, a) /\ Quit(t, a) /\ UNCHANGED tables /\ returned' = returned /\ ran' = ran
      /\ faults > 0 /\ faults' = faults - 1
  BY DEF WorkerLost, history
<1>2. faults' \in Nat
  BY <1>1, PartsOf DEF Domains
<1> QED BY <1>1, <1>2, EndStep

LEMMA ClaimPreserves ==
  ASSUME ReplayInv, NEW t \in TaskId, Claim(t)
  PROVE  ReplayInv'
<1> DEFINE k == task[t].kind
           row == [task[t] EXCEPT !.state = "running", !.wait = NoName]
           x == Claimed(t)
<1>0. PICK a \in Attempt : a = task[t].attempt
  BY AttemptType DEF Claim, ReplayInv, RowOK
<1>1. /\ task[t].state \in {"pending", "sleeping"} /\ SetTask(t, row) /\ Become(t, a, x)
      /\ ckpt' = ckpt /\ event' = event /\ faults' = faults /\ returned' = returned /\ ran' = ran
  BY <1>0 DEF Claim, history
<1>2. RowOK(t)
  BY DEF ReplayInv
<1>3. k \in Kind
  BY <1>1, <1>2 DEF RowOK
<1>4. a \in 1 .. MaxAttempts[k] /\ a <= a
  BY <1>0, <1>2, <1>3, AttemptType DEF Attempt
<1>5. /\ RowAfter(t, row) /\ row.wait = NoName /\ row.state = "running" /\ row.attempt = a /\ row.kind = k
      /\ row.wake = task[t].wake
  BY <1>0, <1>2, <1>4 DEF RowOK, RowAfter
<1> HIDE DEF row
<1>6. TablesStep
  BY <1>1, <1>3, <1>4, <1>5, PartsOf, RowStep
<1>7. task'[t] = row /\ \A u \in TaskId \ {t} : task'[u] = task[u] /\ ckpt'[u] = ckpt[u]
  BY <1>1, <1>4, PartsOf DEF SetTask, Domains
<1>8. exec'[t][a] = x
  BY <1>1, <1>4, PartsOf, ActStep
<1>9. /\ DOMAIN x = Fields /\ x.mode = "create" /\ x.pc = 1 /\ x.called = <<>> /\ DOMAIN x.cache = {}
      /\ x.wake = task[t].wake
  BY DEF Claimed, Fields
<1> HIDE DEF x
<1>10. ExecOK(t, a)'
  <2>1. x.called \in Seq(Seq(STRING)) /\ Len(x.called) = 0
    BY <1>9
  <2>2. Placed(k, x)
    BY <1>9, <2>1 DEF Placed, Begun
  <2>3. /\ \A i \in 1 .. Len(x.called) : x.called[i] = CallOn(k, i).name
        /\ x.called = <<>> /\ x.mode = "create" /\ x.pc \in Positive /\ DOMAIN x = Fields /\ DOMAIN x.cache = {}
    BY <1>9, <2>1 DEF Positive
  <2> HIDE DEF k
  <2>4. /\ exec'[t][a] = x /\ task'[t].kind = k /\ task'[t].attempt = a /\ a <= a
    BY <1>4, <1>5, <1>7, <1>8
  <2> QED BY <1>3, <2>1, <2>2, <2>3, <2>4 DEF ExecOK
<1>11. CacheOK(t, a)' /\ WakeOK(t, a)'
  BY <1>5, <1>7, <1>8, <1>9 DEF CacheOK, WakeOK, Computing
<1>12. CurrentOK(t)'
  BY <1>5, <1>7 DEF CurrentOK
<1>13. DOMAIN returned' = TaskId
  BY <1>1, <1>4, PartsOf DEF Domains
<1> QED BY <1>0, <1>1, <1>5, <1>6, <1>7, <1>10, <1>11, <1>12, <1>13, CurrentStep

(* A step in which no execution acts.                                      *)
LEMMA QuietStep ==
  ASSUME ReplayInv, TablesStep, exec' = exec, returned' = returned, ran' = ran, faults' \in Nat,
         \A u \in TaskId : CurrentOK(u)' /\ \A b \in Attempt : Undisturbed(u, b)
  PROVE  ReplayInv'
<1>1. TablesOK' /\ \A u \in TaskId : Kept(u)
  BY DEF TablesStep
<1>2. Domains' /\ EventOK'
  BY <1>1 DEF Domains, ReplayInv, TablesOK
<1>3. ASSUME NEW u \in TaskId, NEW b \in Attempt PROVE ExecOK(u, b)' /\ CacheOK(u, b)' /\ WakeOK(u, b)'
  BY <1>1, OtherExecution DEF TablesOK, ReplayInv
<1>4. ASSUME NEW u \in TaskId PROVE ReturnedOK(u)' /\ RanOK(u)'
  BY <1>1, HistoryKept DEF TablesOK, ReplayInv, ReturnedOK, RanOK
<1> QED BY <1>1, <1>2, <1>3, <1>4 DEF ReplayInv, TablesOK

(* The row of a task changes behind the back of its execution.             *)
LEMMA OutsideStep ==
  ASSUME ReplayInv, NEW t \in TaskId, task[t].kind \in Kind, NEW row, RowAfter(t, row), SetTask(t, row),
         row.state # "running", row.wait = NoName \/ WaitOK(t)',
         \/ row.state \in {"failed", "cancelled"}
         \/ row.attempt # task[t].attempt
         \/ row.state = task[t].state,
         UNCHANGED <<ckpt, event, exec, returned, ran>>, faults' \in Nat
  PROVE  ReplayInv'
<1>1. TablesStep
  <2>1. TablesOK
    BY DEF ReplayInv, Domains, TablesOK
  <2> QED BY <2>1, RowStep
<1>2. task'[t] = row /\ \A u \in TaskId \ {t} : task'[u] = task[u]
  BY DEF ReplayInv, SetTask, Domains
<1>3. ASSUME NEW u \in TaskId PROVE CurrentOK(u)'
  <2>1. CASE u # t
    BY <1>2, <2>1 DEF CurrentOK, ReplayInv, Live
  <2>2. CASE u = t
    <3>1. row.attempt \in Attempt /\ task[t].attempt \in Attempt
      BY PartsOf, AttemptType, ConstantAssumption DEF RowAfter, Attempt, ReplayInv
    <3>2. CASE row.attempt # task[t].attempt
      <4>1. ~(row.attempt <= task[t].attempt)
        BY SMTT(60), <3>1, <3>2 DEF RowAfter, Attempt
      <4>2. exec[t][row.attempt].mode = "idle"
        BY <3>1, <4>1, PartsOf DEF ExecOK
      <4> QED BY <1>2, <2>2, <4>2 DEF CurrentOK, Live
    <3>3. CASE row.attempt = task[t].attempt
      BY <1>2, <2>2, <3>3 DEF CurrentOK, ReplayInv, Live, RowAfter
    <3> QED BY <3>2, <3>3
  <2> QED BY <2>1, <2>2
<1>4. ASSUME NEW u \in TaskId, NEW b \in Attempt PROVE Undisturbed(u, b)
  BY <1>2 DEF Undisturbed
<1> QED BY <1>1, <1>3, <1>4, QuietStep

LEMMA LeaseExpiresPreserves ==
  ASSUME ReplayInv, NEW t \in TaskId, LeaseExpires(t)
  PROVE  ReplayInv'
<1>1. /\ task[t].state = "running" /\ SetTask(t, Failed(task[t]))
      /\ UNCHANGED <<ckpt, event, exec, returned, ran>>
      /\ Live(t, task[t].attempt) => faults > 0
      /\ faults' = IF Live(t, task[t].attempt) THEN faults - 1 ELSE faults
  BY DEF LeaseExpires, history
<1>2. task[t].kind \in Kind /\ RowOK(t) /\ faults \in Nat
  BY <1>1 DEF ReplayInv, RowOK, Domains
<1>3. faults' \in Nat
  BY <1>1, <1>2
<1> QED BY <1>1, <1>2, <1>3, FailedRow, OutsideStep

LEMMA CancelTaskPreserves ==
  ASSUME ReplayInv, NEW t \in TaskId, CancelTask(t)
  PROVE  ReplayInv'
<1> DEFINE row == [task[t] EXCEPT !.state = "cancelled", !.wait = NoName]
<1>1. /\ task[t].state \in {"pending", "running", "sleeping"} /\ SetTask(t, row)
      /\ UNCHANGED <<ckpt, event, exec, returned, ran>> /\ faults > 0 /\ faults' = faults - 1
  BY DEF CancelTask, history
<1>2. task[t].kind \in Kind /\ RowOK(t) /\ faults' \in Nat
  BY <1>1 DEF ReplayInv, RowOK, Domains
<1>3. RowAfter(t, row) /\ row.state = "cancelled" /\ row.wait = NoName
  BY <1>2, AttemptType DEF RowOK, RowAfter, Attempt, Ended
<1> HIDE DEF row
<1> QED BY <1>1, <1>2, <1>3, OutsideStep

LEMMA DatabaseClockPreserves ==
  ASSUME ReplayInv, NEW t \in TaskId, DatabaseClock(t)
  PROVE  ReplayInv'
<1> DEFINE row == [task[t] EXCEPT !.due = "now"]
<1>1. /\ task[t].state = "sleeping" /\ SetTask(t, row)
      /\ UNCHANGED <<ckpt, event, exec, returned, ran>> /\ faults' = faults
  BY DEF DatabaseClock, history
<1>2. task[t].kind \in Kind /\ RowOK(t) /\ WaitOK(t) /\ faults' \in Nat
  BY <1>1 DEF ReplayInv, RowOK, Domains
<1>3. /\ RowAfter(t, row) /\ row.state = task[t].state /\ row.wait = task[t].wait /\ row.wake = task[t].wake
      /\ row.kind = task[t].kind
  BY <1>1, <1>2, AttemptType DEF RowOK, RowAfter, Attempt
<1> HIDE DEF row
<1>4. WaitOK(t)'
  <2>1. task'[t] = row
    BY <1>1 DEF SetTask, ReplayInv, Domains
  <2> QED BY <1>2, <1>3, <2>1 DEF WaitOK
<1> QED BY <1>1, <1>2, <1>3, <1>4, OutsideStep

(* No stored value, row or execution changes.                              *)
LEMMA StillStep ==
  ASSUME ReplayInv, UNCHANGED <<task, ckpt, event, exec, returned, ran, faults>>
  PROVE  ReplayInv'
<1>1. TablesStep
  BY TablesUnchanged DEF ReplayInv, Domains, TablesOK, tables
<1>2. \A u \in TaskId : CurrentOK(u)' /\ \A b \in Attempt : Undisturbed(u, b)
  BY DEF ReplayInv, CurrentOK, Live, Undisturbed
<1>3. faults' \in Nat
  BY DEF ReplayInv, Domains
<1> QED BY <1>1, <1>2, <1>3, QuietStep

LEMMA EmitOutsidePreserves ==
  ASSUME ReplayInv, NEW e \in Event, EmitOutside(e)
  PROVE  ReplayInv'
<1>1. /\ EmitEvent(e, Value(0, e, 0, FALSE)) /\ exec' = exec
      /\ returned' = returned /\ ran' = ran /\ faults' = faults
  BY DEF EmitOutside, history
<1>2. TablesStep /\ \A u \in TaskId : Calm(u)
  BY <1>1, EmitCalm
<1>3. \A u \in TaskId : CurrentOK(u)' /\ \A b \in Attempt : Undisturbed(u, b)
  BY <1>1, <1>2, CalmStep
<1>4. faults' \in Nat
  BY <1>1 DEF ReplayInv, Domains
<1> QED BY <1>1, <1>2, <1>3, <1>4, QuietStep

-----------------------------------------------------------------------------
(* The invariant, and what it says about replays.                          *)

LEMMA InitReplayInv ==
  ASSUME Init
  PROVE  ReplayInv
<1>1. PICK w \in Workflow :
        /\ task = [t \in TaskId |-> IF t = 1 THEN NewTask(w.root) ELSE NoTask]
        /\ event = [e \in Event |-> NoValue]
        /\ faults = w.faults
        /\ ckpt = [t \in TaskId |-> <<>>]
        /\ exec = [t \in TaskId |-> [a \in Attempt |-> Idle]]
        /\ returned = [t \in TaskId |-> {}] /\ ran = [t \in TaskId |-> {}]
  BY DEF Init
<1>2. w.root \in Kind /\ w.faults \in Nat /\ None \notin Kind /\ 1 \in 1 .. MaxAttempts[w.root]
  BY ConstantAssumption DEF Attempt
<1>3. Domains
  BY <1>1, <1>2 DEF Domains
<1>4. EventOK
  BY <1>1 DEF EventOK
<1>5. ASSUME NEW t \in TaskId
      PROVE  RowOK(t) /\ WaitOK(t) /\ CurrentOK(t) /\ StoreOK(t) /\ ReturnedOK(t) /\ RanOK(t)
  <2>1. task[t] = NewTask(w.root) \/ task[t] = NoTask
    BY <1>1
  <2>2. RowOK(t)
    BY <1>2, <2>1 DEF RowOK, NewTask, NoTask
  <2>3. WaitOK(t)
    BY <2>1 DEF WaitOK, NewTask, NoTask
  <2>4. CurrentOK(t)
    <3>1. task[t].kind \in Kind => task[t].attempt \in Attempt
      BY <2>2, AttemptType
    <3> QED BY <1>1, <3>1 DEF CurrentOK, Live, Idle
  <2>5. DOMAIN ckpt[t] = {} /\ returned[t] = {} /\ ran[t] = {}
    BY <1>1
  <2>6. StoreOK(t) /\ ReturnedOK(t) /\ RanOK(t)
    BY <2>5 DEF StoreOK, ReturnedOK, RanOK
  <2> QED BY <2>2, <2>3, <2>4, <2>6
<1>6. ASSUME NEW t \in TaskId, NEW a \in Attempt PROVE ExecOK(t, a) /\ CacheOK(t, a) /\ WakeOK(t, a)
  BY <1>1 DEF ExecOK, CacheOK, WakeOK, Idle
<1> QED BY <1>3, <1>4, <1>5, <1>6 DEF ReplayInv

LEMMA NextReplayInv ==
  ASSUME ReplayInv, [Next]_vars
  PROVE  ReplayInv'
<1>1. ASSUME NEW t \in TaskId, NEW a \in Attempt, Execute(t, a) PROVE ReplayInv'
  BY <1>1, CreatePreserves, BeginStepPreserves, RunBodyPreserves, BodyThrowsPreserves,
     PersistCheckpointPreserves, BeginSleepPreserves, SleepUntilPreserves, BeginAwaitPreserves,
     AwaitPreserves, ThrowIfPreserves, CompleteRunPreserves, FailRunPreserves DEF Execute
<1>2. ASSUME NEW t \in TaskId, WorkerClock(t) PROVE ReplayInv'
  BY <1>2, StillStep DEF WorkerClock, tables, history
<1>3. CASE UNCHANGED vars
  BY <1>3, StillStep DEF vars
<1> QED BY <1>1, <1>2, <1>3, ClaimPreserves, DatabaseClockPreserves, LeaseExpiresPreserves,
           CancelTaskPreserves, WorkerLostPreserves, EmitOutsidePreserves DEF Next

(* In every execution the p-th call has the checkpoint name of its         *)
(* position, what is stored is that call's value, and what an execution    *)
(* caches, and whatever a call returned, is what is stored.                *)
THEOREM ReplayInvariant == Spec => []ReplayInv
BY InitReplayInv, NextReplayInv, PTL DEF Spec

LEMMA ReturnedCall ==
  ASSUME ReplayInv, NEW t \in TaskId, NEW r \in returned[t]
  PROVE  /\ task[t].kind \in Kind /\ Handler[task[t].kind] # <<>> /\ r[1] \in Positive
         /\ Holds(task[t].kind, r[1], r[2])
         /\ r[2] = ckpt[t][NameAt(task[t].kind, r[1])].value
<1> DEFINE n == NameAt(task[t].kind, r[1])
<1>1. /\ task[t].kind \in Kind /\ r[1] \in Positive /\ n \in DOMAIN ckpt[t] /\ r[2] = ckpt[t][n].value
  BY DEF ReplayInv, ReturnedOK, ReturnedFrom
<1>2. PICK q \in Positive : n = NameAt(task[t].kind, q) /\ Holds(task[t].kind, q, ckpt[t][n].value)
  BY <1>1 DEF ReplayInv, StoreOK
<1>3. Handler[task[t].kind] # <<>>
  BY <1>1 DEF ReplayInv, StoreOK
<1>4. q = r[1]
  BY <1>1, <1>2, <1>3, NameInjective
<1> QED BY <1>1, <1>2, <1>3, <1>4

(* What a call of a handler returns is what this very call computed, in    *)
(* whichever attempt, or the payload of the event it waits for: no two     *)
(* calls share a checkpoint, however many have one name (the numbers that  *)
(* getCheckpointName appends).                                             *)
THEOREM CallsReturnTheirOwn == Spec => []ReturnedIsOwn
<1>1. ASSUME ReplayInv PROVE ReturnedIsOwn
  <2> SUFFICES ASSUME NEW t \in TaskId, NEW r \in returned[t]
               PROVE  IF CallAt(t, r[1]).do = "await"
                      THEN r[2].event = CallAt(t, r[1]).arg ELSE r[2].call = r[1]
    BY DEF ReturnedIsOwn
  <2>1. /\ task[t].kind \in Kind /\ Handler[task[t].kind] # <<>> /\ r[1] \in Positive
        /\ Holds(task[t].kind, r[1], r[2])
    BY <1>1, ReturnedCall
  <2>2. CallAt(t, r[1]) = CallOn(task[t].kind, r[1])
    BY DEF CallAt, CallOn, Calls
  <2>3. CallOn(task[t].kind, r[1]).do = "await" => CallOn(task[t].kind, r[1]).arg \in Event
    BY <2>1, CallOnIsCall
  <2>4. EventOK
    BY <1>1 DEF ReplayInv
  <2> QED BY <2>1, <2>2, <2>3, <2>4 DEF Holds, EventOK
<1> QED BY <1>1, ReplayInvariant, PTL

(* A handler that is replayed sees at every call what it saw there before: *)
(* in every earlier attempt and execution, stalled ones included.          *)
THEOREM ReplaysAgree == Spec => []ReplayStable
<1>1. ASSUME ReplayInv PROVE ReplayStable
  BY <1>1, ReturnedCall DEF ReplayStable
<1> QED BY <1>1, ReplayInvariant, PTL

(* Once the result of a step is persisted, no later attempt runs the       *)
(* function of the step again.                                             *)
THEOREM PersistedNeverRerun == Spec => []CompletedNeverRerun
<1>1. ASSUME ReplayInv PROVE CompletedNeverRerun
  BY <1>1 DEF ReplayInv, RanOK, RanIn, CompletedNeverRerun
<1> QED BY <1>1, ReplayInvariant, PTL

(* Rows and executions have the types that the handlers and stored         *)
(* functions expect; a wait is registered for a sleeping run only.         *)
THEOREM ReplayTypes == Spec => []TypeOK
<1>1. ASSUME ReplayInv PROVE TypeOK
  <2>1. ASSUME NEW t \in TaskId
        PROVE  /\ task[t].kind \in Kind \union {None} /\ task[t].attempt \in Attempt \union {0}
               /\ task[t].state \in {"absent", "pending", "running", "sleeping"} \union Ended
               /\ task[t].due \in {"now", "later", "never"}
               /\ task[t].wake \in Event \union {None}
    BY <1>1, AttemptType DEF ReplayInv, RowOK
  <2>2. ASSUME NEW t \in TaskId PROVE task[t].wait # NoName => task[t].state = "sleeping" /\ task[t].wake # None
    BY SMTT(60), <1>1, ConstantAssumption DEF ReplayInv, WaitOK
  <2>3. ASSUME NEW t \in TaskId, NEW a \in Attempt
        PROVE  exec[t][a].mode \in {"idle", "create", "run", "body", "persist", "sleep", "await", "fail"}
    BY <1>1 DEF ReplayInv, ExecOK
  <2>4. faults \in Nat
    BY <1>1 DEF ReplayInv, Domains
  <2> QED BY <2>1, <2>2, <2>3, <2>4 DEF TypeOK
<1> QED BY <1>1, ReplayInvariant, PTL
=============================================================================
