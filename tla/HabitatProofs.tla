---------------------------- MODULE HabitatProofs ----------------------------
(***************************************************************************)
(* Habitat's pages, for any tasks, runs, sizes of a page and bounds.       *)
(***************************************************************************)
EXTENDS MCHabitat, FiniteSetTheorems, SequenceTheorems, TLAPS

-----------------------------------------------------------------------------
(* The page of a task.                                                     *)

Details == TaskIds \X (1 .. MaxAttempts)
PageTypes ==
  /\ taskId \in TaskIds /\ visit \in 1 .. MaxVisits
  /\ runs \in Seq(Listed) /\ load \in RunsLoad \cup {none} /\ known \in Nat
  /\ runDetails \subseteq Details /\ batch \in (SUBSET Details) \cup {none} /\ detailError \in BOOLEAN
  /\ dialog \in BOOLEAN /\ spawnNew \in BOOLEAN
  /\ retryInFlight \in {"none", "inplace", "spawn"} /\ message \in {"none", "success", "error"}
  /\ retries \in Seq(RetryCall) /\ Len(retries) <= MaxRetries
  /\ attempts \in [TaskIds -> Seq(Status)] /\ \A t \in TaskIds : Len(attempts[t]) \in 1 .. MaxAttempts

(* What the pages loaded so far hold: of the runs there were when the load *)
(* began, those newer than what the pages to come start with.  Runs that   *)
(* are added meanwhile only move that boundary up.                         *)
Holds(list, n) == \E i \in DOMAIN list : list[i].run = n
OfTask(list, t) == \A i \in DOMAIN list : list[i].task = t
Boundary(page) == Len(attempts[taskId]) - (page - 1) * RunsPageSize
Covered ==
  /\ known <= Len(attempts[taskId])
  /\ IF RunLoading
     THEN /\ load.task = taskId /\ OfTask(load.results, taskId)
          /\ \A n \in 1 .. known : n > Boundary(load.page) => Holds(load.results, n)
     ELSE OfTask(runs, taskId) /\ \A n \in 1 .. known : Holds(runs, n)

(* A batch is what is missing; a failed one leaves nothing cached until    *)
(* the load under way has ended.                                           *)
Ids(list) == {<<r.task, r.run>> : r \in list}
Fetched ==
  /\ batch # none => batch = Ids(Missing(runs, runDetails)) /\ batch # {}
  /\ batch = none => detailError \/ Missing(runs, runDetails) = {}
  /\ detailError /\ runs # <<>> => Missing(runs, runDetails) # {}
  /\ RunLoading /\ (batch # none \/ detailError) => runDetails = {}

(* The retries of the visit that have not ended: at most one, which the    *)
(* flag tells, unless one of an earlier visit has ended in this one.  A    *)
(* run that a retry added is known to the load of its refresh.             *)
Undisturbed ==
  \A c \in DOMAIN retries : retries[c].visit < visit => retries[c].ended # visit
Retrying(c) == c \in DOMAIN retries /\ retries[c].visit = visit /\ retries[c].at # "done"
CallFits(q) ==
  /\ q.task = q.page /\ q.visit <= visit /\ q.ended <= visit
  /\ q.run <= Len(attempts[q.task])
  /\ q.at \in {"sent", "refused"} => q.run = 0
  /\ q.run > 0 /\ q.at \in {"refreshing", "done"} /\ q.task = taskId => q.run <= known
RetriesFit ==
  /\ dialog => ~RunLoading
  /\ \A c \in DOMAIN retries : CallFits(retries[c])
  /\ retryInFlight # "none" => \E c \in DOMAIN retries : Retrying(c)
  /\ Undisturbed => /\ retryInFlight = "none" => \A c \in DOMAIN retries : ~Retrying(c)
                    /\ \A c, d \in DOMAIN retries : Retrying(c) /\ Retrying(d) => c = d

PageInv == PageTypes /\ Covered /\ Fetched /\ RetriesFit

(* What the pages before one have taken, and what it takes itself.         *)
LEMMA NextBoundary ==
  ASSUME NEW p \in Nat \ {0}
  PROVE  /\ p * RunsPageSize \in Nat /\ (p - 1) * RunsPageSize \in Nat
         /\ (p - 1) * RunsPageSize = p * RunsPageSize - RunsPageSize
<1>1. PICK q \in Nat : p = q + 1
  <2>1. p - 1 \in Nat /\ p = (p - 1) + 1
    OBVIOUS
  <2> QED BY <2>1
<1>2. RunsPageSize \in Nat
  BY PageAssumption
<1>3. (q + 1) * RunsPageSize = q * RunsPageSize + RunsPageSize /\ q * RunsPageSize \in Nat
  BY <1>2
<1> QED BY <1>1, <1>2, <1>3

(* A page holds runs of its task, and all those between its boundaries.    *)
LEMMA PageHolds ==
  ASSUME PageTypes, NEW t \in TaskIds, NEW p \in Nat \ {0}, NEW n, n = Len(attempts[t]),
         NEW page, page = RunsPage(t, p)
  PROVE  /\ page.items \in Seq(Listed) /\ OfTask(page.items, t)
         /\ page.hasMore <=> n > p * RunsPageSize
         /\ \A k \in 1 .. n : n - p * RunsPageSize < k /\ k <= n - (p - 1) * RunsPageSize
              => Holds(page.items, k)
<1>1. PICK newestFirst : newestFirst = [i \in 1 .. n |-> [task |-> t, run |-> n + 1 - i, status |-> attempts[t][n + 1 - i]]]
  OBVIOUS
<1>2. PICK last : last = p * RunsPageSize
  OBVIOUS
<1>3. PICK upto : upto = IF last < n THEN last ELSE n
  OBVIOUS
<1>4. PICK first : first = last - RunsPageSize + 1
  OBVIOUS
<1>5. /\ n \in 1 .. MaxAttempts /\ MaxAttempts \in Nat /\ attempts[t] \in Seq(Status)
      /\ last \in Nat /\ RunsPageSize \in Nat \ {0} /\ (p - 1) * RunsPageSize = first - 1
      /\ first \in Nat \ {0} /\ upto \in Nat /\ upto <= n
  <2>1. n \in 1 .. MaxAttempts /\ MaxAttempts \in Nat /\ attempts[t] \in Seq(Status) /\ RunsPageSize \in Nat \ {0}
    BY PageAssumption DEF PageTypes
  <2>2. PICK before : before = (p - 1) * RunsPageSize
    OBVIOUS
  <2>3. last \in Nat /\ before \in Nat /\ before = last - RunsPageSize
    BY <1>2, <2>2, NextBoundary
  <2>4. first - 1 = before /\ first \in Nat \ {0} /\ upto \in Nat /\ upto <= n
    BY <1>3, <1>4, <2>1, <2>3
  <2> QED BY <2>1, <2>2, <2>3, <2>4
<1>6. \A i \in 1 .. n : newestFirst[i] \in Listed /\ newestFirst[i].task = t /\ newestFirst[i].run = n + 1 - i
  <2> TAKE i \in 1 .. n
  <2>1. n + 1 - i \in 1 .. n /\ n + 1 - i \in 1 .. MaxAttempts
    BY <1>5
  <2>2. attempts[t][n + 1 - i] \in Status
    BY <1>5, <2>1, ElementOfSeq
  <2> QED BY <1>1, <2>1, <2>2 DEF Listed
<1>7. page = [items |-> SubSeq(newestFirst, first, upto), hasMore |-> n > last]
  BY <1>1, <1>2, <1>3, <1>4 DEF RunsPage
<1>8. PICK items : items = SubSeq(newestFirst, first, upto)
  OBVIOUS
<1>9. /\ items \in Seq(Listed) /\ Len(items) = IF first <= upto THEN upto - first + 1 ELSE 0
      /\ \A i \in 1 .. upto - first + 1 : items[i] = newestFirst[first + i - 1]
  <2>1. \A i \in first .. upto : newestFirst[i] \in Listed
    BY SMTT(60), <1>5, <1>6
  <2> QED BY <1>5, <1>8, <2>1, SubSeqProperties
<1>10. OfTask(items, t)
  <2> SUFFICES ASSUME NEW i \in DOMAIN items PROVE items[i].task = t
    BY DEF OfTask
  <2>1. i \in 1 .. upto - first + 1 /\ first + i - 1 \in 1 .. n
    BY SMTT(120), <1>5, <1>9
  <2> QED BY SMTT(60), <1>6, <1>9, <2>1
<1>11. ASSUME NEW k \in 1 .. n, n - last < k, k <= n - (first - 1) PROVE Holds(items, k)
  <2>1. PICK i : i = n + 1 - k - (first - 1)
    OBVIOUS
  <2>2. i \in 1 .. upto - first + 1 /\ first + i - 1 = n + 1 - k /\ n + 1 - k \in 1 .. n /\ first <= upto
    BY SMTT(120), <1>3, <1>5, <1>11, <2>1
  <2>3. i \in DOMAIN items /\ items[i] = newestFirst[n + 1 - k]
    <3>1. i \in 1 .. Len(items) /\ items[i] = newestFirst[first + i - 1]
      BY <1>9, <2>2
    <3>2. DOMAIN items = 1 .. Len(items)
      BY <1>9
    <3> QED BY <2>2, <3>1, <3>2
  <2>4. newestFirst[n + 1 - k].run = n + 1 - (n + 1 - k)
    BY <1>6, <2>2
  <2>5. n + 1 - (n + 1 - k) = k
    BY <1>5
  <2> QED BY <2>3, <2>4, <2>5 DEF Holds
<1>12. page.items = items /\ (page.hasMore <=> n > p * RunsPageSize)
  <2>1. PICK more : more = (n > last)
    OBVIOUS
  <2>2. page = [items |-> items, hasMore |-> more]
    BY <1>7, <1>8, <2>1, Zenon
  <2>3. page.items = items /\ page.hasMore = more
    BY <2>2
  <2> QED BY <1>2, <2>1, <2>3, Zenon
<1>13. \A k \in 1 .. n : n - p * RunsPageSize < k /\ k <= n - (p - 1) * RunsPageSize => Holds(items, k)
  <2> SUFFICES ASSUME NEW k \in 1 .. n, n - p * RunsPageSize < k, k <= n - (p - 1) * RunsPageSize
               PROVE  Holds(items, k)
    OBVIOUS
  <2>1. n - last < k
    BY <1>2
  <2>2. k <= n - (first - 1)
    BY <1>5
  <2> QED BY <1>11, <2>1, <2>2
<1> QED BY <1>9, <1>10, <1>12, <1>13

(* A page is put behind those before it.                                   *)
LEMMA PagesJoin ==
  ASSUME NEW a \in Seq(Listed), NEW b \in Seq(Listed), NEW t, OfTask(a, t), OfTask(b, t)
  PROVE  /\ Concat(a, b) \in Seq(Listed) /\ OfTask(Concat(a, b), t)
         /\ \A n : Holds(a, n) \/ Holds(b, n) => Holds(Concat(a, b), n)
<1>1. PICK c : c = a \o b
  OBVIOUS
<1>2. /\ c \in Seq(Listed) /\ Len(c) = Len(a) + Len(b) /\ Len(a) \in Nat /\ Len(b) \in Nat
      /\ \A i \in 1 .. Len(a) + Len(b) : c[i] = IF i <= Len(a) THEN a[i] ELSE b[i - Len(a)]
      /\ DOMAIN a = 1 .. Len(a) /\ DOMAIN b = 1 .. Len(b) /\ DOMAIN c = 1 .. Len(a) + Len(b)
  BY <1>1, ConcatProperties, LenProperties
<1>3. OfTask(c, t)
  <2> SUFFICES ASSUME NEW i \in DOMAIN c PROVE c[i].task = t
    BY DEF OfTask
  <2>1. CASE i <= Len(a)
    BY <1>2, <2>1 DEF OfTask
  <2>2. CASE i > Len(a)
    <3>1. i - Len(a) \in DOMAIN b /\ c[i] = b[i - Len(a)]
      BY <1>2, <2>2
    <3> QED BY <3>1 DEF OfTask
  <2> QED BY <1>2, <2>1, <2>2
<1>4. ASSUME NEW n, Holds(a, n) PROVE Holds(c, n)
  <2>1. PICK i \in DOMAIN a : a[i].run = n
    BY <1>4 DEF Holds
  <2>2. i \in DOMAIN c /\ c[i] = a[i]
    BY <1>2
  <2> QED BY <2>1, <2>2 DEF Holds
<1>5. ASSUME NEW n, Holds(b, n) PROVE Holds(c, n)
  <2>1. PICK i \in DOMAIN b : b[i].run = n
    BY <1>5 DEF Holds
  <2>2. PICK j : j = i + Len(a)
    OBVIOUS
  <2>3. j \in 1 .. Len(a) + Len(b) /\ ~(j <= Len(a)) /\ j - Len(a) = i
    BY <1>2, <2>2
  <2>4. j \in DOMAIN c /\ c[j] = b[i]
    BY <1>2, <2>3
  <2> QED BY <2>1, <2>4 DEF Holds
<1> QED BY <1>1, <1>2, <1>3, <1>4, <1>5 DEF Concat

(* The identifiers of what is missing are pairs, and none only if nothing  *)
(* is missing.                                                             *)
LEMMA MissingIds ==
  ASSUME NEW list \in Seq(Listed), NEW cached, NEW b,
         b = IF Missing(list, cached) = {} THEN none ELSE Ids(Missing(list, cached))
  PROVE  /\ b \in (SUBSET Details) \cup {none}
         /\ b # none => b = Ids(Missing(list, cached)) /\ b # {}
         /\ b = none => Missing(list, cached) = {}
<1>1. \A r \in Missing(list, cached) : r \in Listed
  <2>1. \A i \in DOMAIN list : list[i] \in Listed
    BY ElementOfSeq
  <2> QED BY <2>1 DEF Missing, SetOf
<1>2. Ids(Missing(list, cached)) \in SUBSET Details
  BY <1>1 DEF Ids, Details, Listed
<1>3. Ids(Missing(list, cached)) # none
  BY <1>2, PageAssumption DEF Details
<1>4. Missing(list, cached) # {} => Ids(Missing(list, cached)) # {}
  BY DEF Ids
<1> QED BY <1>2, <1>3, <1>4

LEMMA NothingCached ==
  ASSUME NEW list \in Seq(Listed), list # <<>>
  PROVE  Missing(list, {}) # {}
<1>1. 1 \in DOMAIN list
  BY EmptySeq
<1> QED BY <1>1 DEF Missing, SetOf

-----------------------------------------------------------------------------
(* What the steps have in common.                                          *)

(* Runs are only added: what is loaded stays as complete as it was.        *)
LEMMA CoveredStays ==
  ASSUME PageTypes, Covered, UNCHANGED <<taskId, known, load, runs>>,
         Len(attempts'[taskId]) \in Nat, Len(attempts[taskId]) <= Len(attempts'[taskId])
  PROVE  Covered'
<1>1. PICK n, m : n = Len(attempts[taskId]) /\ m = Len(attempts'[taskId])
  OBVIOUS
<1>2. known <= n /\ n <= m /\ n \in Nat /\ m \in Nat /\ known \in Nat
  BY <1>1 DEF PageTypes, Covered
<1>3. CASE ~RunLoading
  BY <1>1, <1>2, <1>3 DEF Covered, RunLoading, OfTask, Holds
<1>4. CASE RunLoading
  <2>1. load \in RunsLoad
    BY <1>4 DEF PageTypes, RunLoading
  <2>2. PICK before : before = (load.page - 1) * RunsPageSize
    OBVIOUS
  <2>3. before \in Nat
    BY <2>1, <2>2, NextBoundary DEF RunsLoad
  <2>4. Boundary(load.page) = n - before /\ (Boundary(load.page))' = m - before
    BY <1>1, <2>2 DEF Boundary
  <2>5. \A k \in 1 .. known : k > m - before => k > n - before
    BY <1>2, <2>3
  <2> QED BY <1>1, <1>2, <1>4, <2>4, <2>5 DEF Covered, RunLoading, OfTask, Holds
<1> QED BY <1>3, <1>4

(* A load begins with nothing, and with the runs there are.                *)
LEMMA CoveredBegins ==
  ASSUME PageTypes, NEW t \in TaskIds, NEW by \in Nat, BeginLoad(t, by), taskId' = t, UNCHANGED attempts
  PROVE  /\ Covered' /\ known' \in Nat /\ known' = Len(attempts[t])
         /\ load' \in RunsLoad /\ RunLoading'
<1>1. PICK n : n = Len(attempts[t])
  OBVIOUS
<1>2. n \in Nat
  BY <1>1 DEF PageTypes
<1>3. load' = [task |-> t, page |-> 1, results |-> <<>>, by |-> by] /\ known' = n
  BY <1>1 DEF BeginLoad
<1>4. load' \in RunsLoad
  BY <1>3 DEF RunsLoad
<1>5. RunLoading'
  BY <1>4, PageAssumption DEF RunLoading
<1>6. (Boundary(load.page))' = n
  <2>1. (1 - 1) * RunsPageSize = 0
    BY PageAssumption
  <2>2. (Boundary(load.page))' = n - (1 - 1) * RunsPageSize
    BY <1>1, <1>3 DEF Boundary
  <2> QED BY <1>2, <2>1, <2>2
<1>7. \A k \in 1 .. n : ~(k > n)
  BY <1>2
<1> QED BY <1>1, <1>2, <1>3, <1>4, <1>5, <1>6, <1>7 DEF Covered, OfTask

(* The details are dropped, and those of the runs on screen are fetched.   *)
LEMMA DetailsReset ==
  ASSUME PageTypes, ResetDetails
  PROVE  /\ Fetched' /\ runs' = runs /\ runDetails' = {} /\ detailError' = FALSE
         /\ batch' \in (SUBSET Details) \cup {none}
<1>1. runs' = runs /\ runDetails' = {} /\ detailError' = FALSE /\ runs \in Seq(Listed)
  BY DEF ResetDetails, PageTypes
<1>2. batch' = IF Missing(runs, {}) = {} THEN none ELSE Ids(Missing(runs, {}))
  BY <1>1 DEF ResetDetails, FetchMissing, Ids
<1>3. /\ batch' \in (SUBSET Details) \cup {none}
      /\ batch' # none => batch' = Ids(Missing(runs, {})) /\ batch' # {}
      /\ batch' = none => Missing(runs, {}) = {}
  BY <1>1, <1>2, MissingIds
<1>4. (Missing(runs, runDetails))' = Missing(runs, {}) /\ (Ids(Missing(runs, runDetails)))' = Ids(Missing(runs, {}))
  BY <1>1 DEF Missing, SetOf, Ids
<1> QED BY <1>1, <1>3, <1>4 DEF Fetched

(* A call of handleRetry goes on or ends.                                  *)
LEMMA CallGoes ==
  ASSUME PageTypes, RetriesFit, UNCHANGED <<taskId, visit>>,
         NEW c \in DOMAIN retries, NEW q, q = retries[c], NEW r \in RetryCall,
         retries' = [retries EXCEPT ![c] = r], r.page = q.page, r.task = q.task, r.visit = q.visit,
         CallFits(r)', known' \in Nat, known <= known',
         \A t \in TaskIds : Len(attempts'[t]) \in Nat /\ Len(attempts[t]) <= Len(attempts'[t]),
         dialog' => ~RunLoading',
         q.at # "done",
         \/ r.at # "done" /\ r.ended = q.ended /\ UNCHANGED retryInFlight
         \/ r.at = "done" /\ r.ended = visit /\ retryInFlight' = "none"
  PROVE  RetriesFit' /\ retries' \in Seq(RetryCall) /\ Len(retries') = Len(retries)
<1>1. /\ retries' \in Seq(RetryCall) /\ Len(retries') = Len(retries) /\ DOMAIN retries' = DOMAIN retries
      /\ retries'[c] = r /\ \A d \in DOMAIN retries : d # c => retries'[d] = retries[d]
  BY ExceptSeq, LenProperties DEF PageTypes
<1>2. \A d \in DOMAIN retries : retries[d] \in RetryCall
  BY ElementOfSeq DEF PageTypes
<1>3. ASSUME NEW d \in DOMAIN retries PROVE CallFits(retries[d])'
  <2>1. CASE d = c
    BY <1>1, <2>1 DEF CallFits
  <2>2. CASE d # c
    <3>1. PICK o : o = retries[d]
      OBVIOUS
    <3>2. o \in RetryCall /\ CallFits(o) /\ retries'[d] = o
      BY <1>1, <1>2, <2>2, <3>1 DEF RetriesFit
    <3>3. o.run \in Nat /\ o.task \in TaskIds
      BY <3>2 DEF RetryCall
    <3>4. Len(attempts[o.task]) \in Nat /\ known \in Nat
      BY <3>3 DEF PageTypes
    <3>5. o.run <= Len(attempts'[o.task])
      BY <3>2, <3>3, <3>4 DEF CallFits
    <3>6. o.run <= known => o.run <= known'
      BY <3>3, <3>4
    <3> QED BY <3>2, <3>5, <3>6 DEF CallFits
  <2> QED BY <2>1, <2>2
<1>4. CASE r.at # "done" /\ r.ended = q.ended /\ UNCHANGED retryInFlight
  <2>1. \A d \in DOMAIN retries : /\ retries'[d].visit = retries[d].visit /\ retries'[d].ended = retries[d].ended
                                  /\ retries'[d].at = "done" <=> retries[d].at = "done"
    BY <1>1, <1>4
  <2>2. (Undisturbed' <=> Undisturbed) /\ \A d : Retrying(d)' <=> Retrying(d)
    BY <1>1, <2>1 DEF Undisturbed, Retrying
  <2> QED BY <1>1, <1>3, <1>4, <2>2 DEF RetriesFit
<1>5. CASE r.at = "done" /\ r.ended = visit /\ retryInFlight' = "none"
  <2>1. ASSUME Undisturbed', NEW d \in DOMAIN retries PROVE ~Retrying(d)'
    <3>1. ~(r.visit < visit)
      BY <1>1, <1>5, <2>1 DEF Undisturbed
    <3>2. Undisturbed
      BY <1>1, <2>1, <3>1 DEF Undisturbed
    <3>3. q.visit = visit
      BY SMTT(120), <1>2, <3>1 DEF RetriesFit, CallFits, RetryCall, PageTypes
    <3>4. CASE d = c
      BY <1>1, <1>5, <3>4 DEF Retrying
    <3>5. CASE d # c
      <4>1. Retrying(c)
        BY <3>3 DEF Retrying
      <4> QED BY <1>1, <3>2, <3>5, <4>1 DEF RetriesFit, Retrying
    <3> QED BY <3>4, <3>5
  <2> QED BY <1>1, <1>3, <1>5, <2>1 DEF RetriesFit
<1> QED BY <1>1, <1>4, <1>5

(* No call changes.                                                        *)
LEMMA CallsStay ==
  ASSUME PageTypes, RetriesFit, UNCHANGED <<taskId, visit, retries, retryInFlight>>,
         known' \in Nat, known <= known',
         \A t \in TaskIds : Len(attempts'[t]) \in Nat /\ Len(attempts[t]) <= Len(attempts'[t]),
         dialog' => ~RunLoading'
  PROVE  RetriesFit'
<1>1. (Undisturbed' <=> Undisturbed) /\ \A d : Retrying(d)' <=> Retrying(d)
  BY DEF Undisturbed, Retrying
<1>2. ASSUME NEW d \in DOMAIN retries PROVE CallFits(retries[d])'
  <2>1. PICK o : o = retries[d]
    OBVIOUS
  <2>2. o \in RetryCall /\ CallFits(o) /\ retries'[d] = o
    BY <2>1, ElementOfSeq DEF RetriesFit, PageTypes
  <2>3. o.run \in Nat /\ o.task \in TaskIds
    BY <2>2 DEF RetryCall
  <2>4. Len(attempts[o.task]) \in Nat /\ known \in Nat
    BY <2>3 DEF PageTypes
  <2>5. o.run <= Len(attempts'[o.task]) /\ (o.run <= known => o.run <= known')
    BY <2>2, <2>3, <2>4 DEF CallFits
  <2> QED BY <2>2, <2>5 DEF CallFits
<1> QED BY <1>1, <1>2 DEF RetriesFit

-----------------------------------------------------------------------------
(* The steps of the page.                                                  *)

LEMMA PageInitInv == PageInit => PageInv
<1> SUFFICES ASSUME PageInit PROVE PageInv
  OBVIOUS
<1>1. /\ taskId = StartTask /\ StartTask \in TaskIds /\ attempts = StartAttempts
      /\ attempts \in [TaskIds -> Seq(Status)] /\ \A t \in TaskIds : Len(attempts[t]) \in 1 .. MaxAttempts
  BY PageAssumption DEF PageInit
<1>2. PICK n : n = Len(attempts[taskId])
  OBVIOUS
<1>3. /\ n \in Nat /\ known = n
      /\ load = [task |-> taskId, page |-> 1, results |-> <<>>, by |-> 0] /\ load \in RunsLoad /\ RunLoading
  <2>1. load = [task |-> taskId, page |-> 1, results |-> <<>>, by |-> 0] /\ known = n
    BY <1>2 DEF PageInit
  <2>2. load \in RunsLoad
    BY <1>1, <2>1 DEF RunsLoad
  <2> QED BY <1>1, <1>2, <2>1, <2>2, PageAssumption DEF RunLoading
<1>4. PageTypes
  <2>1. runs \in Seq(Listed) /\ retries \in Seq(RetryCall) /\ Len(retries) = 0
    BY EmptySeq DEF PageInit
  <2>2. visit \in 1 .. MaxVisits /\ Len(retries) <= MaxRetries
    BY <2>1, PageAssumption DEF PageInit
  <2> QED BY <1>1, <1>3, <2>1, <2>2 DEF PageInit, PageTypes
<1>5. Covered
  <2>1. Boundary(load.page) = n
    <3>1. (1 - 1) * RunsPageSize = 0
      BY PageAssumption
    <3> QED BY <1>2, <1>3, <3>1 DEF Boundary
  <2> QED BY <1>2, <1>3, <2>1 DEF Covered, OfTask
<1>6. Fetched
  BY DEF PageInit, Fetched, Missing, SetOf
<1>7. RetriesFit
  BY DEF PageInit, RetriesFit, Retrying
<1> QED BY <1>4, <1>5, <1>6, <1>7 DEF PageInv

(* A run of a task ends, and perhaps another follows.                      *)
LEMMA RunEndsInv == ASSUME PageInv, NEW t \in TaskIds, RunEnds(t) PROVE PageInv'
<1>1. PageTypes /\ Covered /\ Fetched /\ RetriesFit
  BY DEF PageInv
<1>2. PICK s : s = attempts[t]
  OBVIOUS
<1>3. PICK ended : ended = [s EXCEPT ![Len(s)] = "failed"]
  OBVIOUS
<1>4. s \in Seq(Status) /\ Len(s) \in 1 .. MaxAttempts /\ ended \in Seq(Status) /\ Len(ended) = Len(s)
  BY <1>1, <1>2, <1>3, ExceptSeq DEF PageTypes, Status
<1>5. PICK u \in Seq(Status) : /\ attempts' = [attempts EXCEPT ![t] = u]
                               /\ Len(u) \in 1 .. MaxAttempts /\ Len(s) <= Len(u)
  <2>1. \/ attempts' = [attempts EXCEPT ![t] = ended]
        \/ Len(ended) < MaxAttempts /\ attempts' = [attempts EXCEPT ![t] = Append(ended, "running")]
    BY <1>2, <1>3 DEF RunEnds
  <2>2. CASE attempts' = [attempts EXCEPT ![t] = ended]
    <3>1. Len(ended) \in 1 .. MaxAttempts /\ Len(s) <= Len(ended)
      BY <1>4
    <3> QED BY <1>4, <2>2, <3>1
  <2>3. CASE Len(ended) < MaxAttempts /\ attempts' = [attempts EXCEPT ![t] = Append(ended, "running")]
    <3>1. Append(ended, "running") \in Seq(Status) /\ Len(Append(ended, "running")) = Len(ended) + 1
      BY <1>4, AppendProperties DEF Status
    <3>2. Len(ended) + 1 \in 1 .. MaxAttempts /\ Len(s) <= Len(ended) + 1
      BY <1>4, <2>3, PageAssumption
    <3> QED BY <2>3, <3>1, <3>2
  <2> QED BY <2>1, <2>2, <2>3
<1>6. /\ attempts' \in [TaskIds -> Seq(Status)]
      /\ \A v \in TaskIds : Len(attempts'[v]) \in 1 .. MaxAttempts /\ Len(attempts[v]) <= Len(attempts'[v])
  BY <1>1, <1>2, <1>5 DEF PageTypes
<1>7. UNCHANGED <<taskId, visit, runs, load, known, runDetails, batch, detailError,
                  dialog, spawnNew, retryInFlight, message, retries>>
  BY DEF RunEnds, detailVars, retryState
<1>8. PageTypes'
  BY <1>1, <1>6, <1>7 DEF PageTypes
<1>9. Covered'
  BY <1>1, <1>6, <1>7, CoveredStays DEF PageTypes
<1>10. Fetched'
  BY <1>1, <1>7 DEF Fetched, RunLoading, Missing, SetOf, Ids
<1>11. RetriesFit'
  BY <1>1, <1>6, <1>7, CallsStay DEF PageTypes, RetriesFit, RunLoading
<1> QED BY <1>8, <1>9, <1>10, <1>11 DEF PageInv

(* A page of the runs is there; after the last one they are shown.         *)
LEMMA PageAnsweredInv == ASSUME PageInv, PageAnswered PROVE PageInv'
<1>1. PageTypes /\ Covered /\ Fetched /\ RetriesFit /\ RunLoading
  BY DEF PageInv, PageAnswered
<1>2. PICK l : l = load
  OBVIOUS
<1>3. l \in RunsLoad /\ l.task = taskId /\ l.page \in Nat \ {0} /\ l.results \in Seq(Listed) /\ OfTask(l.results, taskId)
  BY <1>1, <1>2 DEF PageTypes, Covered, RunLoading, RunsLoad
<1>4. PICK page, n : page = RunsPage(l.task, l.page) /\ n = Len(attempts[taskId])
  OBVIOUS
<1>5. PICK results : results = Concat(l.results, page.items)
  OBVIOUS
<1>6. taskId \in TaskIds /\ n \in Nat /\ known \in Nat /\ known <= n
  BY <1>1, <1>4 DEF PageTypes, Covered
<1>7. PICK before, upto : before = (l.page - 1) * RunsPageSize /\ upto = l.page * RunsPageSize
  OBVIOUS
<1>8. before \in Nat /\ upto \in Nat
  BY <1>3, <1>7, NextBoundary
<1>9. /\ page.items \in Seq(Listed) /\ OfTask(page.items, taskId)
      /\ page.hasMore <=> n > upto
      /\ \A k \in 1 .. n : n - upto < k /\ k <= n - before => Holds(page.items, k)
  BY <1>1, <1>3, <1>4, <1>6, <1>7, PageHolds
<1>10. /\ results \in Seq(Listed) /\ OfTask(results, taskId)
       /\ \A k : Holds(l.results, k) \/ Holds(page.items, k) => Holds(results, k)
  BY <1>3, <1>5, <1>9, PagesJoin
<1>11. ASSUME NEW k \in 1 .. known, k > n - upto PROVE Holds(results, k)
  <2>1. CASE k > n - before
    <3>1. Boundary(load.page) = n - before
      BY <1>2, <1>4, <1>7 DEF Boundary
    <3> QED BY <1>1, <1>2, <1>10, <2>1, <3>1 DEF Covered
  <2>2. CASE k <= n - before
    <3>1. k \in 1 .. n /\ n - upto < k
      BY <1>6, <1>8, <1>11
    <3> QED BY <1>9, <1>10, <2>2, <3>1
  <2> QED BY <1>6, <1>8, <2>1, <2>2
<1>12. UNCHANGED <<taskId, visit, known, runDetails, detailError, dialog, spawnNew, retryInFlight, message, retries, attempts>>
  BY DEF PageAnswered, retryState
<1>13. CASE page.hasMore
  <2>1. load' = [l EXCEPT !.page = @ + 1, !.results = results] /\ UNCHANGED <<runs, batch>>
    BY <1>2, <1>4, <1>5, <1>13 DEF PageAnswered
  <2>2. /\ load' \in RunsLoad /\ load'.page = l.page + 1 /\ load'.results = results /\ load'.task = taskId
    <3>1. PICK next : next = l.page + 1
      OBVIOUS
    <3>2. next \in Nat \ {0} /\ results \in Seq(Listed)
      BY <1>3, <1>10, <3>1
    <3>3. load' = [l EXCEPT !.page = next, !.results = results]
      BY <2>1, <3>1
    <3>4. l \in RunsLoad /\ l.task = taskId
      BY <1>3
    <3> QED BY <3>1, <3>2, <3>3, <3>4 DEF RunsLoad
  <2>3. RunLoading'
    BY <2>2, PageAssumption DEF RunLoading
  <2>4. (Boundary(load.page))' = n - upto
    <3>1. load'.page - 1 = l.page
      BY <1>3, <2>2
    <3>2. (Boundary(load.page))' = Len(attempts'[taskId']) - (load'.page - 1) * RunsPageSize
      BY DEF Boundary
    <3>3. taskId' = taskId /\ attempts' = attempts
      BY <1>12
    <3>4. Len(attempts'[taskId']) = n
      BY <1>4, <3>3
    <3>5. (load'.page - 1) * RunsPageSize = upto
      BY <1>7, <3>1
    <3> QED BY <3>2, <3>4, <3>5, Zenon
  <2>5. Covered'
    BY <1>4, <1>6, <1>10, <1>11, <1>12, <2>2, <2>3, <2>4 DEF Covered, OfTask, Holds
  <2>6. Fetched'
    BY <1>1, <1>12, <2>1 DEF Fetched, Missing, SetOf, Ids
  <2>7. PageTypes'
    BY <1>1, <1>12, <2>1, <2>2 DEF PageTypes
  <2>8. RetriesFit'
    BY <1>1, <1>6, <1>12, CallsStay DEF PageTypes, RetriesFit
  <2> QED BY <2>5, <2>6, <2>7, <2>8 DEF PageInv
<1>14. CASE ~page.hasMore
  <2>1. runs' = results /\ load' = none /\ runDetails' = runDetails /\ FetchMissing
    BY <1>2, <1>4, <1>5, <1>14 DEF PageAnswered
  <2>2. ~RunLoading'
    BY <2>1 DEF RunLoading
  <2>3. batch' = IF Missing(results, runDetails) = {} THEN none ELSE Ids(Missing(results, runDetails))
    BY <2>1 DEF FetchMissing, Ids
  <2>4. /\ batch' \in (SUBSET Details) \cup {none}
        /\ batch' # none => batch' = Ids(Missing(results, runDetails)) /\ batch' # {}
        /\ batch' = none => Missing(results, runDetails) = {}
    BY <1>10, <2>3, MissingIds
  <2>5. PageTypes'
    BY <1>1, <1>10, <1>12, <2>1, <2>4 DEF PageTypes
  <2>6. \A k \in 1 .. known : Holds(results, k)
    <3>1. \A k \in 1 .. known : k > n - upto
      BY <1>6, <1>8, <1>9, <1>14
    <3> QED BY <1>11, <3>1
  <2>7. Covered'
    BY <1>4, <1>6, <1>10, <1>12, <2>1, <2>2, <2>6 DEF Covered, OfTask, Holds
  <2>8. Fetched'
    <3>1. detailError /\ results # <<>> => Missing(results, runDetails) # {}
      <4>1. detailError => runDetails = {}
        BY <1>1 DEF Fetched
      <4> QED BY <1>10, <4>1, NothingCached
    <3>2. (Missing(runs, runDetails))' = Missing(results, runDetails) /\ (Ids(Missing(runs, runDetails)))' = Ids(Missing(results, runDetails))
      BY <1>12, <2>1 DEF Missing, SetOf, Ids
    <3> QED BY <1>12, <2>1, <2>2, <2>4, <3>1, <3>2 DEF Fetched
  <2>9. RetriesFit'
    BY <1>1, <1>6, <1>12, <2>2, CallsStay DEF PageTypes
  <2> QED BY <2>5, <2>7, <2>8, <2>9 DEF PageInv
<1> QED BY <1>13, <1>14

(* The missing details are there, or could not be loaded.                  *)
LEMMA BatchInv == ASSUME PageInv, BatchAnswered \/ BatchFails PROVE PageInv'
<1>1. PageTypes /\ Covered /\ Fetched /\ RetriesFit /\ batch # none
  BY DEF PageInv, BatchAnswered, BatchFails, FailBatch
<1>2. UNCHANGED <<taskId, visit, runs, load, known, dialog, spawnNew, retryInFlight, message, retries, attempts>>
  BY DEF BatchAnswered, BatchFails, retryState
<1>3. batch \subseteq Details /\ batch = Ids(Missing(runs, runDetails)) /\ batch # {} /\ runs \in Seq(Listed)
  BY <1>1 DEF Fetched, PageTypes
<1>4. /\ runDetails' \subseteq Details /\ batch' \in (SUBSET Details) \cup {none} /\ detailError' \in BOOLEAN
      /\ Fetched'
  <2>1. CASE BatchAnswered
    <3>1. runDetails' = runDetails \cup batch /\ detailError' = FALSE
      BY <2>1 DEF BatchAnswered
    <3>2. Missing(runs, runDetails \cup batch) = {}
      BY <1>3 DEF Missing, Ids
    <3>3. (Missing(runs, runDetails))' = {}
      BY <1>2, <3>1, <3>2 DEF Missing, SetOf
    <3>4. batch' = none
      BY <2>1, <3>3 DEF BatchAnswered, FetchMissing
    <3> QED BY <1>1, <1>3, <3>1, <3>3, <3>4 DEF Fetched, PageTypes
  <2>2. CASE BatchFails
    <3>1. batch' = none /\ detailError' = TRUE /\ runDetails' = runDetails
      BY <2>2 DEF BatchFails, FailBatch
    <3>2. Missing(runs, runDetails) # {}
      BY <1>3 DEF Ids
    <3> QED BY <1>1, <1>2, <3>1, <3>2 DEF Fetched, PageTypes, RunLoading, Missing, SetOf
  <2> QED BY <2>1, <2>2
<1>5. PageTypes'
  BY <1>1, <1>2, <1>4 DEF PageTypes
<1>6. Covered'
  BY <1>1, <1>2, CoveredStays DEF PageTypes
<1>7. RetriesFit'
  BY <1>1, <1>2, CallsStay DEF PageTypes, RetriesFit, RunLoading
<1> QED BY <1>4, <1>5, <1>6, <1>7 DEF PageInv

(* Refresh drops the details and loads the runs again.                     *)
LEMMA RefreshRunsInv == ASSUME PageInv, RefreshRuns PROVE PageInv'
<1>1. /\ PageTypes /\ Covered /\ Fetched /\ RetriesFit /\ ResetDetails /\ BeginLoad(taskId, 0) /\ ~dialog
      /\ UNCHANGED <<taskId, visit, dialog, spawnNew, retryInFlight, message, retries, attempts>>
  BY DEF PageInv, RefreshRuns, Refreshes, retryState
<1>2. /\ Fetched' /\ runs' = runs /\ runDetails' = {} /\ detailError' = FALSE
      /\ batch' \in (SUBSET Details) \cup {none}
  BY <1>1, DetailsReset
<1>3. /\ Covered' /\ known' \in Nat /\ known' = Len(attempts[taskId]) /\ load' \in RunsLoad
  BY <1>1, CoveredBegins DEF PageTypes
<1>4. PageTypes'
  BY <1>1, <1>2, <1>3 DEF PageTypes
<1>5. RetriesFit'
  BY <1>1, <1>3, CallsStay DEF PageTypes, Covered
<1> QED BY <1>2, <1>3, <1>4, <1>5 DEF PageInv

(* Another task: no retry of this visit has been asked yet.                *)
LEMMA VisitInv == ASSUME PageInv, NEW t \in TaskIds, Visit(t) PROVE PageInv'
<1>1. /\ PageTypes /\ RetriesFit /\ ResetDetails /\ BeginLoad(t, 0) /\ ResetRetry
      /\ taskId' = t /\ visit' = visit + 1 /\ visit < MaxVisits /\ UNCHANGED <<retries, attempts>>
  BY DEF PageInv, Visit
<1>2. /\ Fetched' /\ runs' = runs /\ runDetails' = {} /\ detailError' = FALSE
      /\ batch' \in (SUBSET Details) \cup {none}
  BY <1>1, DetailsReset
<1>3. /\ Covered' /\ known' \in Nat /\ known' = Len(attempts[t]) /\ load' \in RunsLoad
  BY <1>1, CoveredBegins
<1>4. visit' \in 1 .. MaxVisits /\ visit \in Nat
  BY <1>1, PageAssumption DEF PageTypes
<1>5. PageTypes'
  BY <1>1, <1>2, <1>3, <1>4 DEF PageTypes, ResetRetry
<1>6. ASSUME NEW d \in DOMAIN retries PROVE CallFits(retries[d])' /\ ~Retrying(d)'
  <2>1. PICK o : o = retries[d]
    OBVIOUS
  <2>2. o \in RetryCall /\ CallFits(o) /\ retries'[d] = o
    BY <1>1, <2>1, ElementOfSeq DEF RetriesFit, PageTypes
  <2>3. o.run \in Nat /\ o.visit \in Nat /\ o.ended \in Nat
    BY <2>2 DEF RetryCall
  <2>4. o.visit <= visit' /\ o.ended <= visit' /\ o.visit # visit'
    BY <1>1, <1>4, <2>2, <2>3 DEF CallFits
  <2>5. o.task = t => o.run <= known'
    BY <1>3, <2>2 DEF CallFits
  <2> QED BY <1>1, <2>2, <2>4, <2>5 DEF CallFits, Retrying
<1>7. RetriesFit'
  BY <1>1, <1>6 DEF RetriesFit, ResetRetry
<1> QED BY <1>2, <1>3, <1>5, <1>7 DEF PageInv

(* The dialog opens only when the runs have been loaded.                   *)
LEMMA DialogInv == ASSUME PageInv, OpenRetryDialog \/ ToggleSpawn \/ CloseDialog PROVE PageInv'
<1>1. PageTypes /\ Covered /\ Fetched /\ RetriesFit
  BY DEF PageInv
<1>2. /\ UNCHANGED <<taskId, visit, runs, load, known, runDetails, batch, detailError, retryInFlight, retries, attempts>>
      /\ dialog' \in BOOLEAN /\ spawnNew' \in BOOLEAN /\ message' \in {"none", "success", "error"}
      /\ dialog' => ~RunLoading
  BY <1>1 DEF OpenRetryDialog, ToggleSpawn, CloseDialog, detailVars, PageTypes, RetriesFit
<1>3. PageTypes'
  BY <1>1, <1>2 DEF PageTypes
<1>4. Covered'
  BY <1>1, <1>2, CoveredStays DEF PageTypes
<1>5. Fetched'
  BY <1>1, <1>2 DEF Fetched, RunLoading, Missing, SetOf, Ids
<1>6. RetriesFit'
  BY <1>1, <1>2, CallsStay DEF PageTypes, RunLoading
<1> QED BY <1>3, <1>4, <1>5, <1>6 DEF PageInv

(* A retry is asked of the task of the run on top of the list, and only    *)
(* when none is in flight.                                                 *)
LEMMA HandleRetryInv == ASSUME PageInv, HandleRetry PROVE PageInv'
<1>1. PageTypes /\ Covered /\ Fetched /\ RetriesFit /\ dialog /\ retryInFlight = "none" /\ Len(retries) < MaxRetries
  BY DEF PageInv, HandleRetry, MayClickRetry
<1>2. UNCHANGED <<taskId, visit, runs, load, known, runDetails, batch, detailError, dialog, spawnNew, attempts>>
  BY DEF HandleRetry, detailVars
<1>3. Covered'
  BY <1>1, <1>2, CoveredStays DEF PageTypes
<1>4. Fetched'
  BY <1>1, <1>2 DEF Fetched, RunLoading, Missing, SetOf, Ids
<1>5. CASE ~CanRetry
  <2>1. message' = "error" /\ UNCHANGED <<retryInFlight, retries>>
    BY <1>5 DEF HandleRetry
  <2>2. PageTypes'
    BY <1>1, <1>2, <2>1 DEF PageTypes
  <2>3. RetriesFit'
    BY <1>1, <1>2, <2>1, CallsStay DEF PageTypes, RetriesFit, RunLoading
  <2> QED BY <1>3, <1>4, <2>2, <2>3 DEF PageInv
<1>6. CASE CanRetry
  <2>1. PICK q : q = [task |-> runs[1].task, page |-> taskId, visit |-> visit,
                      kind |-> retryInFlight', at |-> "sent", run |-> 0, ended |-> 0]
    OBVIOUS
  <2>2. /\ message' = "none" /\ retryInFlight' \in {"spawn", "inplace"}
        /\ retries' = Append(retries, q)
    BY <1>6, <2>1 DEF HandleRetry
  <2>3. runs[1].task = taskId
    <3>1. 1 \in DOMAIN runs
      BY <1>1, <1>6, EmptySeq DEF CanRetry, PageTypes
    <3> QED BY <1>1, <3>1 DEF Covered, RetriesFit, OfTask
  <2>4. q \in RetryCall /\ q.task = taskId /\ q.page = taskId /\ q.visit = visit /\ q.at = "sent" /\ q.run = 0 /\ q.ended = 0
    BY <1>1, <2>1, <2>2, <2>3 DEF PageTypes, RetryCall
  <2>5. /\ retries' \in Seq(RetryCall) /\ Len(retries') = Len(retries) + 1 /\ Len(retries) \in Nat
        /\ \A c \in 1 .. Len(retries) : retries'[c] = retries[c]
        /\ retries'[Len(retries) + 1] = q
        /\ DOMAIN retries = 1 .. Len(retries) /\ DOMAIN retries' = 1 .. Len(retries) + 1
    BY <1>1, <2>2, <2>4, AppendProperties, LenProperties DEF PageTypes
  <2>6. Len(retries') <= MaxRetries
    BY <1>1, <2>5, PageAssumption
  <2>7. PageTypes'
    BY <1>1, <1>2, <2>2, <2>5, <2>6 DEF PageTypes
  <2>8. PICK new : new = Len(retries) + 1
    OBVIOUS
  <2>9. /\ DOMAIN retries' = DOMAIN retries \cup {new} /\ new \notin DOMAIN retries
        /\ retries'[new] = q /\ \A c \in DOMAIN retries : retries'[c] = retries[c]
    BY <2>5, <2>8
  <2>10. visit \in Nat \ {0} /\ taskId \in TaskIds /\ Len(attempts[taskId]) \in Nat
    BY <1>1, PageAssumption DEF PageTypes
  <2>11. CallFits(q)'
    BY <1>2, <2>4, <2>10 DEF CallFits
  <2>12. \A c \in DOMAIN retries : CallFits(retries[c])'
    BY <1>1, <1>2, <2>9 DEF CallFits, RetriesFit
  <2>13. \A c \in DOMAIN retries' : CallFits(retries[c])'
    <3> SUFFICES ASSUME NEW c \in DOMAIN retries' PROVE CallFits(retries[c])'
      OBVIOUS
    <3>1. CASE c = new
      BY <2>9, <2>11, <3>1 DEF CallFits
    <3>2. CASE c # new
      BY <2>9, <2>12, <3>2
    <3> QED BY <3>1, <3>2
  <2>14. /\ Retrying(new)' /\ \A c \in DOMAIN retries : Retrying(c)' <=> Retrying(c)
         /\ Undisturbed' <=> Undisturbed
    BY <1>2, <2>4, <2>9, <2>10 DEF Retrying, Undisturbed
  <2>15. RetriesFit'
    <3>1. dialog' => ~RunLoading'
      BY <1>1, <1>2 DEF RetriesFit, RunLoading
    <3>2. Undisturbed => \A c \in DOMAIN retries : ~Retrying(c)'
      BY <1>1, <2>14 DEF RetriesFit
    <3> QED BY <2>2, <2>9, <2>13, <2>14, <3>1, <3>2 DEF RetriesFit
  <2> QED BY <1>3, <1>4, <2>7, <2>15 DEF PageInv
<1> QED BY <1>5, <1>6

(* The server retries the task, or not; the request fails before or after. *)
LEMMA RetryOnServerInv == ASSUME PageInv, NEW c \in 1 .. Len(retries), RetryOnServer(c) PROVE PageInv'
<1>1. PageTypes /\ Covered /\ Fetched /\ RetriesFit
  BY DEF PageInv
<1>2. PICK q : q = retries[c]
  OBVIOUS
<1>3. q \in RetryCall /\ CallFits(q) /\ q.at = "sent" /\ q.run = 0 /\ c \in DOMAIN retries
  BY <1>1, <1>2, ElementOfSeq DEF RetryOnServer, RetriesFit, CallFits, PageTypes
<1>4. PICK s, added : s = attempts[q.task] /\ added = Append(s, "running")
  OBVIOUS
<1>5. /\ q.task \in TaskIds /\ s \in Seq(Status) /\ Len(s) \in 1 .. MaxAttempts
      /\ added \in Seq(Status) /\ Len(added) = Len(s) + 1
  BY <1>1, <1>3, <1>4, AppendProperties DEF PageTypes, RetryCall, Status
<1>6. PICK to, run : /\ \/ to = "refused" /\ run = 0
                        \/ to = "retried" /\ run \in {0, Len(attempts'[q.task])}
                     /\ retries' = [retries EXCEPT ![c].at = to, ![c].run = run]
                     /\ \/ attempts' = attempts
                        \/ attempts' = [attempts EXCEPT ![q.task] = added] /\ Len(s) < MaxAttempts
  <2>1. CASE UNCHANGED attempts /\ retries' = [retries EXCEPT ![c].at = "refused"]
    <3>1. retries' = [retries EXCEPT ![c].at = "refused", ![c].run = 0]
      <4>1. retries \in Seq(RetryCall) /\ retries[c] = q
        BY <1>1, <1>2 DEF PageTypes
      <4>2. [q EXCEPT !.at = "refused"] = [q EXCEPT !.at = "refused", !.run = 0]
        BY <1>3 DEF RetryCall
      <4>3. retries' = [retries EXCEPT ![c] = [q EXCEPT !.at = "refused"]]
        BY <2>1, <4>1
      <4> QED BY <1>3, <4>1, <4>2, <4>3
    <3> QED BY <2>1, <3>1
  <2>2. CASE ~(UNCHANGED attempts /\ retries' = [retries EXCEPT ![c].at = "refused"])
    <3>1. /\ q.kind = "inplace" => Len(s) < MaxAttempts
          /\ attempts' = IF q.kind = "spawn" THEN attempts ELSE [attempts EXCEPT ![q.task] = added]
      BY <1>2, <1>4, <2>2 DEF RetryOnServer
    <3>2. PICK to \in {"retried", "refused"} :
            retries' = [retries EXCEPT ![c].at = to,
                                       ![c].run = IF to = "retried" /\ q.kind = "inplace"
                                                  THEN Len(attempts'[q.task]) ELSE 0]
      BY <1>2, <2>2 DEF RetryOnServer
    <3>3. PICK run : run = IF to = "retried" /\ q.kind = "inplace" THEN Len(attempts'[q.task]) ELSE 0
      OBVIOUS
    <3>4. retries' = [retries EXCEPT ![c].at = to, ![c].run = run]
      BY <3>2, <3>3
    <3>5. q.kind \in {"spawn", "inplace"}
      BY <1>3 DEF RetryCall
    <3> QED BY <3>1, <3>2, <3>3, <3>4, <3>5
  <2> QED BY <2>1, <2>2
<1>7. /\ attempts' \in [TaskIds -> Seq(Status)]
      /\ \A v \in TaskIds : Len(attempts'[v]) \in 1 .. MaxAttempts /\ Len(attempts[v]) <= Len(attempts'[v])
  <2>1. CASE attempts' = attempts
    BY <1>1, <2>1 DEF PageTypes
  <2>2. CASE attempts' = [attempts EXCEPT ![q.task] = added] /\ Len(s) < MaxAttempts
    <3>1. Len(added) \in 1 .. MaxAttempts /\ Len(s) <= Len(added)
      BY <1>5, <2>2, PageAssumption
    <3> QED BY <1>1, <1>4, <1>5, <2>2, <3>1 DEF PageTypes
  <2> QED BY <1>6, <2>1, <2>2
<1>8. UNCHANGED <<taskId, visit, runs, load, known, runDetails, batch, detailError,
                  dialog, spawnNew, retryInFlight, message>>
  BY DEF RetryOnServer, detailVars, retryState
<1>9. PICK r : r = [q EXCEPT !.at = to, !.run = run]
  OBVIOUS
<1>10. run \in Nat /\ run <= Len(attempts'[q.task]) /\ to \in {"retried", "refused"}
  <2>1. Len(attempts'[q.task]) \in Nat
    BY <1>5, <1>7
  <2> QED BY <1>6, <2>1
<1>11. /\ r \in RetryCall /\ r.at = to /\ r.run = run /\ r.task = q.task /\ r.page = q.page
       /\ r.visit = q.visit /\ r.ended = q.ended
  BY <1>3, <1>9, <1>10 DEF RetryCall
<1>12. retries' = [retries EXCEPT ![c] = r]
  BY <1>1, <1>2, <1>6, <1>9 DEF PageTypes
<1>13. CallFits(r)'
  BY <1>3, <1>6, <1>8, <1>10, <1>11 DEF CallFits
<1>14. RetriesFit' /\ retries' \in Seq(RetryCall) /\ Len(retries') = Len(retries)
  <2>1. dialog' => ~RunLoading'
    BY <1>1, <1>8 DEF RetriesFit, RunLoading
  <2>2. q.at # "done" /\ r.at # "done"
    BY <1>3, <1>10, <1>11
  <2>3. /\ known' \in Nat /\ known <= known' 
        /\ \A t \in TaskIds : Len(attempts'[t]) \in Nat /\ Len(attempts[t]) <= Len(attempts'[t])
    BY <1>1, <1>7, <1>8 DEF PageTypes
  <2>4. UNCHANGED <<taskId, visit>> /\ UNCHANGED retryInFlight
    BY <1>8
  <2> QED BY <1>1, <1>2, <1>3, <1>11, <1>12, <1>13, <2>1, <2>2, <2>3, <2>4, CallGoes
<1>15. PageTypes'
  BY <1>1, <1>7, <1>8, <1>14 DEF PageTypes
<1>16. Covered'
  BY <1>1, <1>7, <1>8, CoveredStays DEF PageTypes
<1>17. Fetched'
  BY <1>1, <1>8 DEF Fetched, RunLoading, Missing, SetOf, Ids
<1> QED BY <1>14, <1>15, <1>16, <1>17 DEF PageInv

(* The answer of a successful retry: the runs of the page are loaded again. *)
LEMMA RetryAnsweredInv == ASSUME PageInv, NEW c \in 1 .. Len(retries), RetryAnswered(c) PROVE PageInv'
<1>1. /\ PageTypes /\ Covered /\ RetriesFit /\ ResetDetails /\ BeginLoad(taskId, c)
      /\ message' = "success" /\ dialog' = FALSE /\ retries' = [retries EXCEPT ![c].at = "refreshing"]
      /\ UNCHANGED <<taskId, visit, spawnNew, retryInFlight, attempts>>
  BY DEF PageInv, RetryAnswered, Retried, Refreshes
<1>2. PICK q, r : q = retries[c] /\ r = [q EXCEPT !.at = "refreshing"]
  OBVIOUS
<1>3. q \in RetryCall /\ CallFits(q) /\ q.at = "retried" /\ c \in DOMAIN retries /\ c \in Nat
  BY <1>1, <1>2, ElementOfSeq DEF RetryAnswered, RetriesFit, PageTypes
<1>4. /\ r \in RetryCall /\ r.at = "refreshing" /\ r.run = q.run /\ r.task = q.task /\ r.page = q.page
      /\ r.visit = q.visit /\ r.ended = q.ended /\ retries' = [retries EXCEPT ![c] = r]
  BY <1>1, <1>2, <1>3 DEF RetryCall, PageTypes
<1>5. /\ Fetched' /\ runs' = runs /\ runDetails' = {} /\ detailError' = FALSE
      /\ batch' \in (SUBSET Details) \cup {none}
  BY <1>1, DetailsReset
<1>6. /\ Covered' /\ known' \in Nat /\ known' = Len(attempts[taskId]) /\ load' \in RunsLoad
  BY <1>1, <1>3, CoveredBegins DEF PageTypes
<1>7. CallFits(r)'
  BY <1>1, <1>3, <1>4, <1>6 DEF CallFits
<1>8. RetriesFit' /\ retries' \in Seq(RetryCall) /\ Len(retries') = Len(retries)
  <2>1. q.at # "done" /\ r.at # "done" /\ ~dialog'
    BY <1>1, <1>3, <1>4
  <2>2. /\ known <= known'
        /\ \A t \in TaskIds : Len(attempts'[t]) \in Nat /\ Len(attempts[t]) <= Len(attempts'[t])
    BY <1>1, <1>6 DEF PageTypes, Covered
  <2>3. UNCHANGED <<taskId, visit>> /\ UNCHANGED retryInFlight /\ retries' = [retries EXCEPT ![c] = r]
        /\ known' \in Nat /\ (dialog' => ~RunLoading') /\ q = retries[c]
    BY <1>1, <1>2, <1>4, <1>6
  <2> QED BY <1>1, <1>3, <1>4, <1>7, <2>1, <2>2, <2>3, CallGoes
<1>9. PageTypes'
  BY <1>1, <1>5, <1>6, <1>8 DEF PageTypes
<1> QED BY <1>5, <1>6, <1>8, <1>9 DEF PageInv

(* A retry ends: refused, or when the load of its refresh has ended.       *)
LEMMA RetryEndsInv ==
  ASSUME PageInv, NEW c \in 1 .. Len(retries), RetryRefused(c) \/ RetryRefreshed(c)
  PROVE  PageInv'
<1>1. /\ PageTypes /\ Covered /\ Fetched /\ RetriesFit
      /\ message' \in {"none", "success", "error"} /\ retryInFlight' = "none"
      /\ retries' = [retries EXCEPT ![c].at = "done", ![c].ended = visit]
      /\ UNCHANGED <<taskId, visit, runs, load, known, runDetails, batch, detailError, dialog, spawnNew, attempts>>
  BY DEF PageInv, RetryRefused, Refused, RetryRefreshed, PageTypes, detailVars
<1>2. PICK q, r : q = retries[c] /\ r = [q EXCEPT !.at = "done", !.ended = visit]
  OBVIOUS
<1>3. q \in RetryCall /\ CallFits(q) /\ q.at \in {"refused", "refreshing"} /\ c \in DOMAIN retries /\ visit \in Nat
  BY SMTT(60), <1>1, <1>2, ElementOfSeq, PageAssumption DEF RetryRefused, RetryRefreshed, RetriesFit, PageTypes
<1>4. /\ r \in RetryCall /\ r.at = "done" /\ r.run = q.run /\ r.task = q.task /\ r.page = q.page
      /\ r.visit = q.visit /\ r.ended = visit
  BY <1>2, <1>3 DEF RetryCall
<1>5. retries' = [retries EXCEPT ![c] = r]
  BY <1>1, <1>2, <1>3 DEF PageTypes
<1>6. CallFits(r)'
  BY <1>1, <1>3, <1>4 DEF CallFits
<1>7. RetriesFit' /\ retries' \in Seq(RetryCall) /\ Len(retries') = Len(retries)
  <2>1. q.at # "done" /\ (dialog' => ~RunLoading')
    BY <1>1, <1>3 DEF RetriesFit, RunLoading
  <2>2. /\ known' \in Nat /\ known <= known'
        /\ \A t \in TaskIds : Len(attempts'[t]) \in Nat /\ Len(attempts[t]) <= Len(attempts'[t])
    BY <1>1 DEF PageTypes
  <2> QED BY ZenonT(120), <1>1, <1>2, <1>3, <1>4, <1>5, <1>6, <2>1, <2>2, CallGoes
<1>8. PageTypes'
  BY <1>1, <1>7 DEF PageTypes
<1>9. Covered'
  BY <1>1, CoveredStays DEF PageTypes
<1>10. Fetched'
  BY <1>1 DEF Fetched, RunLoading, Missing, SetOf, Ids
<1> QED BY <1>7, <1>8, <1>9, <1>10 DEF PageInv

LEMMA PageStep == ASSUME PageInv, [PageNext]_pageVars PROVE PageInv'
<1>1. CASE PageNext
  BY <1>1, RunEndsInv, VisitInv, PageAnsweredInv, BatchInv, RefreshRunsInv, DialogInv, HandleRetryInv,
     RetryOnServerInv, RetryAnsweredInv, RetryEndsInv DEF PageNext
<1>2. CASE UNCHANGED pageVars
  <2>1. UNCHANGED <<taskId, visit, runs, load, known, runDetails, batch, detailError,
                    dialog, spawnNew, retryInFlight, message, retries, attempts>>
    BY <1>2 DEF pageVars
  <2>2. PageTypes /\ Covered /\ Fetched /\ RetriesFit
    BY DEF PageInv
  <2>3. PageTypes'
    BY <2>1, <2>2 DEF PageTypes
  <2>4. Covered'
    BY <2>1, <2>2, CoveredStays DEF PageTypes
  <2>5. Fetched'
    BY <2>1, <2>2 DEF Fetched, RunLoading, Missing, SetOf, Ids
  <2>6. RetriesFit'
    BY <2>1, <2>2, CallsStay DEF PageTypes, RetriesFit, RunLoading
  <2> QED BY <2>3, <2>4, <2>5, <2>6 DEF PageInv
<1> QED BY <1>1, <1>2

LEMMA PageInvariant == PageSpec => []PageInv
BY PageInitInv, PageStep, PTL DEF PageSpec

(* Once loaded, the runs on screen are those of the task in the URL, and   *)
(* none there was when the load began is missing, for any size of a page   *)
(* and any number of runs added between two of them.                       *)
THEOREM RunsAreComplete == PageSpec => []AllRunsOfThisTask
<1>1. PageInv => AllRunsOfThisTask
  BY DEF PageInv, Covered, AllRunsOfThisTask, OfTask, Holds, SetOf
<1> QED BY <1>1, PageInvariant, PTL

(* When nothing is under way, either each run on screen has its details or *)
(* the page says that they could not be loaded.                            *)
THEOREM DetailsAreThereOrFailed == PageSpec => []DetailsOrError
<1>1. PageInv => DetailsOrError
  BY DEF PageInv, PageTypes, Fetched, DetailsOrError
<1> QED BY <1>1, PageInvariant, PTL

(* A retry is asked for the task of the page, and one at a time unless one *)
(* of an earlier visit ends in this one.                                   *)
THEOREM RetriesAreOfThePage == PageSpec => []RetriesMatchPage
<1>1. ASSUME PageInv PROVE RetriesMatchPage
  <2>1. DOMAIN retries = 1 .. Len(retries) /\ RetriesFit
    BY <1>1 DEF PageInv, PageTypes
  <2>2. PICK retrying : retrying = {c \in 1 .. Len(retries) : retries[c].visit = visit /\ retries[c].at # "done"}
    OBVIOUS
  <2>3. \A c : c \in retrying <=> Retrying(c)
    BY <2>1, <2>2 DEF Retrying
  <2>4. ASSUME Undisturbed PROVE Cardinality(retrying) <= 1
    <3>1. CASE retrying = {}
      BY <3>1, FS_EmptySet
    <3>2. CASE retrying # {}
      <4>1. PICK c : retrying = {c}
        BY ZenonT(120), <2>1, <2>3, <2>4, <3>2 DEF RetriesFit, Retrying
      <4> QED BY SMTT(120), <4>1, FS_Singleton
    <3> QED BY <3>1, <3>2
  <2>5. Undisturbed <=> \A c \in 1 .. Len(retries) : retries[c].visit < visit => retries[c].ended # visit
    BY <2>1 DEF Undisturbed
  <2>6. /\ \A c \in 1 .. Len(retries) : retries[c].task = retries[c].page
        /\ retryInFlight # "none" => retrying # {}
    BY <2>1, <2>3 DEF RetriesFit, CallFits
  <2> QED BY <2>2, <2>4, <2>5, <2>6 DEF RetriesMatchPage
<1>2. PageInv => RetriesMatchPage
  BY <1>1
<1> QED BY <1>2, PageInvariant, PTL

(* After a successful retry in place the new run is on screen, whatever    *)
(* else was loaded, added or visited meanwhile.                            *)
THEOREM RetriedRunIsOnScreen == PageSpec => []RetriedRunIsShown
<1>1. ASSUME PageInv, NEW c \in 1 .. Len(retries),
             retries[c].at = "done", retries[c].run > 0, retries[c].task = taskId, ~RunLoading
      PROVE  retries[c].run \in {r.run : r \in SetOf(runs)}
  <2>1. retries[c].run \in Nat /\ known \in Nat /\ CallFits(retries[c])
    <3>1. retries[c] \in RetryCall /\ known \in Nat
      BY <1>1, ElementOfSeq DEF PageInv, PageTypes
    <3>2. c \in DOMAIN retries
      BY <1>1 DEF PageInv, PageTypes
    <3> QED BY <1>1, <3>1, <3>2 DEF PageInv, RetryCall, RetriesFit
  <2>2. retries[c].run \in 1 .. known
    BY <1>1, <2>1 DEF CallFits
  <2> QED BY <1>1, <2>2 DEF PageInv, Covered, Holds, SetOf
<1>2. PageInv => RetriedRunIsShown
  BY <1>1 DEF RetriedRunIsShown
<1> QED BY <1>2, PageInvariant, PTL

LEMMA PageTyped == PageInv => PageTypeOK
<1> SUFFICES ASSUME PageInv PROVE PageTypeOK
  OBVIOUS
<1>1. \A r \in SetOf(runs) : r \in Listed
  BY ElementOfSeq DEF PageInv, PageTypes, SetOf
<1>2. RunLoading => load.task = taskId
  BY DEF PageInv, Covered
<1> QED BY <1>1, <1>2 DEF PageInv, PageTypes, PageTypeOK, Listed

(* The variables of the page of a task have their types, and a load under  *)
(* way is of the task in the URL.                                          *)
THEOREM PageTypeCorrect == PageSpec => []PageTypeOK
BY PageTyped, PageInvariant, PTL

-----------------------------------------------------------------------------
(* The list views.                                                         *)

Even == {t \in Int : t % 2 = 0}
Selection == [kind : {"all", "relative", "around", "absolute"}, relKey : {undefined} \cup DOMAIN PresetLength,
              aroundCenter : {blank, invalid} \cup Int, aroundRadius : Int,
              absStart : {blank, invalid} \cup Even, absEnd : {blank, invalid} \cup Even]
ListTypes ==
  /\ entries \in Seq(Entry) /\ at \in 1 .. Len(entries)
  /\ selection \in Selection /\ (selection.kind = "relative" => selection.relKey \in DOMAIN PresetLength)
  /\ created \in 0 .. Len(Runs) /\ clock \in Nat
  /\ expanded \subseteq 1 .. Len(Runs) /\ details \subseteq 1 .. Len(Runs) /\ fetching \subseteq 1 .. Len(Runs)

(* The signals follow the URL, the window the selection, and the request,  *)
(* or what is shown when there is none, both.                              *)
Follows == signals = SignalsOf(Here) /\ range = RangeOf(selection, clock)
Requested ==
  IF Loading THEN request = Query(Here.view, signals, range)
  ELSE shown.query = Query(Here.view, signals, range)

(* Without a step through the history the URL carries the selection.       *)
Carried(params, s, r) == \A f \in DOMAIN NoTimeParams : params[f] = ToParamValue(ComputeParams(s, r)[f])
Linked == steady => Carried(Here.params, selection, range)

ListInv == ListTypes /\ Follows /\ Requested /\ Linked

(* The selector, as functions of a selection.                              *)

TimeName == {"around", "range", undefined, blank, invalid} \cup DOMAIN PresetLength
TimeParam == [time : TimeName, timeCenter : Moment, timeRadius : Moment, after : Moment, before : Moment]
Window == [after : {undefined} \cup Int, before : {undefined} \cup Int]
Selected(s) == s \in Selection /\ (s.kind = "relative" => s.relKey \in DOMAIN PresetLength)

LEMMA Distinct ==
  /\ undefined # blank /\ undefined # invalid /\ blank # invalid
  /\ undefined \notin Int /\ blank \notin Int /\ invalid \notin Int
  /\ \A v \in {"around", "range", undefined, blank, invalid} : v \notin DOMAIN PresetLength
  /\ \A v \in {undefined, blank, invalid} : v # "around" /\ v # "range"
BY SelectorAssumption

(* An input drops the seconds, and leaves what has none.                   *)
LEMMA WholeMinutes ==
  ASSUME NEW t \in Moment
  PROVE  /\ t \in Int => ToLocalInputValue(t) \in Even
         /\ t \notin Int => ToLocalInputValue(t) = t
         /\ t \in Even => ToLocalInputValue(t) = t
         /\ IsTime(t) <=> t \in Int
<1>1. IsTime(t) <=> t \in Int
  BY Distinct DEF IsTime, Moment
<1>2. ASSUME t \in Int PROVE t - (t % 2) \in Even
  BY <1>2 DEF Even
<1>3. t \in Even => t - (t % 2) = t /\ t \in Int
  BY DEF Even
<1> QED BY <1>1, <1>2, <1>3 DEF ToLocalInputValue

LEMMA MountedSelects ==
  ASSUME NEW p \in TimeParam, NEW now \in Int
  PROVE  Selected(Mounted(p, now))
<1>1. PICK s : s = RestoreState(p)
  OBVIOUS
<1>2. /\ s.kind \in {"all", "relative", "around", "absolute"} /\ s.relKey \in {undefined} \cup DOMAIN PresetLength
      /\ s.kind = "relative" => s.relKey \in DOMAIN PresetLength
  BY <1>1 DEF RestoreState
<1>3. PICK m : m = Mounted(p, now)
  OBVIOUS
<1>4. PICK a, b : /\ a = IF s.kind = "absolute" /\ p.after # undefined THEN ToLocalInputValue(p.after) ELSE blank
                  /\ b = IF s.kind = "absolute" /\ p.before # undefined THEN ToLocalInputValue(p.before) ELSE blank
  OBVIOUS
<1>5. PICK c : c = IF p.timeCenter = undefined THEN ToLocalInputValue(now) ELSE p.timeCenter
  OBVIOUS
<1>6. PICK r : r = IF IsTime(p.timeRadius) THEN p.timeRadius ELSE DefaultRadius
  OBVIOUS
<1>7. m = [kind |-> s.kind, relKey |-> s.relKey, aroundCenter |-> c, aroundRadius |-> r, absStart |-> a, absEnd |-> b]
  BY <1>1, <1>3, <1>4, <1>5, <1>6 DEF Mounted
<1>8. a \in {blank, invalid} \cup Even /\ b \in {blank, invalid} \cup Even
  BY <1>4, WholeMinutes DEF TimeParam, Moment
<1>9. c \in {blank, invalid} \cup Int
  <2>1. now \in Moment
    BY DEF Moment
  <2>2. ToLocalInputValue(now) \in Int
    BY <2>1, WholeMinutes DEF Even
  <2> QED BY <1>5, <2>2 DEF TimeParam, Moment
<1>10. r \in Int
  BY <1>6, WholeMinutes, SelectorAssumption DEF TimeParam
<1>11. m \in Selection
  BY <1>2, <1>7, <1>8, <1>9, <1>10 DEF Selection
<1> QED BY <1>2, <1>3, <1>7, <1>11 DEF Selected

LEMMA ChoicesSelect ==
  ASSUME NEW s, Selected(s), NEW now \in Int, NEW c \in Choices(s, now)
  PROVE  Selected(c)
<1>1. s \in Selection
  BY DEF Selected
<1>2. TypedTimes \subseteq Even /\ RadiusOptions \subseteq Int /\ TypedTimes \subseteq Int
  BY SelectorAssumption DEF Even
<1>3. ToLocalInputValue(now) \in Int
  BY WholeMinutes DEF Moment, Even
<1>4. CASE c = SelectAll(s)
  BY <1>1, <1>4 DEF SelectAll, Selection, Selected
<1>5. CASE c = SelectAround(s, now)
  <2>1. PICK t : t = IF s.kind = "around" THEN s.aroundCenter ELSE ToLocalInputValue(now)
    OBVIOUS
  <2>2. c = [s EXCEPT !.kind = "around", !.aroundCenter = t]
    BY <1>5, <2>1 DEF SelectAround
  <2>3. t \in {blank, invalid} \cup Int
    BY <1>1, <1>3, <2>1 DEF Selection
  <2> QED BY <1>1, <2>2, <2>3 DEF Selection, Selected
<1>6. CASE c = SelectAbsolute(s)
  BY <1>1, <1>6 DEF SelectAbsolute, Selection, Selected
<1>7. ASSUME NEW key \in DOMAIN PresetLength, c = SelectRelative(s, key) PROVE Selected(c)
  BY <1>1, <1>7 DEF SelectRelative, Selection, Selected
<1>8. CASE c \in AroundInputs(s)
  <2>1. s.kind = "around"
    BY <1>8 DEF AroundInputs
  <2>2. \/ \E t \in TypedTimes \cup {blank} : c = [s EXCEPT !.aroundCenter = t]
        \/ \E r \in RadiusOptions : c = [s EXCEPT !.aroundRadius = r]
    BY <1>8, <2>1 DEF AroundInputs
  <2>3. c \in Selection /\ c.kind = "around"
    BY <1>1, <1>2, <2>1, <2>2 DEF Selection
  <2> QED BY <2>3 DEF Selected
<1>9. CASE c \in AbsoluteInputs(s)
  <2>1. s.kind = "absolute"
    BY <1>9 DEF AbsoluteInputs
  <2>2. \/ \E t \in TypedTimes \cup {blank} : c = [s EXCEPT !.absStart = t]
        \/ \E t \in TypedTimes \cup {blank} : c = [s EXCEPT !.absEnd = t]
    BY <1>9, <2>1 DEF AbsoluteInputs
  <2>3. c \in Selection /\ c.kind = "absolute"
    BY <1>1, <1>2, <2>1, <2>2 DEF Selection
  <2> QED BY <2>3 DEF Selected
<1> QED BY <1>4, <1>5, <1>6, <1>7, <1>8, <1>9 DEF Choices

LEMMA RangeWindow ==
  ASSUME NEW s, Selected(s), NEW now \in Int
  PROVE  /\ RangeOf(s, now) \in Window
         /\ s.kind = "all" => RangeOf(s, now) = AllTime
         /\ s.kind = "relative" => RangeOf(s, now) = [AllTime EXCEPT !.after = now - PresetLength[s.relKey]]
         /\ s.kind = "around" => RangeOf(s, now) = IF IsTime(s.aroundCenter)
                                                   THEN [after |-> s.aroundCenter - s.aroundRadius,
                                                         before |-> s.aroundCenter + s.aroundRadius]
                                                   ELSE AllTime
         /\ s.kind = "absolute" =>
              RangeOf(s, now) = [after |-> IF s.absStart \in Even THEN s.absStart ELSE undefined,
                                 before |-> IF s.absEnd \in Even THEN s.absEnd ELSE undefined]
<1>1. s \in Selection /\ s.kind \in {"all", "relative", "around", "absolute"}
  BY DEF Selected, Selection
<1>2. AllTime \in Window
  BY DEF AllTime, Window
<1>3. CASE s.kind = "all"
  BY <1>2, <1>3 DEF RangeOf
<1>4. CASE s.kind = "relative"
  <2>1. PICK t : t = now - PresetLength[s.relKey]
    OBVIOUS
  <2>2. t \in Int
    BY <1>4, <2>1, SelectorAssumption DEF Selected
  <2>3. RangeOf(s, now) = [AllTime EXCEPT !.after = t]
    BY <1>4, <2>1 DEF RangeOf
  <2>4. [AllTime EXCEPT !.after = t] \in Window
    BY <2>2 DEF AllTime, Window
  <2> QED BY <1>4, <2>1, <2>3, <2>4
<1>5. CASE s.kind = "around"
  <2>1. s.aroundCenter \in Moment /\ s.aroundRadius \in Int
    BY <1>1 DEF Selection, Moment
  <2>2. IsTime(s.aroundCenter) => s.aroundCenter \in Int
    BY <2>1, WholeMinutes
  <2>3. RangeOf(s, now) = IF IsTime(s.aroundCenter)
                          THEN [after |-> s.aroundCenter - s.aroundRadius, before |-> s.aroundCenter + s.aroundRadius]
                          ELSE AllTime
    BY <1>5 DEF RangeOf
  <2> QED BY <1>2, <1>5, <2>1, <2>2, <2>3 DEF Window
<1>6. CASE s.kind = "absolute"
  <2>1. \A t \in {blank, invalid} \cup Even : t \in Moment
    BY DEF Moment, Even
  <2>2. \A t \in {blank, invalid} \cup Even : IsTime(t) <=> t \in Even
    BY <2>1, WholeMinutes, Distinct DEF Even
  <2>3. s.absStart \in {blank, invalid} \cup Even /\ s.absEnd \in {blank, invalid} \cup Even
    BY <1>1 DEF Selection
  <2>4. RangeOf(s, now) = [after |-> IF IsTime(s.absStart) THEN s.absStart ELSE undefined,
                           before |-> IF IsTime(s.absEnd) THEN s.absEnd ELSE undefined]
    BY <1>6 DEF RangeOf
  <2>5. RangeOf(s, now) = [after |-> IF s.absStart \in Even THEN s.absStart ELSE undefined,
                           before |-> IF s.absEnd \in Even THEN s.absEnd ELSE undefined]
    BY <2>2, <2>3, <2>4
  <2>6. RangeOf(s, now) \in Window
    BY <2>5 DEF Window, Even
  <2> QED BY <1>6, <2>5, <2>6
<1> QED BY <1>1, <1>3, <1>4, <1>5, <1>6

(* The parameters of a selection, which do not depend on the time of day.  *)
LEMMA ParamsOfSelection ==
  ASSUME NEW s, Selected(s), NEW r \in Window, NEW c, c = ComputeParams(s, r)
  PROVE  /\ c \in TimeParam
         /\ s.kind = "all" => c.time = undefined
         /\ s.kind = "relative" => c.time = s.relKey
         /\ s.kind = "around" => /\ c.time = "around" /\ c.timeCenter = s.aroundCenter
                                 /\ c.timeRadius = s.aroundRadius
         /\ s.kind = "absolute" => c.time = "range" /\ c.after = r.after /\ c.before = r.before
<1>1. s \in Selection /\ s.kind \in {"all", "relative", "around", "absolute"}
  BY DEF Selected, Selection
<1>2. CASE s.kind = "all"
  BY <1>2 DEF ComputeParams, NoTimeParams, TimeParam, TimeName, Moment
<1>3. CASE s.kind = "relative"
  <2>1. c = [NoTimeParams EXCEPT !.time = s.relKey] /\ s.relKey \in DOMAIN PresetLength
    BY <1>3 DEF ComputeParams, Selected
  <2> QED BY <1>3, <2>1 DEF NoTimeParams, TimeParam, TimeName, Moment
<1>4. CASE s.kind = "around"
  <2>1. /\ c = [NoTimeParams EXCEPT !.time = "around", !.timeCenter = s.aroundCenter, !.timeRadius = s.aroundRadius]
        /\ s.aroundCenter \in Moment /\ s.aroundRadius \in Moment
    BY <1>1, <1>4 DEF ComputeParams, Selection, Moment
  <2> QED BY <1>4, <2>1 DEF NoTimeParams, TimeParam, TimeName, Moment
<1>5. CASE s.kind = "absolute"
  <2>1. /\ c = [NoTimeParams EXCEPT !.time = "range", !.after = r.after, !.before = r.before]
        /\ r.after \in Moment /\ r.before \in Moment
    BY <1>5 DEF ComputeParams, Window, Moment
  <2> QED BY <1>5, <2>1 DEF NoTimeParams, TimeParam, TimeName, Moment
<1> QED BY <1>1, <1>2, <1>3, <1>4, <1>5

LEMMA ParamsStay ==
  ASSUME NEW s, Selected(s), NEW a \in Int, NEW b \in Int
  PROVE  ComputeParams(s, RangeOf(s, a)) = ComputeParams(s, RangeOf(s, b))
<1>1. RangeOf(s, a) \in Window /\ RangeOf(s, b) \in Window /\ s.kind \in {"all", "relative", "around", "absolute"}
  BY RangeWindow DEF Selected, Selection
<1>2. s.kind = "absolute" => RangeOf(s, a) = RangeOf(s, b)
  BY RangeWindow
<1>3. \A r, q : (s.kind = "absolute" => r = q) => ComputeParams(s, r) = ComputeParams(s, q)
  BY DEF ComputeParams
<1> QED BY <1>2, <1>3

(* A selector mounted with the parameters of a selection has the window of *)
(* that selection, unless the center of "around" has been cleared.         *)
LEMMA Reloads ==
  ASSUME NEW s, Selected(s), NEW now \in Int, NEW p \in TimeParam,
         Carried(p, s, RangeOf(s, now)), ~(s.kind = "around" /\ s.aroundCenter = blank),
         NEW m, m = Mounted(p, now)
  PROVE  m.kind = s.kind /\ RangeOf(m, now) = RangeOf(s, now)
<1>1. PICK r, c : r = RangeOf(s, now) /\ c = ComputeParams(s, r)
  OBVIOUS
<1>2. /\ s \in Selection /\ s.kind \in {"all", "relative", "around", "absolute"}
      /\ r \in Window /\ c \in TimeParam
  BY <1>1, RangeWindow, ParamsOfSelection DEF Selected, Selection
<1>3. /\ p.time = ToParamValue(c.time) /\ p.timeCenter = ToParamValue(c.timeCenter)
      /\ p.timeRadius = ToParamValue(c.timeRadius)
      /\ p.after = ToParamValue(c.after) /\ p.before = ToParamValue(c.before)
  BY <1>1 DEF Carried, NoTimeParams
<1>4. Selected(m)
  BY MountedSelects
<1>5. CASE s.kind = "all"
  <2>1. c.time = undefined
    BY <1>1, <1>2, <1>5, ParamsOfSelection
  <2>2. p.time = undefined
    BY <1>3, <2>1 DEF ToParamValue
  <2>3. RestoreState(p).kind = "all"
    BY <2>2, Distinct DEF RestoreState
  <2>4. m.kind = "all"
    BY <2>3 DEF Mounted
  <2> QED BY <1>4, <1>5, <2>4, RangeWindow
<1>6. CASE s.kind = "relative"
  <2>1. c.time = s.relKey /\ s.relKey \in DOMAIN PresetLength
    BY <1>1, <1>2, <1>6, ParamsOfSelection DEF Selected
  <2>2. p.time = s.relKey
    BY <1>3, <2>1, Distinct DEF ToParamValue
  <2>3. RestoreState(p) = [kind |-> "relative", relKey |-> s.relKey]
    BY <2>1, <2>2, Distinct DEF RestoreState
  <2>4. m.kind = "relative" /\ m.relKey = s.relKey
    BY <2>3 DEF Mounted
  <2> QED BY <1>4, <1>6, <2>4, RangeWindow
<1>7. CASE s.kind = "around"
  <2>1. /\ c.time = "around" /\ c.timeCenter = s.aroundCenter /\ c.timeRadius = s.aroundRadius
        /\ s.aroundCenter \in {invalid} \cup Int /\ s.aroundRadius \in Int
    BY <1>1, <1>2, <1>7, ParamsOfSelection DEF Selection
  <2>2. p.time = "around" /\ p.timeCenter = s.aroundCenter /\ p.timeRadius = s.aroundRadius
    BY <1>3, <2>1, Distinct DEF ToParamValue
  <2>3. RestoreState(p) = [kind |-> "around", relKey |-> undefined]
    BY <2>2, Distinct DEF RestoreState
  <2>4. p.timeCenter # undefined /\ IsTime(p.timeRadius)
    BY <2>1, <2>2, Distinct, WholeMinutes DEF Moment
  <2>5. m.kind = "around" /\ m.aroundCenter = s.aroundCenter /\ m.aroundRadius = s.aroundRadius
    BY <2>2, <2>3, <2>4 DEF Mounted
  <2> QED BY <1>4, <1>7, <2>5, RangeWindow
<1>8. CASE s.kind = "absolute"
  <2>1. /\ c.time = "range" /\ c.after = r.after /\ c.before = r.before
        /\ r = [after |-> IF s.absStart \in Even THEN s.absStart ELSE undefined,
                before |-> IF s.absEnd \in Even THEN s.absEnd ELSE undefined]
    BY <1>1, <1>2, <1>8, ParamsOfSelection, RangeWindow
  <2>2. r.after \in {undefined} \cup Even /\ r.before \in {undefined} \cup Even
    BY <2>1
  <2>3. p.time = "range" /\ p.after = r.after /\ p.before = r.before
    BY <1>3, <2>1, <2>2, Distinct DEF ToParamValue, Even
  <2>4. RestoreState(p) = [kind |-> "absolute", relKey |-> undefined]
    BY <2>3, Distinct DEF RestoreState
  <2>5. \A t \in {undefined} \cup Even : (IF t # undefined THEN ToLocalInputValue(t) ELSE blank)
                                        = IF t # undefined THEN t ELSE blank
    BY WholeMinutes DEF Moment, Even
  <2>6. /\ m.kind = "absolute"
        /\ m.absStart = (IF r.after # undefined THEN r.after ELSE blank)
        /\ m.absEnd = (IF r.before # undefined THEN r.before ELSE blank)
    BY <2>2, <2>3, <2>4, <2>5 DEF Mounted
  <2>7. undefined \notin Even /\ blank \notin Even
    BY Distinct DEF Even
  <2>8. RangeOf(m, now) = [after |-> IF m.absStart \in Even THEN m.absStart ELSE undefined,
                           before |-> IF m.absEnd \in Even THEN m.absEnd ELSE undefined]
    BY <1>4, <2>6, RangeWindow
  <2>9. /\ (IF m.absStart \in Even THEN m.absStart ELSE undefined) = r.after
        /\ (IF m.absEnd \in Even THEN m.absEnd ELSE undefined) = r.before
    BY <2>2, <2>6, <2>7
  <2>10. r = [after |-> r.after, before |-> r.before]
    BY <1>2 DEF Window
  <2> QED BY <1>1, <1>8, <2>6, <2>8, <2>9, <2>10
<1> QED BY <1>2, <1>5, <1>6, <1>7, <1>8

-----------------------------------------------------------------------------
(* The URL and the queries.                                                *)

Field == [search |-> Text, queue |-> Text, status |-> Text, taskName |-> Text, eventName |-> Text,
          time |-> TimeName, timeCenter |-> Moment, timeRadius |-> Moment, after |-> Moment, before |-> Moment,
          page |-> {undefined, invalid} \cup (Nat \ {0})]
Fields == DOMAIN NoParams
Fits(u) == DOMAIN u \subseteq Fields /\ \A f \in DOMAIN u : u[f] \in IF f = "page" THEN Nat ELSE Field[f]

LEMMA ParamFields ==
  /\ DOMAIN NoTimeParams \subseteq Fields /\ "page" \in Fields /\ "page" \notin DOMAIN NoTimeParams
  /\ \A p \in Params : DOMAIN p = Fields /\ \A f \in Fields : p[f] \in Field[f]
  /\ \A p : p = [f \in Fields |-> p[f]] /\ (\A f \in Fields : p[f] \in Field[f]) => p \in Params
  /\ \A f \in Fields : undefined \in Field[f]
<1>1. /\ Fields = {"search", "queue", "status", "taskName", "eventName", "time", "timeCenter", "timeRadius",
                   "after", "before", "page"}
      /\ DOMAIN NoTimeParams = {"time", "timeCenter", "timeRadius", "after", "before"}
  BY DEF Fields, NoParams, NoTimeParams
<1>2. /\ Field["search"] = Text /\ Field["queue"] = Text /\ Field["status"] = Text /\ Field["taskName"] = Text
      /\ Field["eventName"] = Text /\ Field["time"] = TimeName /\ Field["timeCenter"] = Moment
      /\ Field["timeRadius"] = Moment /\ Field["after"] = Moment /\ Field["before"] = Moment
      /\ Field["page"] = {undefined, invalid} \cup (Nat \ {0})
  BY DEF Field
<1>3. \A p \in Params : DOMAIN p = Fields /\ \A f \in Fields : p[f] \in Field[f]
  BY <1>1, <1>2 DEF Params, TimeName
<1>4. ASSUME NEW p, p = [f \in Fields |-> p[f]], \A f \in Fields : p[f] \in Field[f] PROVE p \in Params
  <2>1. /\ p["search"] \in Text /\ p["queue"] \in Text /\ p["status"] \in Text /\ p["taskName"] \in Text
        /\ p["eventName"] \in Text /\ p["time"] \in TimeName /\ p["timeCenter"] \in Moment
        /\ p["timeRadius"] \in Moment /\ p["after"] \in Moment /\ p["before"] \in Moment
        /\ p["page"] \in {undefined, invalid} \cup (Nat \ {0})
    BY <1>1, <1>2, <1>4
  <2>2. p = [search |-> p["search"], queue |-> p["queue"], status |-> p["status"], taskName |-> p["taskName"],
             eventName |-> p["eventName"], time |-> p["time"], timeCenter |-> p["timeCenter"],
             timeRadius |-> p["timeRadius"], after |-> p["after"], before |-> p["before"], page |-> p["page"]]
    BY <1>1, <1>4
  <2> QED BY <2>1, <2>2 DEF Params, TimeName
<1>5. undefined \in Text /\ undefined \in TimeName /\ undefined \in Moment
  BY DEF Text, TimeName, Moment
<1> QED BY <1>1, <1>2, <1>3, <1>4, <1>5

(* Parameters that are updated keep their types, and the others stay.      *)
LEMMA UpdatedParams ==
  ASSUME NEW p \in Params, NEW u, Fits(u), NEW v, v = Updated(p, u)
  PROVE  /\ v \in Params
         /\ \A f \in Fields \ {"page"} : v[f] = IF f \in DOMAIN u THEN ToParamValue(u[f]) ELSE p[f]
<1>1. PICK w : w = [f \in DOMAIN u |-> IF f = "page" THEN (IF u.page > 1 THEN u.page ELSE undefined) ELSE ToParamValue(u[f])]
  OBVIOUS
<1>2. DOMAIN w = DOMAIN u /\ DOMAIN p = Fields /\ DOMAIN u \subseteq Fields
  BY <1>1, ParamFields DEF Fits
<1>3. v = [x \in Fields |-> IF x \in DOMAIN u THEN w[x] ELSE p[x]]
  <2>1. v = Over(w, p)
    BY <1>1 DEF Updated
  <2>2. DOMAIN w \cup DOMAIN p = Fields
    BY <1>2
  <2> QED BY <1>2, <2>1, <2>2 DEF Over
<1>4. ASSUME NEW f \in DOMAIN u PROVE w[f] \in Field[f]
  <2>1. CASE f = "page"
    <3>1. u.page \in Nat
      BY <2>1 DEF Fits
    <3>2. w[f] = IF u.page > 1 THEN u.page ELSE undefined
      BY <1>1, <2>1
    <3>3. Field[f] = {undefined, invalid} \cup (Nat \ {0})
      BY <2>1 DEF Field
    <3> QED BY <3>1, <3>2, <3>3
  <2>2. CASE f # "page"
    <3>1. u[f] \in Field[f] /\ w[f] = ToParamValue(u[f])
      BY <1>1, <2>2 DEF Fits
    <3> QED BY <1>2, <3>1, ParamFields DEF ToParamValue
  <2> QED BY <2>1, <2>2
<1>5. \A f \in Fields : v[f] \in Field[f]
  BY <1>3, <1>4, ParamFields
<1>6. v \in Params
  <2>1. v = [f \in Fields |-> v[f]]
    BY <1>3
  <2> QED BY <1>5, <2>1, ParamFields
<1>7. \A f \in Fields \ {"page"} : v[f] = IF f \in DOMAIN u THEN ToParamValue(u[f]) ELSE p[f]
  BY <1>1, <1>3
<1> QED BY <1>6, <1>7

(* What is asked of the server is a query, never the absence of one.       *)
LEMMA QueriesAreQueries ==
  ASSUME NEW e \in Entry, NEW r \in Window
  PROVE  Query(e.view, SignalsOf(e), r) # undefined /\ SignalsOf(e).page \in Nat \ {0}
<1>1. PICK p : p = e.params
  OBVIOUS
<1>2. p \in Params /\ e.view \in {"tasks", "events"} /\ r.after \in Moment /\ r.before \in Moment
  BY <1>1 DEF Entry, Window, Moment
<1>3. undefined \in Text
  BY DEF Text
<1>4. /\ p.search \in Text /\ p.queue \in Text /\ p.status \in Text /\ p.taskName \in Text /\ p.eventName \in Text
      /\ p.page \in {undefined, invalid} \cup (Nat \ {0})
  BY <1>2 DEF Params
<1>5. \A v \in Text : NormalizeNullableParam(v) \in Text /\ Trim(v) \in Text
  BY <1>3 DEF NormalizeNullableParam, Trim
<1>6. ParsePageParam(p.page) \in Nat \ {0}
  BY <1>4 DEF ParsePageParam
<1>7. CASE e.view = "tasks"
  <2>1. PICK s : s = SignalsOf(e)
    OBVIOUS
  <2>2. s = TasksSignals(p)
    BY <1>1, <1>7, <2>1 DEF SignalsOf
  <2>3. /\ s.search \in Text /\ s.queue \in Text /\ s.status \in Text /\ s.taskName \in Text
        /\ s.page \in Nat \ {0}
    BY <1>4, <1>5, <1>6, <2>2 DEF TasksSignals
  <2>4. FetchTasks(s, r) \in TasksQuery
    BY <1>2, <1>5, <2>3 DEF FetchTasks, TasksQuery
  <2> QED BY <1>7, <2>1, <2>3, <2>4, ListAssumption DEF Query
<1>8. CASE e.view = "events"
  <2>1. PICK s : s = SignalsOf(e)
    OBVIOUS
  <2>2. s = EventLogSignals(p)
    BY <1>1, <1>8, <2>1 DEF SignalsOf
  <2>3. s.queue \in Text /\ s.eventName \in Text /\ s.page \in Nat \ {0}
    BY <1>4, <1>5, <2>2 DEF EventLogSignals
  <2>4. FetchEvents(s, r) \in EventsQuery
    BY <1>2, <1>5, <2>3 DEF FetchEvents, EventsQuery
  <2> QED BY <1>8, <2>1, <2>3, <2>4, ListAssumption DEF Query
<1> QED BY <1>2, <1>7, <1>8

(* The effect sets the signals the URL asks for.                           *)
LEMMA EffectFollows == \A s, e : SyncEffect(s, e) = SignalsOf(e)
BY DEF SyncEffect, SignalsOf, TasksSync, EventLogSync

LEMMA RunsCounted ==
  /\ Len(Runs) \in Nat \ {0} /\ DOMAIN Runs = 1 .. Len(Runs)
  /\ \A i \in 1 .. Len(Runs) : Runs[i].queue \in Text /\ Runs[i].status \in Text /\ Runs[i].taskName \in Text
<1>1. Len(Runs) \in Nat \ {0} /\ DOMAIN Runs = 1 .. Len(Runs)
  BY ListAssumption, EmptySeq
<1> QED BY <1>1 DEF Text

-----------------------------------------------------------------------------
(* What the steps have in common.                                          *)

LEMMA HereTyped == ASSUME ListTypes PROVE Here \in Entry
<1>1. entries \in Seq(Entry) /\ at \in 1 .. Len(entries)
  BY DEF ListTypes
<1> QED BY <1>1, ElementOfSeq DEF Here

(* The URL becomes the entry that is navigated to.                         *)
LEMMA Navigated ==
  ASSUME ListTypes, NEW e \in Entry, NEW replace, Navigate(e, replace)
  PROVE  Here' = e /\ entries' \in Seq(Entry) /\ at' \in 1 .. Len(entries')
<1>1. entries \in Seq(Entry) /\ at \in 1 .. Len(entries) /\ Len(entries) \in Nat
  BY LenProperties DEF ListTypes
<1>2. CASE e = Here
  BY <1>1, <1>2 DEF Navigate, Here
<1>3. CASE e # Here /\ replace
  <2>1. entries' = [entries EXCEPT ![at] = e] /\ at' = at
    BY <1>3 DEF Navigate
  <2>2. entries' \in Seq(Entry) /\ Len(entries') = Len(entries) /\ entries'[at] = e
    BY <1>1, <2>1, ExceptSeq
  <2> QED BY <1>1, <2>1, <2>2 DEF Here
<1>4. CASE e # Here /\ ~replace
  <2>1. PICK before : before = SubSeq(entries, 1, at)
    OBVIOUS
  <2>2. entries' = Append(before, e) /\ at' = at + 1
    BY <1>4, <2>1 DEF Navigate
  <2>3. before \in Seq(Entry) /\ Len(before) = at
    <3>1. \A i \in 1 .. at : entries[i] \in Entry
      BY <1>1, ElementOfSeq
    <3>2. at \in Int /\ 1 <= at
      BY <1>1
    <3> QED BY <2>1, <3>1, <3>2, SubSeqProperties
  <2>4. entries' \in Seq(Entry) /\ Len(entries') = at + 1 /\ entries'[at + 1] = e
    BY <2>2, <2>3, AppendProperties
  <2> QED BY <1>1, <2>2, <2>4 DEF Here
<1> QED BY <1>2, <1>3, <1>4

(* A change of what is asked is requested, and nothing else.               *)
LEMMA LoadRequests ==
  ASSUME Requested, NEW forced, Load(forced), Follows, Here' \in Entry, Here'.view = Here.view,
         signals' = SignalsOf(Here'), range' \in Window, UNCHANGED shown
  PROVE  Requested'
<1>1. CASE UNCHANGED request /\ <<signals', range'>> = <<signals, range>>
  BY <1>1 DEF Requested, Loading, Query, FetchTasks, FetchEvents
<1>2. CASE request' = Query(Here'.view, signals', range')
  <2>1. PICK e, r : e = Here' /\ r = range'
    OBVIOUS
  <2>2. Query(e.view, SignalsOf(e), r) # undefined
    BY <2>1, QueriesAreQueries
  <2>3. Loading'
    BY <1>2, <2>1, <2>2 DEF Loading
  <2> QED BY <1>2, <2>3 DEF Requested
<1> QED BY <1>1, <1>2 DEF Load

(* The URL is updated, by a filter or by the selector.                     *)
LEMMA UrlUpdated ==
  ASSUME ListTypes, NEW u, Fits(u), NEW replace, SyncSearchParams(u, replace)
  PROVE  /\ Here' \in Entry /\ Here'.view = Here.view /\ entries' \in Seq(Entry) /\ at' \in 1 .. Len(entries')
         /\ \A f \in Fields \ {"page"} :
              Here'.params[f] = IF f \in DOMAIN u THEN ToParamValue(u[f]) ELSE Here.params[f]
<1>1. PICK h, p : h = Here /\ p = h.params
  OBVIOUS
<1>2. h \in Entry /\ p \in Params
  <2>1. h \in Entry
    BY <1>1, HereTyped
  <2> QED BY <1>1, <2>1 DEF Entry
<1>3. PICK v : v = Updated(p, u)
  OBVIOUS
<1>4. /\ v \in Params
      /\ \A f \in Fields \ {"page"} : v[f] = IF f \in DOMAIN u THEN ToParamValue(u[f]) ELSE p[f]
  BY <1>2, <1>3, UpdatedParams
<1>5. PICK e : e = [h EXCEPT !.params = v]
  OBVIOUS
<1>6. e \in Entry /\ e.view = h.view /\ e.params = v
  BY <1>2, <1>4, <1>5 DEF Entry
<1>7. Navigate(e, replace)
  BY <1>1, <1>3, <1>5 DEF SyncSearchParams
<1>8. Here' = e /\ entries' \in Seq(Entry) /\ at' \in 1 .. Len(entries')
  BY <1>6, <1>7, Navigated
<1> QED BY <1>1, <1>4, <1>6, <1>8

(* A filter changes the URL but not the window in it.                      *)
LEMMA FilterInv ==
  ASSUME ListInv, NEW u, Fits(u), DOMAIN u \cap DOMAIN NoTimeParams = {},
         NEW replace, NEW forced, Filter(u, replace, forced)
  PROVE  ListInv'
<1>1. /\ ListTypes /\ Follows /\ Requested /\ Linked
      /\ SyncSearchParams(u, replace) /\ signals' = SyncEffect(signals, Here') /\ Load(forced)
      /\ UNCHANGED <<selection, range, shown, expanded, details, fetching, autoRefresh, steady, created, clock>>
  BY DEF ListInv, Filter, window, rows
<1>2. /\ Here' \in Entry /\ Here'.view = Here.view /\ entries' \in Seq(Entry) /\ at' \in 1 .. Len(entries')
      /\ \A f \in Fields \ {"page"} :
           Here'.params[f] = IF f \in DOMAIN u THEN ToParamValue(u[f]) ELSE Here.params[f]
  BY <1>1, UrlUpdated
<1>3. signals' = SignalsOf(Here')
  BY <1>1, EffectFollows
<1>4. range \in Window
  BY <1>1, RangeWindow DEF ListTypes, Follows, Selected
<1>5. ListTypes'
  BY <1>1, <1>2 DEF ListTypes
<1>6. Follows'
  BY <1>1, <1>3 DEF Follows
<1>7. Requested'
  BY <1>1, <1>2, <1>3, <1>4, LoadRequests
<1>8. Linked'
  <2>1. \A f \in DOMAIN NoTimeParams : Here'.params[f] = Here.params[f]
    BY <1>2, ParamFields
  <2> QED BY <1>1, <2>1 DEF Linked, Carried
<1> QED BY <1>5, <1>6, <1>7, <1>8 DEF ListInv

-----------------------------------------------------------------------------
(* The steps of the list views.                                            *)

(* Each handler of a filter updates parameters other than those of the     *)
(* window.                                                                 *)
LEMMA FiltersInv ==
  ASSUME ListInv,
         \/ \E v \in Searches \cup {undefined, blank} : EnterSearch(v)
         \/ \E v \in Queues \cup {undefined} : SelectQueue(v) \/ SelectEventQueue(v)
         \/ \E v \in Statuses \cup {undefined} : SelectStatus(v)
         \/ \E v \in TaskNames \cup {undefined} : SelectTaskName(v) \/ EnterTaskName(v)
         \/ \E v \in EventNames \cup {undefined, blank} : TypeEventName(v)
         \/ \E i \in 1 .. created, kind \in {"queue", "status", "taskName"} : ApplyFilter(kind, i)
         \/ PreviousPage \/ NextPage
  PROVE  ListInv'
<1>1. /\ Fields = {"search", "queue", "status", "taskName", "eventName", "time", "timeCenter", "timeRadius",
                   "after", "before", "page"}
      /\ DOMAIN NoTimeParams = {"time", "timeCenter", "timeRadius", "after", "before"}
  BY DEF Fields, NoParams, NoTimeParams
<1>2. /\ Field["search"] = Text /\ Field["queue"] = Text /\ Field["status"] = Text
      /\ Field["taskName"] = Text /\ Field["eventName"] = Text
  BY DEF Field
<1>3. \A v \in Searches \cup EventNames \cup Queues \cup Statuses \cup TaskNames \cup {undefined, blank} : v \in Text
  BY DEF Text
<1>4. /\ signals.page \in Nat \ {0}
      /\ Here.view = "tasks" => signals.taskName \in Text
  <2>1. PICK h, p : h = Here /\ p = h.params
    OBVIOUS
  <2>2. h \in Entry /\ signals = SignalsOf(h) /\ range \in Window
    BY <2>1, HereTyped, RangeWindow DEF ListInv, Follows, ListTypes, Selected
  <2>3. p \in Params
    BY <2>1, <2>2 DEF Entry
  <2>4. NormalizeNullableParam(p.taskName) \in Text
    BY <2>3 DEF Params, NormalizeNullableParam, Text
  <2>5. h.view = "tasks" => signals.taskName = NormalizeNullableParam(p.taskName)
    BY <2>1, <2>2 DEF SignalsOf, TasksSignals
  <2> QED BY <2>1, <2>2, <2>4, <2>5, QueriesAreQueries
<1>5. ASSUME NEW u, NEW replace, NEW forced, Filter(u, replace, forced), Fits(u),
             DOMAIN u \subseteq {"search", "queue", "status", "taskName", "eventName", "page"}
      PROVE  ListInv'
  BY <1>1, <1>5, FilterInv
<1>6. ASSUME NEW v \in Searches \cup {undefined, blank}, EnterSearch(v) PROVE ListInv'
  <2>1. PICK u : u = [search |-> v, page |-> 1]
    OBVIOUS
  <2>2. Fits(u)
    BY <1>1, <1>2, <1>3, <2>1 DEF Fits
  <2> QED BY <1>5, <1>6, <2>1, <2>2 DEF EnterSearch
<1>7. ASSUME NEW v \in Queues \cup {undefined}, SelectQueue(v) PROVE ListInv'
  <2>1. PICK n : n = IF v = undefined THEN undefined ELSE signals.taskName
    OBVIOUS
  <2>2. PICK u : u = [queue |-> v, taskName |-> n, page |-> 1]
    OBVIOUS
  <2>3. n \in Text /\ v \in Text
    BY <1>3, <1>4, <1>7, <2>1 DEF SelectQueue
  <2>4. Fits(u)
    BY <1>1, <1>2, <2>2, <2>3 DEF Fits
  <2> QED BY <1>5, <1>7, <2>1, <2>2, <2>4 DEF SelectQueue
<1>8. ASSUME NEW v \in Queues \cup {undefined}, SelectEventQueue(v) PROVE ListInv'
  <2>1. PICK u : u = [queue |-> v]
    OBVIOUS
  <2>2. Fits(u)
    BY <1>1, <1>2, <1>3, <2>1 DEF Fits
  <2> QED BY <1>5, <1>8, <2>1, <2>2 DEF SelectEventQueue
<1>9. ASSUME NEW v \in Statuses \cup {undefined}, SelectStatus(v) PROVE ListInv'
  <2>1. PICK u : u = [status |-> v, page |-> 1]
    OBVIOUS
  <2>2. Fits(u)
    BY <1>1, <1>2, <1>3, <2>1 DEF Fits
  <2> QED BY <1>5, <1>9, <2>1, <2>2 DEF SelectStatus
<1>10. ASSUME NEW v \in TaskNames \cup {undefined}, SelectTaskName(v) \/ EnterTaskName(v) PROVE ListInv'
  <2>1. PICK u : u = [taskName |-> v, page |-> 1]
    OBVIOUS
  <2>2. Fits(u)
    BY <1>1, <1>2, <1>3, <2>1 DEF Fits
  <2> QED BY <1>5, <1>10, <2>1, <2>2 DEF SelectTaskName, EnterTaskName
<1>11. ASSUME NEW v \in EventNames \cup {undefined, blank}, TypeEventName(v) PROVE ListInv'
  <2>1. PICK u : u = [eventName |-> v]
    OBVIOUS
  <2>2. Fits(u)
    BY <1>1, <1>2, <1>3, <2>1 DEF Fits
  <2> QED BY <1>5, <1>11, <2>1, <2>2 DEF TypeEventName
<1>12. ASSUME NEW i \in 1 .. created, NEW kind \in {"queue", "status", "taskName"}, ApplyFilter(kind, i)
       PROVE  ListInv'
  <2>1. PICK value : value = Runs[i][kind]
    OBVIOUS
  <2>2. PICK u : u = [f \in {kind, "page"} |-> IF f = "page" THEN 1
                                               ELSE IF signals[kind] = value THEN undefined ELSE value]
    OBVIOUS
  <2>3. i \in 1 .. Len(Runs)
    BY RunsCounted DEF ListInv, ListTypes
  <2>4. value \in Text /\ undefined \in Text
    BY <1>3, <2>1, <2>3, RunsCounted
  <2>5. Fits(u)
    BY <1>1, <1>2, <2>2, <2>4 DEF Fits
  <2> QED BY <1>5, <1>12, <2>1, <2>2, <2>5 DEF ApplyFilter
<1>13. ASSUME NEW n \in Nat, NEW u, u = [page |-> n] PROVE Fits(u)
  BY <1>1, <1>13 DEF Fits
<1>14. CASE PreviousPage
  <2>1. signals.page - 1 \in Nat
    BY <1>4
  <2> QED BY <1>5, <1>13, <1>14, <2>1 DEF PreviousPage
<1>15. CASE NextPage
  <2>1. signals.page + 1 \in Nat
    BY <1>4
  <2> QED BY <1>5, <1>13, <1>15, <2>1 DEF NextPage
<1> QED BY <1>6, <1>7, <1>8, <1>9, <1>10, <1>11, <1>12, <1>14, <1>15

(* The parameters of a window, as the updates of a view: they fit, and     *)
(* name no parameter of a filter but the page.                             *)
LEMMA TimeUpdatesFit ==
  ASSUME NEW c \in TimeParam, NEW view, NEW u, u = TimeUpdates(view, c)
  PROVE  /\ Fits(u) /\ \A f \in DOMAIN NoTimeParams : f \in DOMAIN u /\ u[f] = c[f]
<1>1. /\ DOMAIN c = DOMAIN NoTimeParams /\ \A f \in DOMAIN NoTimeParams : c[f] \in Field[f]
  BY DEF TimeParam, NoTimeParams, Field
<1>2. CASE view = "tasks"
  <2>1. u = Over(c, [page |-> 1])
    BY <1>2 DEF TimeUpdates
  <2>2. PICK q : q = [page |-> 1]
    OBVIOUS
  <2>3. DOMAIN q = {"page"} /\ q["page"] = 1
    BY <2>2
  <2>4. u = [x \in DOMAIN NoTimeParams \cup {"page"} |-> IF x \in DOMAIN NoTimeParams THEN c[x] ELSE q[x]]
    BY <1>1, <2>1, <2>2, <2>3 DEF Over
  <2> QED BY <1>1, <2>3, <2>4, ParamFields DEF Fits
<1>3. CASE view # "tasks"
  <2>1. u = c
    BY <1>3 DEF TimeUpdates
  <2> QED BY <1>1, <2>1, ParamFields DEF Fits
<1> QED BY <1>2, <1>3

(* The selector changes, and writes itself to the URL.                     *)
LEMMA ChooseTimeInv ==
  ASSUME ListInv, NEW s \in Choices(selection, clock), ChooseTime(s)
  PROVE  ListInv'
<1>1. PICK r, c, u : r = RangeOf(s, clock) /\ c = ComputeParams(s, r) /\ u = TimeUpdates(Here.view, c)
  OBVIOUS
<1>2. /\ ListTypes /\ Follows /\ Requested /\ Linked /\ selection' = s /\ range' = r
      /\ SyncSearchParams(u, TRUE) /\ signals' = SyncEffect(signals, Here') /\ Load(Here.view = "events")
      /\ UNCHANGED <<shown, expanded, details, fetching, autoRefresh, steady, created, clock>>
  BY <1>1 DEF ListInv, ChooseTime, rows
<1>3. Selected(s) /\ clock \in Int
  BY <1>2, ChoicesSelect DEF ListTypes, Selected
<1>4. r \in Window /\ c \in TimeParam
  BY <1>1, <1>3, RangeWindow, ParamsOfSelection
<1>5. Fits(u) /\ \A f \in DOMAIN NoTimeParams : f \in DOMAIN u /\ u[f] = c[f]
  BY <1>1, <1>4, TimeUpdatesFit
<1>6. /\ Here' \in Entry /\ Here'.view = Here.view /\ entries' \in Seq(Entry) /\ at' \in 1 .. Len(entries')
      /\ \A f \in Fields \ {"page"} :
           Here'.params[f] = IF f \in DOMAIN u THEN ToParamValue(u[f]) ELSE Here.params[f]
  BY <1>2, <1>5, UrlUpdated
<1>7. signals' = SignalsOf(Here')
  BY <1>2, EffectFollows
<1>8. ListTypes'
  BY <1>2, <1>3, <1>6 DEF ListTypes, Selected
<1>9. Follows'
  BY <1>1, <1>2, <1>7 DEF Follows
<1>10. Requested'
  BY <1>2, <1>4, <1>6, <1>7, LoadRequests
<1>11. Linked'
  <2>1. \A f \in DOMAIN NoTimeParams : Here'.params[f] = ToParamValue(c[f])
    BY <1>5, <1>6, ParamFields
  <2> QED BY <1>1, <1>2, <2>1 DEF Linked, Carried
<1> QED BY <1>8, <1>9, <1>10, <1>11 DEF ListInv

(* The timer moves a relative window on.                                   *)
LEMMA RelativeTickInv == ASSUME ListInv, RelativeTick PROVE ListInv'
<1>1. /\ ListTypes /\ Follows /\ Requested /\ Linked /\ clock' = clock + 1 /\ Load(FALSE)
      /\ range' = IF selection.kind = "relative" THEN RangeOf(selection, clock') ELSE range
      /\ UNCHANGED <<entries, at, signals, selection, shown, expanded, details, fetching, autoRefresh, steady, created>>
  BY DEF ListInv, RelativeTick, rows
<1>2. Selected(selection) /\ clock \in Int /\ clock' \in Int /\ clock' \in Nat
  BY <1>1 DEF ListTypes, Selected
<1>3. range' = RangeOf(selection, clock')
  <2>1. selection.kind # "relative" => RangeOf(selection, clock) = RangeOf(selection, clock')
    BY DEF RangeOf
  <2> QED BY <1>1, <2>1 DEF Follows
<1>4. Here' = Here /\ Here \in Entry
  BY <1>1, HereTyped DEF Here
<1>5. ListTypes'
  BY <1>1, <1>2 DEF ListTypes
<1>6. Follows'
  BY <1>1, <1>3, <1>4 DEF Follows
<1>7. Requested'
  <2>1. range' \in Window
    BY <1>2, <1>3, RangeWindow
  <2>2. signals' = SignalsOf(Here')
    BY <1>1, <1>4 DEF Follows
  <2> QED BY <1>1, <1>4, <2>1, <2>2, LoadRequests
<1>8. Linked'
  <2>1. ComputeParams(selection, range) = ComputeParams(selection, range')
    BY <1>1, <1>2, <1>3, ParamsStay DEF Follows
  <2> QED BY <1>1, <1>4, <2>1 DEF Linked, Carried
<1> QED BY <1>5, <1>6, <1>7, <1>8 DEF ListInv

(* Answers, refreshing, new runs and rows leave the URL and the window.    *)
LEMMA WindowStays ==
  ASSUME ListInv, UNCHANGED <<entries, at, signals, selection, range, steady, clock>>, Requested',
         created' \in 0 .. Len(Runs), expanded' \subseteq 1 .. Len(Runs), details' \subseteq 1 .. Len(Runs),
         fetching' \subseteq 1 .. Len(Runs)
  PROVE  ListInv'
<1>1. Here' = Here
  BY DEF Here
<1>2. ListTypes'
  BY DEF ListInv, ListTypes
<1>3. Follows'
  BY <1>1 DEF ListInv, Follows
<1>4. Linked'
  BY <1>1 DEF ListInv, Linked, Carried
<1> QED BY <1>2, <1>3, <1>4 DEF ListInv

LEMMA RequestStays ==
  ASSUME Requested, UNCHANGED <<entries, at, signals, range, request, shown>>
  PROVE  Requested'
<1>1. Here' = Here
  BY DEF Here
<1> QED BY <1>1 DEF Requested, Loading, Query, FetchTasks, FetchEvents

LEMMA AnswersInv ==
  ASSUME ListInv,
         \/ Answer \/ StaleAnswer \/ HandleRefresh \/ AutoRefresh \/ ToggleAutoRefresh \/ NewRun
         \/ \E i \in 1 .. created : HandleRowClick(i) \/ DetailAnswered(i) \/ DetailFails(i)
  PROVE  ListInv'
<1>1. /\ ListTypes /\ Follows /\ Requested /\ created \in 0 .. Len(Runs) /\ Len(Runs) \in Nat
      /\ expanded \subseteq 1 .. Len(Runs) /\ details \subseteq 1 .. Len(Runs) /\ fetching \subseteq 1 .. Len(Runs)
  BY RunsCounted DEF ListInv, ListTypes
<1>2. CASE Answer
  <2>1. /\ UNCHANGED <<entries, at, signals, selection, range, steady, clock, created, expanded, details, fetching>>
        /\ Loading /\ request' = undefined /\ shown' = Response(Here.view, request)
    BY <1>2 DEF Answer, window, rows
  <2>2. Response(Here.view, request).query = request
    BY DEF Response, TaskListResponse
  <2>3. Here' = Here /\ ~Loading'
    BY <2>1 DEF Here, Loading
  <2>4. shown'.query = Query(Here.view, signals, range)
    BY <1>1, <2>1, <2>2 DEF Requested
  <2>5. Requested'
    BY <2>1, <2>3, <2>4 DEF Requested, Query, FetchTasks, FetchEvents
  <2> QED BY <1>1, <2>1, <2>5, WindowStays
<1>3. CASE HandleRefresh \/ AutoRefresh
  <2>1. /\ UNCHANGED <<entries, at, signals, selection, range, steady, clock, created, expanded, details, fetching, shown>>
        /\ Load(TRUE)
    BY <1>3 DEF HandleRefresh, AutoRefresh, Refetch, window, rows
  <2>2. /\ Here' = Here /\ Here \in Entry /\ signals' = SignalsOf(Here') /\ range' \in Window
    BY <1>1, <2>1, HereTyped, RangeWindow DEF Here, Follows, ListTypes, Selected
  <2>3. Requested'
    BY <1>1, <2>1, <2>2, LoadRequests
  <2> QED BY <1>1, <2>1, <2>3, WindowStays
<1>4. CASE \/ StaleAnswer \/ ToggleAutoRefresh \/ NewRun
           \/ \E i \in 1 .. created : HandleRowClick(i) \/ DetailAnswered(i) \/ DetailFails(i)
  <2>1. UNCHANGED <<entries, at, signals, selection, range, steady, clock, request, shown>>
    BY <1>4 DEF StaleAnswer, ToggleAutoRefresh, NewRun, HandleRowClick, DetailAnswered, DetailFails, window, rows
  <2>2. /\ created' \in 0 .. Len(Runs) /\ expanded' \subseteq 1 .. Len(Runs) /\ details' \subseteq 1 .. Len(Runs)
        /\ fetching' \subseteq 1 .. Len(Runs)
    <3>1. CASE StaleAnswer \/ ToggleAutoRefresh
      BY <1>1, <3>1 DEF StaleAnswer, ToggleAutoRefresh, rows
    <3>2. CASE NewRun
      BY <1>1, <3>2 DEF NewRun, rows
    <3>3. ASSUME NEW i \in 1 .. created, HandleRowClick(i) \/ DetailAnswered(i) \/ DetailFails(i)
          PROVE  /\ created' = created /\ expanded' \subseteq 1 .. Len(Runs) /\ details' \subseteq 1 .. Len(Runs)
                 /\ fetching' \subseteq 1 .. Len(Runs)
      <4>1. i \in 1 .. Len(Runs)
        BY <1>1
      <4> QED BY <1>1, <3>3, <4>1 DEF HandleRowClick, DetailAnswered, DetailFails, StoreDetail
    <3> QED BY <1>1, <1>4, <3>1, <3>2, <3>3
  <2>3. Requested'
    BY <1>1, <2>1, RequestStays
  <2> QED BY <2>1, <2>2, <2>3, WindowStays
<1> QED BY <1>2, <1>3, <1>4

(* A view that is mounted has a selection of its URL, and writes it there. *)
LEMMA MountedUrl ==
  ASSUME NEW e \in Entry, NEW now \in Int, NEW m, m = MountedEntry(e, now),
         NEW s, s = SelectionOf(e, now), NEW r, r = RangeAt(e, now)
  PROVE  /\ m \in Entry /\ m.view = e.view /\ Selected(s) /\ r = RangeOf(s, now) /\ r \in Window
         /\ Carried(m.params, s, r)
<1>1. PICK p, t : p = e.params /\ t = TimeParams(p)
  OBVIOUS
<1>2. p \in Params
  BY <1>1 DEF Entry
<1>3. t \in TimeParam
  <2>1. /\ p.time \in TimeName /\ p.timeCenter \in Moment /\ p.timeRadius \in Moment
        /\ p.after \in Moment /\ p.before \in Moment
    BY <1>2 DEF Params, TimeName
  <2>2. t = [time |-> p.time, timeCenter |-> p.timeCenter, timeRadius |-> p.timeRadius,
             after |-> p.after, before |-> p.before]
    BY <1>1 DEF TimeParams, NoTimeParams
  <2> QED BY <2>1, <2>2 DEF TimeParam
<1>4. s = Mounted(t, now) /\ r = RangeOf(s, now)
  BY <1>1 DEF SelectionOf, RangeAt
<1>5. Selected(s) /\ r \in Window
  BY <1>3, <1>4, MountedSelects, RangeWindow
<1>6. PICK c, u, v : c = ComputeParams(s, r) /\ u = TimeUpdates(e.view, c) /\ v = Updated(p, u)
  OBVIOUS
<1>7. c \in TimeParam
  BY <1>5, <1>6, ParamsOfSelection
<1>8. Fits(u) /\ \A f \in DOMAIN NoTimeParams : f \in DOMAIN u /\ u[f] = c[f]
  BY <1>6, <1>7, TimeUpdatesFit
<1>9. /\ v \in Params
      /\ \A f \in Fields \ {"page"} : v[f] = IF f \in DOMAIN u THEN ToParamValue(u[f]) ELSE p[f]
  BY <1>2, <1>6, <1>8, UpdatedParams
<1>10. m = [e EXCEPT !.params = v]
  BY <1>1, <1>4, <1>6 DEF MountedEntry
<1>11. m \in Entry /\ m.view = e.view /\ m.params = v
  BY <1>9, <1>10 DEF Entry
<1>12. \A f \in DOMAIN NoTimeParams : v[f] = ToParamValue(c[f])
  BY <1>8, <1>9, ParamFields
<1> QED BY <1>4, <1>5, <1>6, <1>11, <1>12 DEF Carried

(* A step through the history, or along a link.                            *)
LEMMA ArriveInv ==
  ASSUME ListInv, NEW e \in Entry, NEW history \in Seq(Entry), NEW position \in 1 .. Len(history),
         history[position] = e, Arrive(e, history, position)
  PROVE  ListInv'
<1>1. /\ ListTypes /\ Follows /\ Requested /\ at' = position
      /\ clock \in Nat /\ clock \in Int /\ UNCHANGED <<created, clock>>
  BY DEF ListInv, ListTypes, Arrive
<1>2. CASE e.view = Here.view
  <2>1. /\ entries' = history /\ signals' = SyncEffect(signals, e) /\ steady' = FALSE /\ Load(FALSE)
        /\ UNCHANGED <<selection, range, shown, expanded, details, fetching>>
    BY <1>2 DEF Arrive, window, rows
  <2>2. Here' = e
    BY <1>1, <2>1 DEF Here
  <2>3. signals' = SignalsOf(Here') /\ range' \in Window
    BY <1>1, <2>1, <2>2, EffectFollows, RangeWindow DEF Follows, ListTypes, Selected
  <2>4. Requested'
    BY <1>1, <1>2, <2>1, <2>2, <2>3, LoadRequests
  <2>5. ListTypes'
    BY <1>1, <2>1 DEF ListTypes
  <2>6. Follows'
    BY <1>1, <2>1, <2>3 DEF Follows
  <2> QED BY <2>1, <2>4, <2>5, <2>6 DEF ListInv, Linked
<1>3. CASE e.view # Here.view
  <2>1. PICK m, s, r : m = MountedEntry(e, clock) /\ s = SelectionOf(e, clock) /\ r = RangeAt(e, clock)
    OBVIOUS
  <2>2. /\ entries' = [history EXCEPT ![position] = m] /\ selection' = s /\ range' = r
        /\ signals' = SignalsOf(Here') /\ request' = Query(e.view, signals', range')
        /\ expanded' = {} /\ details' = {} /\ fetching' = {}
    BY <1>3, <2>1 DEF Arrive
  <2>3. /\ m \in Entry /\ m.view = e.view /\ Selected(s) /\ r = RangeOf(s, clock) /\ r \in Window
        /\ Carried(m.params, s, r)
    BY ZenonT(60), <1>1, <2>1, MountedUrl
  <2>4. entries' \in Seq(Entry) /\ Len(entries') = Len(history) /\ entries'[position] = m
    BY <2>2, <2>3, ExceptSeq
  <2>5. Here' = m
    BY <1>1, <2>4 DEF Here
  <2>6. ListTypes'
    BY <1>1, <2>2, <2>3, <2>4 DEF ListTypes, Selected
  <2>7. Follows'
    BY <1>1, <2>2, <2>3 DEF Follows
  <2>8. Query(m.view, SignalsOf(m), r) # undefined
    BY <2>3, QueriesAreQueries
  <2>9. request' = Query(m.view, SignalsOf(m), r)
    BY <2>2, <2>3, <2>5
  <2>10. Requested'
    BY <2>2, <2>5, <2>8, <2>9 DEF Requested, Loading
  <2>11. Linked'
    BY <2>2, <2>3, <2>5 DEF Linked, Carried
  <2> QED BY <2>6, <2>7, <2>10, <2>11 DEF ListInv
<1> QED BY <1>2, <1>3

LEMMA HistoryInv ==
  ASSUME ListInv, Back \/ Forward \/ \E view \in {"tasks", "events"} : FollowLink(view)
  PROVE  ListInv'
<1>1. entries \in Seq(Entry) /\ at \in 1 .. Len(entries) /\ Len(entries) \in Nat
  BY LenProperties DEF ListInv, ListTypes
<1>2. CASE Back
  <2>1. PICK i : i = at - 1
    OBVIOUS
  <2>2. i \in 1 .. Len(entries) /\ Arrive(entries[i], entries, i)
    BY <1>1, <1>2, <2>1 DEF Back
  <2>3. entries[i] \in Entry
    BY <1>1, <2>2, ElementOfSeq
  <2> QED BY <1>1, <2>2, <2>3, ArriveInv
<1>3. CASE Forward
  <2>1. PICK i : i = at + 1
    OBVIOUS
  <2>2. i \in 1 .. Len(entries) /\ Arrive(entries[i], entries, i)
    BY <1>1, <1>3, <2>1 DEF Forward
  <2>3. entries[i] \in Entry
    BY <1>1, <2>2, ElementOfSeq
  <2> QED BY <1>1, <2>2, <2>3, ArriveInv
<1>4. ASSUME NEW view \in {"tasks", "events"}, FollowLink(view) PROVE ListInv'
  <2>1. PICK e, before : e = [view |-> view, params |-> NoParams] /\ before = SubSeq(entries, 1, at)
    OBVIOUS
  <2>2. e \in Entry
    <3>1. NoParams \in Params
      BY DEF NoParams, Params, Text, Moment
    <3> QED BY <2>1, <3>1 DEF Entry
  <2>3. before \in Seq(Entry) /\ Len(before) = at
    <3>1. \A i \in 1 .. at : entries[i] \in Entry
      BY <1>1, ElementOfSeq
    <3>2. at \in Int /\ 1 <= at
      BY <1>1
    <3> QED BY <2>1, <3>1, <3>2, SubSeqProperties
  <2>4. PICK history : history = Append(before, e)
    OBVIOUS
  <2>5. history \in Seq(Entry) /\ Len(history) = at + 1 /\ history[at + 1] = e
    BY <2>2, <2>3, <2>4, AppendProperties
  <2>6. Arrive(e, history, at + 1) /\ at + 1 \in 1 .. Len(history)
    BY <1>1, <1>4, <2>1, <2>4, <2>5 DEF FollowLink
  <2> QED BY <2>2, <2>5, <2>6, ArriveInv
<1> QED BY <1>2, <1>3, <1>4

LEMMA ListInitInv == ListInit => ListInv
<1> SUFFICES ASSUME ListInit PROVE ListInv
  OBVIOUS
<1>1. PICK e \in StartEntries : /\ entries = <<MountedEntry(e, 0)>> /\ at = 1
                                /\ selection = SelectionOf(e, 0) /\ range = RangeAt(e, 0)
  BY DEF ListInit
<1>2. PICK m, s, r : m = MountedEntry(e, 0) /\ s = SelectionOf(e, 0) /\ r = RangeAt(e, 0)
  OBVIOUS
<1>3. e \in Entry /\ 0 \in Int
  BY ListAssumption
<1>4. /\ m \in Entry /\ Selected(s) /\ r = RangeOf(s, 0) /\ r \in Window /\ Carried(m.params, s, r)
  BY <1>2, <1>3, MountedUrl
<1>5. entries \in Seq(Entry) /\ Len(entries) = 1 /\ Here = m
  BY <1>1, <1>2, <1>4 DEF Here
<1>6. /\ signals = SignalsOf(Here) /\ request = Query(Here.view, signals, range)
      /\ expanded = {} /\ details = {} /\ fetching = {} /\ created = Len(Runs) - 1 /\ clock = 0
  BY DEF ListInit
<1>7. ListTypes
  BY <1>1, <1>2, <1>4, <1>5, <1>6, RunsCounted DEF ListTypes, Selected
<1>8. Follows
  BY <1>1, <1>2, <1>4, <1>6 DEF Follows
<1>9. Requested
  BY <1>1, <1>2, <1>4, <1>5, <1>6, QueriesAreQueries DEF Requested, Loading
<1>10. Linked
  BY <1>1, <1>2, <1>4, <1>5 DEF Linked
<1> QED BY <1>7, <1>8, <1>9, <1>10 DEF ListInv

LEMMA ListStep == ASSUME ListInv, [ListNext]_listVars PROVE ListInv'
<1>1. CASE ListNext
  BY <1>1, FiltersInv, ChooseTimeInv, RelativeTickInv, AnswersInv, HistoryInv DEF ListNext
<1>2. CASE UNCHANGED listVars
  <2>1. UNCHANGED <<entries, at, signals, selection, range, request, shown, steady, clock, created,
                    expanded, details, fetching>>
    BY <1>2 DEF listVars, window, rows
  <2>2. Requested'
    BY <2>1, RequestStays DEF ListInv
  <2> QED BY <2>1, <2>2, WindowStays DEF ListInv, ListTypes
<1> QED BY <1>1, <1>2

LEMMA ListInvariant == ListSpec => []ListInv
BY ListInitInv, ListStep, PTL DEF ListSpec

(* When nothing is being loaded the list on screen answers what the URL    *)
(* says, for any filters, runs, history and order of requests and answers. *)
THEOREM ListShowsUrl == ListSpec => []ShowsWhatUrlAsks
<1>1. ListInv => ShowsWhatUrlAsks
  BY DEF ListInv, Follows, Requested, ShowsWhatUrlAsks
<1> QED BY <1>1, ListInvariant, PTL

(* Until a step through the history, a page loaded from the URL shows the  *)
(* window that is on screen: for any presets, times and radii.             *)
THEOREM LinksShowWindow == ListSpec => []LinkShowsWindow
<1>1. ASSUME ListInv, steady, ~(selection.kind = "around" /\ selection.aroundCenter = blank)
      PROVE  LET reloaded == SelectionOf(Here, clock)
             IN reloaded.kind = selection.kind /\ RangeOf(reloaded, clock) = RangeOf(selection, clock)
  <2>1. PICK h, p, m : h = Here /\ p = TimeParams(h.params) /\ m = SelectionOf(h, clock)
    OBVIOUS
  <2>2. h \in Entry /\ Selected(selection) /\ clock \in Int /\ range = RangeOf(selection, clock)
    BY <1>1, <2>1, HereTyped DEF ListInv, ListTypes, Follows, Selected
  <2>3. h.params \in Params
    BY <2>2 DEF Entry
  <2>4. p = [f \in DOMAIN NoTimeParams |-> h.params[f]]
    BY <2>1 DEF TimeParams
  <2>5. p \in TimeParam
    <3>1. /\ h.params.time \in TimeName /\ h.params.timeCenter \in Moment /\ h.params.timeRadius \in Moment
          /\ h.params.after \in Moment /\ h.params.before \in Moment
      BY <2>3 DEF Params, TimeName
    <3>2. p = [time |-> h.params.time, timeCenter |-> h.params.timeCenter, timeRadius |-> h.params.timeRadius,
               after |-> h.params.after, before |-> h.params.before]
      BY <2>4 DEF NoTimeParams
    <3> QED BY <3>1, <3>2 DEF TimeParam
  <2>6. Carried(p, selection, RangeOf(selection, clock))
    BY <1>1, <2>1, <2>2, <2>4 DEF ListInv, Linked, Carried
  <2>7. m = Mounted(p, clock)
    BY <2>1 DEF SelectionOf
  <2> QED BY <1>1, <2>1, <2>2, <2>5, <2>6, <2>7, Reloads
<1>2. ListInv => LinkShowsWindow
  BY <1>1 DEF LinkShowsWindow
<1> QED BY <1>2, ListInvariant, PTL

LEMMA ListTyped == ListInv => ListTypeOK
<1> SUFFICES ASSUME ListInv PROVE ListTypeOK
  OBVIOUS
<1>1. PICK h, r : h = Here /\ r = range
  OBVIOUS
<1>2. h \in Entry /\ signals = SignalsOf(h) /\ r \in Window
  BY <1>1, HereTyped, RangeWindow DEF ListInv, Follows, ListTypes, Selected
<1>3. h.view \in {"tasks", "events"} /\ DOMAIN h.params = DOMAIN NoParams
  BY <1>2, ParamFields DEF Entry, Fields
<1>4. signals.page \in Nat \ {0}
  BY <1>2, QueriesAreQueries
<1>5. DOMAIN r = DOMAIN AllTime
  BY <1>2 DEF Window, AllTime
<1> QED BY <1>1, <1>3, <1>4, <1>5 DEF ListInv, ListTypes, ListTypeOK, Selection

(* The variables of the list views have their types.                       *)
THEOREM ListTypeCorrect == ListSpec => []ListTypeOK
BY ListTyped, ListInvariant, PTL

-----------------------------------------------------------------------------
(* The two together: a tab shows one of them, and the other stays.         *)

LEMMA HabitatInvariant == Spec => [](ListInv /\ PageInv)
<1>1. HabitatInit => ListInv /\ PageInv
  BY ListInitInv, PageInitInv DEF HabitatInit, ListsOff
<1>2. (ListInv /\ PageInv) /\ [HabitatNext]_habitatVars => (ListInv /\ PageInv)'
  <2> SUFFICES ASSUME ListInv, PageInv, [HabitatNext]_habitatVars PROVE ListInv' /\ PageInv'
    OBVIOUS
  <2>1. [ListNext]_listVars /\ [PageNext]_pageVars
    BY DEF HabitatNext, habitatVars
  <2> QED BY <2>1, ListStep, PageStep
<1> QED BY <1>1, <1>2, PTL DEF Spec

(* The variables of Habitat's pages have their types together.             *)
THEOREM HabitatTypeCorrect == Spec => []HabitatTypeOK
<1>1. ListInv /\ PageInv => HabitatTypeOK
  BY ListTyped, PageTyped DEF HabitatTypeOK
<1> QED BY <1>1, HabitatInvariant, PTL
=============================================================================
