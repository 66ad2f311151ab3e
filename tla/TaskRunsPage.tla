---------------------------- MODULE TaskRunsPage ----------------------------
(***************************************************************************)
(* Habitat's page of one task: its runs, loaded page by page, their        *)
(* details, and the retry of a failed task.  The page stays mounted when   *)
(* the browser goes from one task to another, and what was started for the *)
(* first task goes on.  A failing list request is left out, as in          *)
(* ListPages; so is a history of more than MAX_RUNS_PAGE_FETCH pages.      *)
(*                                                                         *)
(*   taskId, visit   the task of the URL, and how often it has changed     *)
(*   runs, load      the resource: its value, which stays that of the last *)
(*                   load, and the load whose result counts                *)
(*   known           for the properties: runs there were when the last     *)
(*                   load began                                            *)
(*   runDetails, batch, detailError   details of runs, by id; the requests *)
(*                   for those missing, which are answered together        *)
(*   dialog, spawnNew, retryInFlight, message   the retry dialog           *)
(*   retries         the calls of handleRetry                              *)
(*   attempts        task -> the states of its runs, in the database       *)
(*   BOUNDS: MaxVisits, MaxRetries, MaxAttempts                            *)
(***************************************************************************)
EXTENDS Naturals, Sequences, FiniteSets

CONSTANTS TaskIds, StartTask, StartAttempts, RunsPageSize, MaxVisits, MaxRetries, MaxAttempts, none

VARIABLES taskId, visit, runs, load, known, runDetails, batch, detailError,
          dialog, spawnNew, retryInFlight, message, retries, attempts
detailVars == <<runDetails, batch, detailError>>
retryState == <<dialog, spawnNew, retryInFlight, message>>
pageVars == <<taskId, visit, runs, load, known, runDetails, batch, detailError,
              dialog, spawnNew, retryInFlight, message, retries, attempts>>

RunLoading == load # none
SetOf(s) == {s[i] : i \in DOMAIN s}

(* A run as it is listed, a load of the runs, and a call of handleRetry.   *)
Status == {"running", "failed"}
Listed == [task : TaskIds, run : 1 .. MaxAttempts, status : Status]
RunsLoad == [task : TaskIds, page : Nat \ {0}, results : Seq(Listed), by : Nat]
RetryCall == [task : TaskIds, page : TaskIds, visit : Nat, kind : {"spawn", "inplace"},
              at : {"sent", "retried", "refused", "refreshing", "done"}, run : Nat, ended : Nat]

(* A task has been run when the page is opened; none is nothing else.      *)
ASSUME PageAssumption ==
  /\ StartTask \in TaskIds /\ StartAttempts \in [TaskIds -> Seq(Status)]
  /\ \A t \in TaskIds : Len(StartAttempts[t]) \in 1 .. MaxAttempts
  /\ RunsPageSize \in Nat \ {0} /\ MaxVisits \in Nat \ {0} /\ MaxRetries \in Nat /\ MaxAttempts \in Nat
  /\ none \notin RunsLoad /\ \A S \in SUBSET (TaskIds \X (1 .. MaxAttempts)) : none # S

-----------------------------------------------------------------------------
(* The server: runs of a task, the newest first.                           *)

RunsPage(t, page) ==
  LET n == Len(attempts[t])
      newestFirst == [i \in 1 .. n |-> [task |-> t, run |-> n + 1 - i, status |-> attempts[t][n + 1 - i]]]
      last == page * RunsPageSize
  IN [items |-> SubSeq(newestFirst, last - RunsPageSize + 1, IF last < n THEN last ELSE n),
      hasMore |-> n > last]

(* A failed run is followed by another, or the task has failed.            *)
Latest(t) == attempts[t][Len(attempts[t])]
RunEnds(t) ==
  /\ Latest(t) = "running"
  /\ LET ended == [attempts[t] EXCEPT ![Len(attempts[t])] = "failed"]
     IN \/ attempts' = [attempts EXCEPT ![t] = ended]
        \/ Len(ended) < MaxAttempts /\ attempts' = [attempts EXCEPT ![t] = Append(ended, "running")]
  /\ UNCHANGED <<taskId, visit, runs, load, known, detailVars, retryState, retries>>

-----------------------------------------------------------------------------
(* Runs and their details.                                                 *)

(* The effect on runs and runDetails: the batch under way is cancelled,    *)
(* and the details that are missing are fetched.                           *)
Missing(list, cached) == {r \in SetOf(list) : <<r.task, r.run>> \notin cached}
FetchMissing ==
  batch' = LET missing == Missing(runs', runDetails')
           IN IF missing = {} THEN none ELSE {<<r.task, r.run>> : r \in missing}

(* A load of the runs begins: of a new task, by Refresh (by = 0) or by a   *)
(* retry.                                                                  *)
BeginLoad(t, by) ==
  /\ load' = [task |-> t, page |-> 1, results |-> <<>>, by |-> by]
  /\ known' = Len(attempts[t])

LastPageOnly(results, items) == items  \* a mistake: the pages before are dropped
Concat(results, items) == results \o items
(* fetchRunsForTask: one page, and the next if there is more.              *)
PageAnswered ==
  /\ RunLoading
  /\ LET page == RunsPage(load.task, load.page)
         results == Concat(load.results, page.items)
     IN IF page.hasMore
        THEN /\ load' = [load EXCEPT !.page = @ + 1, !.results = results]
             /\ UNCHANGED <<runs, batch>>
        ELSE /\ runs' = results /\ load' = none /\ runDetails' = runDetails /\ FetchMissing
  /\ UNCHANGED <<taskId, visit, known, runDetails, detailError, retryState, retries, attempts>>

(* Promise.all: all of the batch, or none.                                 *)
BatchAnswered ==
  /\ batch # none
  /\ runDetails' = runDetails \cup batch /\ detailError' = FALSE
  /\ runs' = runs /\ FetchMissing
  /\ UNCHANGED <<taskId, visit, load, known, retryState, retries, attempts>>
FailsSilently ==  \* a mistake: the failure is not shown
  batch # none /\ batch' = none /\ UNCHANGED detailError
FailBatch == batch # none /\ batch' = none /\ detailError' = TRUE
BatchFails ==
  /\ FailBatch
  /\ UNCHANGED <<taskId, visit, runs, load, known, runDetails, retryState, retries, attempts>>

ResetDetails ==
  runDetails' = {} /\ detailError' = FALSE /\ runs' = runs /\ FetchMissing

(* handleRefresh: the details are dropped, which fetches those of the runs *)
(* on screen until the runs have been loaded again.                        *)
Refreshes(by) ==
  ResetDetails /\ BeginLoad(taskId, by)
RefreshRuns ==
  /\ ~RunLoading /\ retryInFlight = "none" /\ ~dialog
  /\ Refreshes(0)
  /\ UNCHANGED <<taskId, visit, retryState, retries, attempts>>

(* Another task: its runs are loaded, and everything else is reset; until  *)
(* they are there runs still holds those of the task before.               *)
ResetRetry == dialog' = FALSE /\ spawnNew' = FALSE /\ retryInFlight' = "none" /\ message' = "none"
Visit(t) ==
  /\ t # taskId /\ visit < MaxVisits
  /\ taskId' = t /\ visit' = visit + 1
  /\ ResetDetails /\ ResetRetry /\ BeginLoad(t, 0)
  /\ UNCHANGED <<retries, attempts>>

-----------------------------------------------------------------------------
(* Retry.                                                                  *)

(* canRetry: the newest of the runs on screen has failed.                  *)
CanRetry == runs # <<>> /\ runs[1].status = "failed"

OpenRetryDialog ==
  /\ CanRetry /\ ~RunLoading /\ retryInFlight = "none" /\ ~dialog
  /\ dialog' = TRUE /\ spawnNew' = FALSE /\ message' = "none"
  /\ UNCHANGED <<taskId, visit, runs, load, known, detailVars, retryInFlight, retries, attempts>>
ToggleSpawn ==
  /\ dialog /\ spawnNew' = ~spawnNew
  /\ UNCHANGED <<taskId, visit, runs, load, known, detailVars, dialog, retryInFlight, message, retries, attempts>>
CloseDialog ==
  /\ dialog /\ dialog' = FALSE
  /\ UNCHANGED <<taskId, visit, runs, load, known, detailVars, spawnNew, retryInFlight, message, retries, attempts>>

MayClickTwice == dialog  \* a mistake: the button works while a retry is in flight
MayClickRetry == dialog /\ retryInFlight = "none"
(* handleRetry, up to its request; the number entered is valid.            *)
HandleRetry ==
  /\ MayClickRetry /\ Len(retries) < MaxRetries
  /\ IF ~CanRetry
     THEN message' = "error" /\ UNCHANGED <<retryInFlight, retries>>
     ELSE /\ message' = "none"
          /\ retryInFlight' = IF spawnNew THEN "spawn" ELSE "inplace"
          /\ retries' = Append(retries, [task |-> runs[1].task, page |-> taskId, visit |-> visit,
                                         kind |-> retryInFlight', at |-> "sent", run |-> 0, ended |-> 0])
  /\ UNCHANGED <<taskId, visit, runs, load, known, detailVars, dialog, spawnNew, attempts>>

(* The server retries a failed task, in place or as a new one; the request *)
(* fails before or after.                                                  *)
RetryOnServer(c) ==
  LET call == retries[c]
      done == Latest(call.task) = "failed" /\ (call.kind = "inplace" => Len(attempts[call.task]) < MaxAttempts)
  IN /\ call.at = "sent"
     /\ \/ UNCHANGED attempts /\ retries' = [retries EXCEPT ![c].at = "refused"]
        \/ /\ done
           /\ attempts' = IF call.kind = "spawn" THEN attempts
                          ELSE [attempts EXCEPT ![call.task] = Append(@, "running")]
           /\ \E at \in {"retried", "refused"} :
                retries' = [retries EXCEPT ![c].at = at,
                                           ![c].run = IF at = "retried" /\ call.kind = "inplace"
                                                      THEN Len(attempts'[call.task]) ELSE 0]
     /\ UNCHANGED <<taskId, visit, runs, load, known, detailVars, retryState>>

WithoutRefresh(c) ==  \* a mistake: the page is not refreshed after a retry
  /\ message' = "success" /\ dialog' = FALSE /\ retryInFlight' = "none"
  /\ retries' = [retries EXCEPT ![c].at = "done", ![c].ended = visit]
  /\ UNCHANGED <<runs, load, known, detailVars>>
(* The answer of the server, whatever task the page now shows.             *)
Retried(c) ==
  /\ message' = "success" /\ dialog' = FALSE /\ UNCHANGED retryInFlight
  /\ Refreshes(c)
  /\ retries' = [retries EXCEPT ![c].at = "refreshing"]
RetryAnswered(c) ==
  /\ retries[c].at = "retried" /\ Retried(c)
  /\ UNCHANGED <<taskId, visit, spawnNew, attempts>>

Refused(c) == message' = "error" /\ retryInFlight' = "none"
RetryRefused(c) ==
  /\ retries[c].at = "refused" /\ Refused(c)
  /\ retries' = [retries EXCEPT ![c].at = "done", ![c].ended = visit]
  /\ UNCHANGED <<taskId, visit, runs, load, known, detailVars, dialog, spawnNew, attempts>>
(* finally, once the refresh of this call has ended.                       *)
RetryRefreshed(c) ==
  /\ retries[c].at = "refreshing" /\ (RunLoading => load.by # c)
  /\ retryInFlight' = "none"
  /\ retries' = [retries EXCEPT ![c].at = "done", ![c].ended = visit]
  /\ UNCHANGED <<taskId, visit, runs, load, known, detailVars, dialog, spawnNew, message, attempts>>

PageInit ==
  /\ taskId = StartTask /\ visit = 1
  /\ attempts = StartAttempts
  /\ runs = <<>> /\ known = Len(attempts[taskId])
  /\ load = [task |-> taskId, page |-> 1, results |-> <<>>, by |-> 0]
  /\ runDetails = {} /\ batch = none /\ detailError = FALSE
  /\ dialog = FALSE /\ spawnNew = FALSE /\ retryInFlight = "none" /\ message = "none"
  /\ retries = <<>>

PageNext ==
  \/ \E t \in TaskIds : RunEnds(t) \/ Visit(t)
  \/ PageAnswered \/ BatchAnswered \/ BatchFails \/ RefreshRuns
  \/ OpenRetryDialog \/ ToggleSpawn \/ CloseDialog \/ HandleRetry
  \/ \E c \in 1 .. Len(retries) :
       RetryOnServer(c) \/ RetryAnswered(c) \/ RetryRefused(c) \/ RetryRefreshed(c)

PageSpec == PageInit /\ [][PageNext]_pageVars

-----------------------------------------------------------------------------
(* The types of the variables.                                             *)
PageTypeOK ==
  /\ taskId \in TaskIds /\ visit \in 1 .. MaxVisits
  /\ \A r \in SetOf(runs) : r.task \in TaskIds /\ r.run \in 1 .. MaxAttempts
  /\ RunLoading => load.task = taskId
  /\ {dialog, spawnNew, detailError} \subseteq BOOLEAN
  /\ retryInFlight \in {"none", "inplace", "spawn"} /\ message \in {"none", "success", "error"}
  /\ Len(retries) <= MaxRetries

(* Once loaded, the runs are those of the task in the URL, and none that   *)
(* was there when the load began is missing, whatever runs were added      *)
(* between its pages and whichever tasks were visited before.              *)
AllRunsOfThisTask ==
  ~RunLoading =>
    /\ \A r \in SetOf(runs) : r.task = taskId
    /\ 1 .. known \subseteq {r.run : r \in SetOf(runs)}

(* When nothing is under way, either every run on screen has its details   *)
(* or the page says that they could not be loaded, and never both.         *)
DetailsOrError ==
  ~RunLoading /\ batch = none /\ runs # <<>>
    => (detailError <=> Missing(runs, runDetails) # {})

(* A retry is asked for the task whose page the user is on, although the   *)
(* runs of the task before stay on screen while the next are loaded.  The  *)
(* buttons are disabled only while a retry of this visit is under way, and *)
(* there is one at a time, unless one of an earlier visit ended in this    *)
(* one: its finally then clears the flag of the other.                     *)
RetriesMatchPage ==
  LET retrying == {c \in 1 .. Len(retries) : retries[c].visit = visit /\ retries[c].at # "done"}
  IN /\ \A c \in 1 .. Len(retries) : retries[c].task = retries[c].page
     /\ retryInFlight # "none" => retrying # {}
     /\ (\A c \in 1 .. Len(retries) : retries[c].visit < visit => retries[c].ended # visit)
          => Cardinality(retrying) <= 1

(* After a successful retry in place, the new run is on screen.            *)
RetriedRunIsShown ==
  \A c \in 1 .. Len(retries) :
    retries[c].at = "done" /\ retries[c].run > 0 /\ retries[c].task = taskId /\ ~RunLoading
      => retries[c].run \in {r.run : r \in SetOf(runs)}
=============================================================================
