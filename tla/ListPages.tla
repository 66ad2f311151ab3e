----------------------------- MODULE ListPages -----------------------------
(***************************************************************************)
(* Habitat's two list views, Tasks and EventLog: filters kept in the URL,  *)
(* a resource that loads the list they ask for, and the rows a user opens. *)
(* A handler is one action together with the navigation it ends in: the    *)
(* effect that copies the URL into the signals undoes what the handler set *)
(* until the URL has changed, and what is requested in between is replaced *)
(* before it can be answered.  A list request that fails is left out (an   *)
(* errored resource throws in the memos that read it, which is up to the   *)
(* Solid runtime), and so is text that is typed and not entered.           *)
(*                                                                         *)
(*   entries, at   the browser's history, entry at being the URL           *)
(*   signals       the filters and the page of the view                    *)
(*   selection, range    the time selector, and the window it computed     *)
(*   request       the list request whose answer counts; stale: others     *)
(*   shown         the answer on screen                                    *)
(*   expanded, details, fetching   rows opened, their details, and the     *)
(*                 requests for details                                    *)
(*   autoRefresh   the toggle, kept in localStorage                        *)
(*   steady        for the properties: no step through the history since   *)
(*                 the view was mounted                                    *)
(*   created       number of runs in the database                          *)
(*   clock, moves  BOUND: half minutes passed, operations of the user left *)
(***************************************************************************)
EXTENDS DateRangeSelector, Sequences, FiniteSets

CONSTANTS
  Runs,         \* the runs of the database, in the order they are created
  Searches,     \* texts searched for
  EventNames, Queues, Statuses, TaskNames,
  StartEntries, \* URLs the browser is opened with
  PageSize, MaxClock, MaxMoves

VARIABLES entries, at, signals, selection, range, request, stale, shown,
          expanded, details, fetching, autoRefresh, steady, created, clock, moves
rows == <<expanded, details, fetching>>
window == <<selection, range>>
listVars == <<entries, at, signals, window, request, stale, shown, rows, autoRefresh,
              steady, created, clock, moves>>

Here == entries[at]
Loading == request # undefined
NoParams == [search |-> undefined, queue |-> undefined, status |-> undefined, taskName |-> undefined,
             eventName |-> undefined, time |-> undefined, timeCenter |-> undefined,
             timeRadius |-> undefined, after |-> undefined, before |-> undefined, page |-> undefined]
(* The fields of one record, and those of another that it does not have.   *)
Over(f, g) == [x \in DOMAIN f \cup DOMAIN g |-> IF x \in DOMAIN f THEN f[x] ELSE g[x]]

(* The values of a filter, an entry of the history and a query.            *)
Text == {undefined, blank} \cup Searches \cup EventNames \cup Queues \cup Statuses \cup TaskNames
          \cup UNION {{Runs[i].queue, Runs[i].status, Runs[i].taskName} : i \in DOMAIN Runs}
Moment == {undefined, blank, invalid} \cup Int
Params == [search : Text, queue : Text, status : Text, taskName : Text, eventName : Text,
           time : {"around", "range", undefined, blank, invalid} \cup DOMAIN PresetLength,
           timeCenter : Moment, timeRadius : Moment, after : Moment, before : Moment,
           page : {undefined, invalid} \cup (Nat \ {0})]
Entry == [view : {"tasks", "events"}, params : Params]
TasksQuery == [q : Text, queue : Text, status : Text, taskName : Text,
               after : Moment, before : Moment, page : Nat \ {0}]
EventsQuery == [queue : Text, eventName : Text, after : Moment, before : Moment]

ASSUME ListAssumption ==
  /\ StartEntries \subseteq Entry /\ Runs # <<>> /\ Runs \in Seq({Runs[i] : i \in DOMAIN Runs})
  /\ PageSize \in Nat \ {0} /\ MaxClock \in Nat /\ MaxMoves \in Nat
  /\ undefined \notin TasksQuery \cup EventsQuery

-----------------------------------------------------------------------------
(* From the URL to the signals, and to what is asked of the server.        *)

NormalizeNullableParam(v) == IF v = blank THEN undefined ELSE v
ParsePageParam(v) == IF v \in {undefined, invalid} THEN 1 ELSE v
TasksSignals(p) ==
  [search |-> p.search, queue |-> NormalizeNullableParam(p.queue),
   status |-> NormalizeNullableParam(p.status), taskName |-> NormalizeNullableParam(p.taskName),
   eventName |-> undefined, page |-> ParsePageParam(p.page)]
EventLogSignals(p) ==
  [search |-> undefined, queue |-> NormalizeNullableParam(p.queue), status |-> undefined,
   taskName |-> undefined, eventName |-> p.eventName, page |-> 1]
SignalsOf(e) == IF e.view = "tasks" THEN TasksSignals(e.params) ELSE EventLogSignals(e.params)

(* The effect that follows the URL, run whenever a parameter or a signal   *)
(* it reads changes.                                                       *)
ForgetsTaskName(s, p) ==  \* a mistake: the task name is not followed
  [TasksSignals(p) EXCEPT !.taskName = s.taskName]
TasksSync(s, p) == TasksSignals(p)
EventLogSync(s, p) == EventLogSignals(p)
SyncEffect(s, e) == IF e.view = "tasks" THEN TasksSync(s, e.params) ELSE EventLogSync(s, e.params)

(* fetchTasks, fetchEvents: the query; blanks around a text are trimmed.   *)
Trim(v) == IF v = blank THEN undefined ELSE v
FetchTasks(s, r) ==
  [q |-> Trim(s.search), queue |-> s.queue, status |-> s.status, taskName |-> s.taskName,
   after |-> r.after, before |-> r.before, page |-> s.page]
FetchEvents(s, r) ==
  [queue |-> s.queue, eventName |-> Trim(s.eventName), after |-> r.after, before |-> r.before]
Query(view, s, r) == IF view = "tasks" THEN FetchTasks(s, r) ELSE FetchEvents(s, r)

(* The server: the runs that match, newest first, one page of them.        *)
Matches(run, q) ==
  /\ q.queue \in {undefined, run.queue} /\ q.status \in {undefined, run.status}
  /\ q.taskName \in {undefined, run.taskName} /\ q.q \in {undefined} \cup run.texts
  /\ q.after # undefined => run.at >= q.after
  /\ q.before # undefined => run.at <= q.before
TaskListResponse(q) ==
  LET newestFirst == [i \in 1 .. created |-> created + 1 - i]
      hits == SelectSeq(newestFirst, LAMBDA i : Matches(Runs[i], q))
      last == q.page * PageSize
  IN [query |-> q, hasMore |-> Len(hits) > last,
      rows |-> SubSeq(hits, last - PageSize + 1, IF Len(hits) > last THEN last ELSE Len(hits))]
Response(view, q) ==
  IF view = "tasks" THEN TaskListResponse(q) ELSE [query |-> q, hasMore |-> FALSE, rows |-> <<>>]
Rows == IF shown = undefined THEN {} ELSE {shown.rows[i] : i \in DOMAIN shown.rows}

-----------------------------------------------------------------------------
(* The URL.                                                                *)

ToParamValue(v) == IF v = blank THEN undefined ELSE v
(* syncSearchParams: parameters without a value leave the URL, the others  *)
(* of the URL stay.                                                        *)
Updated(params, updates) ==
  Over([f \in DOMAIN updates |-> IF f = "page" THEN (IF updates.page > 1 THEN updates.page ELSE undefined)
                                 ELSE ToParamValue(updates[f])], params)
Navigate(e, replace) ==
  IF e = Here THEN UNCHANGED <<entries, at>>
  ELSE IF replace THEN entries' = [entries EXCEPT ![at] = e] /\ UNCHANGED at
  ELSE entries' = Append(SubSeq(entries, 1, at), e) /\ at' = at + 1
SyncSearchParams(updates, replace) ==
  Navigate([Here EXCEPT !.params = Updated(@, updates)], replace)

(* filters and createResource: a change is requested at once, and what was *)
(* requested before no longer counts.                                      *)
Load(forced) ==
  IF ~forced /\ <<signals', range'>> = <<signals, range>> THEN UNCHANGED <<request, stale>>
  ELSE /\ request' = Query(Here'.view, signals', range')
       /\ stale' = IF Loading THEN stale \cup {request} ELSE stale

(* onParamsChange: the window in the URL, and for Tasks its first page.    *)
TimeUpdates(view, params) == IF view = "tasks" THEN Over(params, [page |-> 1]) ELSE params

(* A view is mounted: its selector computes the window and rewrites the    *)
(* URL, which takes the page with it.                                      *)
TimeParams(p) == [f \in DOMAIN NoTimeParams |-> p[f]]
SelectionOf(e, now) == Mounted(TimeParams(e.params), now)
RangeAt(e, now) == RangeOf(SelectionOf(e, now), now)
MountedEntry(e, now) ==
  LET params == ComputeParams(SelectionOf(e, now), RangeAt(e, now))
  IN [e EXCEPT !.params = Updated(@, TimeUpdates(e.view, params))]

ListInit ==
  /\ \E e \in StartEntries :
       /\ entries = <<MountedEntry(e, 0)>> /\ at = 1
       /\ selection = SelectionOf(e, 0) /\ range = RangeAt(e, 0)
  /\ signals = SignalsOf(Here) /\ request = Query(Here.view, signals, range)
  /\ stale = {} /\ shown = undefined
  /\ expanded = {} /\ details = {} /\ fetching = {}
  /\ autoRefresh = FALSE /\ steady = TRUE
  /\ created = Len(Runs) - 1 /\ clock = 0 /\ moves = MaxMoves

-----------------------------------------------------------------------------
(* Filters.                                                                *)

Operation == moves > 0 /\ moves' = moves - 1
Filter(updates, replace, forced) ==
  /\ Operation
  /\ SyncSearchParams(updates, replace)
  /\ signals' = SyncEffect(signals, Here')
  /\ UNCHANGED <<window, shown, rows, autoRefresh, steady, created, clock>>
  /\ Load(forced)

(* Enter in the search field.                                              *)
EnterSearch(v) ==
  /\ Here.view = "tasks"
  /\ Filter([search |-> v, page |-> 1], TRUE, v # signals.search \/ signals.page # 1)

(* Without a queue there is no task name to choose.                        *)
SelectQueue(v) ==
  /\ Here.view = "tasks" /\ v # signals.queue
  /\ Filter([queue |-> v, taskName |-> IF v = undefined THEN undefined ELSE signals.taskName,
             page |-> 1], FALSE, TRUE)

SelectStatus(v) ==
  /\ Here.view = "tasks" /\ v # signals.status
  /\ Filter([status |-> v, page |-> 1], FALSE, TRUE)

(* An option chosen, or a name typed and entered.                          *)
SelectTaskName(v) ==
  /\ Here.view = "tasks" /\ v # signals.taskName
  /\ Filter([taskName |-> v, page |-> 1], FALSE, TRUE)
EnterTaskName(v) ==
  /\ Here.view = "tasks" /\ v # signals.taskName
  /\ Filter([taskName |-> v, page |-> 1], TRUE, TRUE)

(* The filter button in a cell of a row.                                   *)
ApplyFilter(kind, i) ==
  LET value == Runs[i][kind]
  IN /\ Here.view = "tasks" /\ i \in Rows
     /\ Filter([f \in {kind, "page"} |-> IF f = "page" THEN 1
                                        ELSE IF signals[kind] = value THEN undefined ELSE value],
               FALSE, TRUE)

PreviousPage ==
  /\ Here.view = "tasks" /\ ~Loading /\ signals.page > 1
  /\ Filter([page |-> signals.page - 1], FALSE, TRUE)
NextPage ==
  /\ Here.view = "tasks" /\ ~Loading /\ shown.hasMore
  /\ Filter([page |-> signals.page + 1], FALSE, TRUE)

(* The event log has no pages, and its filters replace the history entry.  *)
TypeEventName(v) ==
  /\ Here.view = "events" /\ v # signals.eventName
  /\ Filter([eventName |-> v], TRUE, TRUE)
SelectEventQueue(v) ==
  /\ Here.view = "events" /\ v # signals.queue
  /\ Filter([queue |-> v], TRUE, TRUE)

-----------------------------------------------------------------------------
(* Time.                                                                   *)

(* onChange, then onParamsChange.                                          *)
ChooseTime(s) ==
  /\ Operation
  /\ selection' = s /\ range' = RangeOf(s, clock)
  /\ SyncSearchParams(TimeUpdates(Here.view, ComputeParams(s, range')), TRUE)
  /\ signals' = SyncEffect(signals, Here')
  /\ UNCHANGED <<shown, rows, autoRefresh, steady, created, clock>>
  /\ Load(Here.view = "events")

(* The timer: a relative window moves on; the page is set to 1 and back.   *)
RelativeTick ==
  /\ clock < MaxClock /\ clock' = clock + 1
  /\ range' = IF selection.kind = "relative" THEN RangeOf(selection, clock') ELSE range
  /\ UNCHANGED <<entries, at, signals, selection, shown, rows, autoRefresh, steady, created, moves>>
  /\ Load(FALSE)

-----------------------------------------------------------------------------
(* Answers and refreshing.                                                 *)

(* The answers of requests that were replaced change nothing.              *)
Answer ==
  /\ Loading
  /\ shown' = Response(Here.view, request) /\ request' = undefined
  /\ UNCHANGED <<entries, at, signals, window, stale, rows, autoRefresh, steady, created, clock, moves>>
StaleAnswer ==
  /\ \E q \in stale : stale' = stale \ {q}
  /\ UNCHANGED <<entries, at, signals, window, request, shown, rows, autoRefresh, steady, created,
                 clock, moves>>

Refetch ==
  /\ UNCHANGED <<entries, at, signals, window, shown, rows, autoRefresh, steady, created, clock, moves>>
  /\ Load(TRUE)
HandleRefresh == ~Loading /\ Refetch
AutoRefresh == autoRefresh /\ Refetch
ToggleAutoRefresh ==
  /\ Operation /\ autoRefresh' = ~autoRefresh
  /\ UNCHANGED <<entries, at, signals, window, request, stale, shown, rows, steady, created, clock>>

NewRun ==
  /\ created < Len(Runs) /\ created' = created + 1
  /\ UNCHANGED <<entries, at, signals, window, request, stale, shown, rows, autoRefresh, steady,
                 clock, moves>>

-----------------------------------------------------------------------------
(* Rows that are opened.                                                   *)

(* The detail of a row is fetched whenever it is not there, also when the  *)
(* row is closed.  Two requests for one run are taken as one.              *)
HandleRowClick(i) ==
  /\ Operation /\ i \in Rows
  /\ expanded' = IF i \in expanded THEN expanded \ {i} ELSE expanded \cup {i}
  /\ fetching' = IF i \in details THEN fetching ELSE fetching \cup {i}
  /\ UNCHANGED <<entries, at, signals, window, request, stale, shown, details, autoRefresh, steady,
                 created, clock>>
StoreDetail(i) == details' = details \cup {i}
DetailAnswered(i) ==
  /\ i \in fetching /\ fetching' = fetching \ {i} /\ StoreDetail(i)
  /\ UNCHANGED <<entries, at, signals, window, request, stale, shown, expanded, autoRefresh,
                 steady, created, clock, moves>>
DetailFails(i) ==
  /\ i \in fetching /\ fetching' = fetching \ {i}
  /\ UNCHANGED <<entries, at, signals, window, request, stale, shown, expanded, details, autoRefresh,
                 steady, created, clock, moves>>

-----------------------------------------------------------------------------
(* The browser's history and the links between the views.                  *)

(* A step within the view only changes the URL under it; a step to the     *)
(* other view mounts that one.                                             *)
Arrive(e, history, position) ==
  /\ Operation /\ at' = position
  /\ IF e.view = Here.view
     THEN /\ entries' = history /\ signals' = SyncEffect(signals, e) /\ steady' = FALSE
          /\ UNCHANGED <<window, shown, rows>> /\ Load(FALSE)
     ELSE /\ entries' = [history EXCEPT ![position] = MountedEntry(e, clock)]
          /\ selection' = SelectionOf(e, clock) /\ range' = RangeAt(e, clock)
          /\ signals' = SignalsOf(Here') /\ request' = Query(e.view, signals', range')
          /\ stale' = {} /\ shown' = undefined /\ steady' = TRUE
          /\ expanded' = {} /\ details' = {} /\ fetching' = {}
  /\ UNCHANGED <<autoRefresh, created, clock>>
Back == at > 1 /\ Arrive(entries[at - 1], entries, at - 1)
Forward == at < Len(entries) /\ Arrive(entries[at + 1], entries, at + 1)
FollowLink(view) ==
  LET e == [view |-> view, params |-> NoParams]
  IN e # Here /\ Arrive(e, Append(SubSeq(entries, 1, at), e), at + 1)

ListNext ==
  \/ \E v \in Searches \cup {undefined, blank} : EnterSearch(v)
  \/ \E v \in Queues \cup {undefined} : SelectQueue(v) \/ SelectEventQueue(v)
  \/ \E v \in Statuses \cup {undefined} : SelectStatus(v)
  \/ \E v \in TaskNames \cup {undefined} : SelectTaskName(v) \/ EnterTaskName(v)
  \/ \E v \in EventNames \cup {undefined, blank} : TypeEventName(v)
  \/ \E i \in 1 .. created :
       \/ \E kind \in {"queue", "status", "taskName"} : ApplyFilter(kind, i)
       \/ HandleRowClick(i) \/ DetailAnswered(i) \/ DetailFails(i)
  \/ PreviousPage \/ NextPage
  \/ \E s \in Choices(selection, clock) : ChooseTime(s)
  \/ RelativeTick \/ Answer \/ StaleAnswer \/ HandleRefresh \/ AutoRefresh \/ ToggleAutoRefresh
  \/ NewRun \/ Back \/ Forward
  \/ \E view \in {"tasks", "events"} : FollowLink(view)

ListSpec == ListInit /\ [][ListNext]_listVars

-----------------------------------------------------------------------------
(* The types of the variables.                                             *)
ListTypeOK ==
  /\ at \in 1 .. Len(entries) /\ Here.view \in {"tasks", "events"}
  /\ DOMAIN Here.params = DOMAIN NoParams
  /\ signals.page \in Nat \ {0} /\ DOMAIN range = DOMAIN AllTime
  /\ selection.kind \in {"all", "relative", "around", "absolute"}
  /\ selection.kind = "relative" => selection.relKey \in DOMAIN PresetLength
  /\ expanded \cup details \cup fetching \subseteq 1 .. Len(Runs)

(* When nothing is being loaded, the list on screen is the answer to what  *)
(* the URL says, in the window of the selector: after any order of         *)
(* filters, steps through the history, ticks and answers.                  *)
ShowsWhatUrlAsks ==
  ~Loading => shown.query = Query(Here.view, SignalsOf(Here), range)

(* Until the user steps through the history, the URL carries the window:   *)
(* a reload or a shared link shows the window on screen.  The exception is *)
(* "around" with its input cleared, which the URL does not keep.           *)
LinkShowsWindow ==
  steady /\ ~(selection.kind = "around" /\ selection.aroundCenter = blank)
    => LET reloaded == SelectionOf(Here, clock)
       IN reloaded.kind = selection.kind
          /\ RangeOf(reloaded, clock) = RangeOf(selection, clock)
=============================================================================
