----------------------------- MODULE MCHabitat -----------------------------
(***************************************************************************)
(* Instances of Habitat's pages for TLC.  A browser tab shows one of them: *)
(* a behaviour is one of ListPages or one of TaskRunsPage, chosen by the   *)
(* initial state.                                                          *)
(***************************************************************************)
EXTENDS ListPages, TaskRunsPage

VARIABLE tab
habitatVars == <<listVars, pageVars, tab>>

CONSTANTS A, B

Presets == [k \in {"1h"} |-> 2]
Times == {-4}
SomeRuns ==
  << [queue |-> "q1", status |-> "failed", taskName |-> "n1", texts |-> {"s1"}, at |-> -6],
     [queue |-> "q1", status |-> "pending", taskName |-> "n1", texts |-> {}, at |-> -1],
     [queue |-> "q1", status |-> "failed", taskName |-> "n2", texts |-> {"s1"}, at |-> 0] >>
Url(view, params) == [view |-> view, params |-> Over(params, NoParams)]
SomeUrls ==
  { Url("tasks", [queue |-> "q1", page |-> 2, time |-> "1h"]),
    Url("tasks", [status |-> blank, page |-> invalid, time |-> "around", timeCenter |-> -4, timeRadius |-> 4]),
    Url("events", [eventName |-> "e1", time |-> "range", after |-> -3, before |-> invalid]) }
FailedTasks == [t \in TaskIds |-> IF t = A THEN <<"failed", "running">> ELSE <<"failed">>]

ListsOff == ListInit /\ entries[1].view = "events"
HabitatInit ==
  \/ tab = "lists" /\ ListInit /\ PageInit
  \/ tab = "task" /\ ListsOff /\ PageInit
HabitatNext ==
  \/ tab = "lists" /\ ListNext /\ UNCHANGED <<pageVars, tab>>
  \/ tab = "task" /\ PageNext /\ UNCHANGED <<listVars, tab>>
Spec == HabitatInit /\ [][HabitatNext]_habitatVars

(* The variables of the pages have their types; also: a load under way is  *)
(* of the task of the page, and a preset that is selected is one there is. *)
HabitatTypeOK == ListTypeOK /\ PageTypeOK
=============================================================================
