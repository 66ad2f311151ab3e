------------------------- MODULE DateRangeSelector -------------------------
(***************************************************************************)
(* The time selector of Habitat's list views, as functions of a selection. *)
(* Time is counted in half minutes, the period of its timer; the inputs    *)
(* hold whole minutes.  undefined is a parameter that is absent (or null), *)
(* blank an input without text, invalid a text that is not understood.     *)
(* Daylight saving, which makes an hour of local time ambiguous, is left   *)
(* out.                                                                    *)
(***************************************************************************)
EXTENDS Integers

CONSTANTS
  PresetLength,    \* key of a relative preset -> its length
  RadiusOptions, DefaultRadius,
  TypedTimes,      \* what the user enters in a datetime-local input
  undefined, blank, invalid

(* The inputs hold whole minutes; the names of the presets, those of the   *)
(* other kinds of a selection and the three values that are no time differ. *)
ASSUME SelectorAssumption ==
  /\ \A key \in DOMAIN PresetLength : PresetLength[key] \in Int
  /\ \A t \in TypedTimes : t \in Int /\ t % 2 = 0
  /\ RadiusOptions \subseteq Int /\ DefaultRadius \in Int
  /\ undefined # blank /\ undefined # invalid /\ blank # invalid
  /\ \A v \in {undefined, blank, invalid} : v \notin Int /\ v \notin {"around", "range"}
  /\ \A v \in {"around", "range", undefined, blank, invalid} : v \notin DOMAIN PresetLength

NoTimeParams == [time |-> undefined, timeCenter |-> undefined, timeRadius |-> undefined,
                 after |-> undefined, before |-> undefined]
AllTime == [after |-> undefined, before |-> undefined]
IsTime(v) == v \notin {undefined, blank, invalid}

(* toLocalInputValue: seconds are dropped.                                 *)
ToLocalInputValue(t) == IF IsTime(t) THEN t - (t % 2) ELSE t

RestorePresets(p) ==  \* a mistake: only the presets are restored
  IF p.time \in DOMAIN PresetLength THEN [kind |-> "relative", relKey |-> p.time]
  ELSE [kind |-> "all", relKey |-> undefined]
RestoreAnything(p) ==  \* a mistake: what is not known is taken as it is
  [kind |-> IF p.time \in DOMAIN PresetLength THEN "relative" ELSE p.time, relKey |-> p.time]
(* restoreState: the kind of selection the parameters of the URL name.     *)
RestoreState(p) ==
  CASE p.time \in DOMAIN PresetLength -> [kind |-> "relative", relKey |-> p.time]
    [] p.time = "around" -> [kind |-> "around", relKey |-> undefined]
    [] p.time = "range" -> [kind |-> "absolute", relKey |-> undefined]
    [] OTHER -> [kind |-> "all", relKey |-> undefined]

(* The signals of a selector that is mounted with these parameters.        *)
Mounted(p, now) ==
  LET s == RestoreState(p)
      Input(v) == IF s.kind = "absolute" /\ v # undefined THEN ToLocalInputValue(v) ELSE blank
  IN [kind |-> s.kind, relKey |-> s.relKey,
      aroundCenter |-> IF p.timeCenter = undefined THEN ToLocalInputValue(now) ELSE p.timeCenter,
      aroundRadius |-> IF IsTime(p.timeRadius) THEN p.timeRadius ELSE DefaultRadius,
      absStart |-> Input(p.after), absEnd |-> Input(p.before)]

(* range: the window asked of the server.                                  *)
RangeOf(s, now) ==
  LET Given(v) == IF IsTime(v) THEN v ELSE undefined
  IN CASE s.kind = "relative" -> [AllTime EXCEPT !.after = now - PresetLength[s.relKey]]
       [] s.kind = "around" /\ IsTime(s.aroundCenter) ->
            [after |-> s.aroundCenter - s.aroundRadius, before |-> s.aroundCenter + s.aroundRadius]
       [] s.kind = "absolute" -> [after |-> Given(s.absStart), before |-> Given(s.absEnd)]
       [] OTHER -> AllTime

(* computeParams: the selection as parameters of the URL.                  *)
ComputeParams(s, range) ==
  CASE s.kind = "relative" -> [NoTimeParams EXCEPT !.time = s.relKey]
    [] s.kind = "around" ->
         [NoTimeParams EXCEPT !.time = "around", !.timeCenter = s.aroundCenter,
                              !.timeRadius = s.aroundRadius]
    [] s.kind = "absolute" ->
         [NoTimeParams EXCEPT !.time = "range", !.after = range.after, !.before = range.before]
    [] OTHER -> NoTimeParams

-----------------------------------------------------------------------------
(* What the user can do to a selection.                                    *)

SelectAll(s) == [s EXCEPT !.kind = "all", !.relKey = undefined]
SelectRelative(s, key) == [s EXCEPT !.kind = "relative", !.relKey = key]
SelectAround(s, now) ==
  [s EXCEPT !.kind = "around",
            !.aroundCenter = IF s.kind = "around" THEN @ ELSE ToLocalInputValue(now)]
AroundInputs(s) ==
  IF s.kind # "around" THEN {}
  ELSE {[s EXCEPT !.aroundCenter = t] : t \in TypedTimes \cup {blank}}
         \cup {[s EXCEPT !.aroundRadius = r] : r \in RadiusOptions}
SelectAbsolute(s) == [s EXCEPT !.kind = "absolute"]
AbsoluteInputs(s) ==
  IF s.kind # "absolute" THEN {}
  ELSE {[s EXCEPT !.absStart = t] : t \in TypedTimes \cup {blank}}
         \cup {[s EXCEPT !.absEnd = t] : t \in TypedTimes \cup {blank}}

(* A signal set to the value it has runs no effect.                        *)
Choices(s, now) ==
  ({SelectAll(s), SelectAround(s, now), SelectAbsolute(s)}
     \cup {SelectRelative(s, key) : key \in DOMAIN PresetLength}
     \cup AroundInputs(s) \cup AbsoluteInputs(s)) \ {s}
=============================================================================
