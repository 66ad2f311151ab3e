----------------------------- MODULE AwaitResult -----------------------------
(***************************************************************************)
(* awaitTaskResultWithBackoff, which polls for the end of another task: as *)
(* Absurd.awaitTaskResult, or in a task, where it extends the lease of the *)
(* run that waits.  Time passes in ticks of 50 ms, in queries and in       *)
(* sleeps; a timer fires on time.                                          *)
(*                                                                         *)
(*   step       where the call has got to; "off": not made                 *)
(*   within     it is made in a task, through TaskContext                  *)
(*   claim      claimTimeout of that task                                  *)
(*   lease      ticks that the run's lease still has; 0: it has lapsed     *)
(*   slack      lease, when the call was made                              *)
(*   timeout    of the call                                                *)
(*   elapsed    ticks since startedAt                                      *)
(*   delay      delayMs                                                    *)
(*   nextBeat   ticks to nextHeartbeatAt                                   *)
(*   awaited    the awaited task: "active", "terminal", or "gone"          *)
(***************************************************************************)
EXTENDS Integers

CONSTANTS
  Timeouts,        \* timeouts of calls, in ticks
  ClaimTimeouts,   \* lease durations, in ticks
  Worked,          \* ticks that a handler has worked since its lease was extended
  QueryTime,       \* BOUND: ticks to the database, and back, at most
  Infinity         \* no timeout

ASSUME AwaitAssumption ==
  /\ Infinity \in Int /\ Timeouts \subseteq Nat \cup {Infinity} /\ \A t \in Timeouts \ {Infinity} : t < Infinity
  /\ ClaimTimeouts \subseteq Nat \ {0}
  /\ Worked \subseteq Nat /\ QueryTime \in Nat

VARIABLES step, within, claim, lease, slack, timeout, elapsed, delay, nextBeat, awaited
awaitVars == <<step, within, claim, lease, slack, timeout, elapsed, delay, nextBeat, awaited>>

Least(a, b) == IF a < b THEN a ELSE b
Most(a, b) == IF a > b THEN a ELSE b

MinBeat == 10    \* 500 ms
MaxDelay == 20   \* 1000 ms
HeartbeatInterval(c) == Most(MinBeat, c \div 2)

AwaitTypeOK ==
  /\ step \in {"off", "fetch", "pause", "beat", "extend", "sleep", "snapshot", "timeout", "notFound", "failed"}
  /\ within \in BOOLEAN /\ claim \in ClaimTimeouts /\ timeout \in Timeouts
  /\ lease \in 0 .. claim /\ slack \in 0 .. claim
  /\ elapsed \in Nat /\ delay \in 0 .. MaxDelay /\ nextBeat \in 0 .. HeartbeatInterval(claim)
  /\ awaited \in {"active", "terminal", "gone"}

AwaitInit ==
  /\ step = "off" /\ within \in BOOLEAN /\ claim \in ClaimTimeouts /\ timeout \in Timeouts
  /\ slack \in {claim - w : w \in Worked} \cap 1 .. claim /\ lease = slack
  /\ elapsed = 0 /\ delay = 1 /\ nextBeat = 0 /\ awaited = "active"

(* d ticks pass.                                                           *)
Pass(d) ==
  /\ elapsed' = IF timeout = Infinity THEN elapsed ELSE elapsed + d
  /\ nextBeat' = Most(0, nextBeat - d)
  /\ lease' = Most(0, lease - d)

(* startedAt, and in a task the first nextHeartbeatAt: the lease is not    *)
(* extended here.                                                          *)
AwaitTaskResult ==
  /\ step = "off" /\ step' = "fetch" /\ nextBeat' = HeartbeatInterval(claim)
  /\ UNCHANGED <<within, claim, lease, slack, timeout, elapsed, delay, awaited>>

(* fetchTaskResultSnapshot.  A lease that lapsed goes unnoticed here.      *)
ResultOf(a) == CASE a = "terminal" -> "snapshot" [] a = "gone" -> "notFound" [] a = "active" -> "pause"
FetchSnapshot ==
  /\ step = "fetch" /\ \E d \in 0 .. QueryTime : Pass(d)
  /\ step' = ResultOf(awaited)
  /\ UNCHANGED <<within, claim, slack, timeout, delay, awaited>>

(* The timeout, or the next delay, not past it; then onBeforeSleep.        *)
UncappedDelay == delay  \* a mistake: the last sleep goes past the timeout
CappedDelay == Least(delay, timeout - elapsed)

HeartbeatDue == within /\ nextBeat = 0
Pause ==
  /\ step = "pause"
  /\ IF timeout <= elapsed
     THEN step' = "timeout" /\ UNCHANGED delay
     ELSE step' = (IF HeartbeatDue THEN "beat" ELSE "sleep") /\ delay' = CappedDelay
  /\ UNCHANGED <<within, claim, lease, slack, timeout, elapsed, nextBeat, awaited>>

(* heartbeat: the query reaches the database, which extends the lease, and *)
(* is answered.  A run that was cancelled, or that failed when its lease   *)
(* had lapsed, ends here.                                                  *)
WholeLease == claim  \* a mistake: a heartbeat once per lease
NextInterval == HeartbeatInterval(claim)
SendHeartbeat ==
  /\ step = "beat" /\ step' = "extend" /\ \E d \in 0 .. QueryTime : Pass(d)
  /\ UNCHANGED <<within, claim, slack, timeout, delay, awaited>>
Heartbeat ==
  /\ step = "extend" /\ UNCHANGED <<within, claim, slack, timeout, delay, awaited>>
  /\ \/ \E d \in 0 .. QueryTime :
          /\ step' = "sleep" /\ lease' = Most(0, claim - d) /\ nextBeat' = NextInterval
          /\ elapsed' = IF timeout = Infinity THEN elapsed ELSE elapsed + d
     \/ step' = "failed" /\ UNCHANGED <<elapsed, lease, nextBeat>>

NextDelay == Least(2 * delay, MaxDelay)
PollAgain ==
  /\ step = "sleep" /\ Pass(delay) /\ delay' = NextDelay /\ step' = "fetch"
  /\ UNCHANGED <<within, claim, slack, timeout, awaited>>

(* Elsewhere: the awaited task ends, or is deleted by a cleanup.           *)
Ends ==
  /\ \/ awaited = "active" /\ awaited' = "terminal"
     \/ awaited = "terminal" /\ awaited' = "gone"
  /\ step \in {"fetch", "pause", "beat", "extend", "sleep"}
  /\ UNCHANGED <<step, within, claim, lease, slack, timeout, elapsed, delay, nextBeat>>

AwaitNext == AwaitTaskResult \/ FetchSnapshot \/ Pause \/ SendHeartbeat \/ Heartbeat \/ PollAgain \/ Ends
AwaitSpec == AwaitInit /\ [][AwaitNext]_awaitVars

-----------------------------------------------------------------------------
(* Properties.                                                             *)

(* A call times out no sooner than asked, and later by one heartbeat and   *)
(* one fetch at most: the last sleep ends at the timeout, although the     *)
(* delays double and a heartbeat may come between.                         *)
TimeoutHonoured ==
  /\ step = "timeout" => elapsed >= timeout
  /\ timeout # Infinity => elapsed <= timeout + 3 * QueryTime

(* A run that waits keeps its lease for as long as it waits, if the lease  *)
(* outlasts a heartbeat interval and the longest delay; else another       *)
(* worker starts the task again while this one still waits.  The interval  *)
(* counts from the call, not from the last extension: a handler that has   *)
(* worked for half its lease before it waits is not covered.               *)
Covers(ticks) == ticks > HeartbeatInterval(claim) + MaxDelay + 3 * QueryTime
LeaseKept ==
  within /\ Covers(slack) /\ Covers(claim) => lease > 0
=============================================================================
