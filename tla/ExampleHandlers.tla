-------------------------- MODULE ExampleHandlers --------------------------
(***************************************************************************)
(* Handlers of tasks, as the sequence of calls they make on their          *)
(* TaskContext.  The handlers are those of the TypeScript examples; what   *)
(* they log and compute is left out, what they call, spawn, emit, roll and *)
(* throw is kept.  A call is a record:                                     *)
(*                                                                         *)
(*   do     "step", "sleep" or "await", or "throwIf" for code between them *)
(*   name   the step name, a sequence that getCheckpointName extends       *)
(*   body   what the function of a step does: "pure", "spawn", "emit", or  *)
(*          "result", which waits for the task spawned before it           *)
(*   arg    the kind spawned or waited for, or the event                   *)
(*   opts   "flaky"       the function may throw                           *)
(*          "rolls"       its value carries a random bit                   *)
(*          "again"       the call repeats while that bit is set           *)
(*          "throws"      the handler throws once it has run the step      *)
(*          "unlessPast"  the sleep is skipped once its instant has passed *)
(*          "timeout"     the wait has one, and throws TimeoutError ...    *)
(*          "returns"     ... upon which the handler returns               *)
(*          "continues"   ... upon which it goes on                        *)
(***************************************************************************)
EXTENDS Naturals, Sequences

Call(do, name, body, arg, opts) ==
  [do |-> do, name |-> name, body |-> body, arg |-> arg, opts |-> opts]
Step(name, opts) == Call("step", <<name>>, "pure", "none", opts)
SpawnStep(name, kind) == Call("step", <<name>>, "spawn", kind, {})
EmitStep(name, e) == Call("step", <<name>>, "emit", e, {})
AwaitTaskResult(kind) == Call("step", <<"$awaitTaskResult:", kind>>, "result", kind, {})
Sleep(name, opts) == Call("sleep", <<name>>, "pure", "none", opts)
AwaitEvent(e, opts) == Call("await", <<"$awaitEvent:", e>>, "pure", e, opts)
ThrowIfLow == Call("throwIf", <<"">>, "pure", "none", {})

-----------------------------------------------------------------------------
(* examples/provisioning.ts: one customer.  The payload check that follows *)
(* the wait cannot fail: only the simulator emits, and it has activatedAt. *)

ProvisionCustomer ==
  << Step("create-customer-record", {}),
     SpawnStep("queue-activation-email", "send-activation-email"),
     SpawnStep("start-activation-simulator", "activation-simulator"),
     AwaitEvent("activated", {"timeout", "returns"}),
     Step("finalize-activation", {}),
     SpawnStep("audit-log-task", "post-activation-audit") >>

SendActivationEmail ==
  << Step("failure-roll", {"rolls"}), ThrowIfLow, Step("message-id", {}) >>

(* send-activation-email throws on a low roll, but not on its third        *)
(* execution in one process: the roll is a checkpoint, the count is not.   *)
Outages == 2

ActivationSimulator ==
  << Step("activation-delay", {}), Step("wake-at", {}),
     Sleep("wait-for-activation", {"unlessPast"}),
     EmitStep("emit-activation-event", "activated") >>

PostActivationAudit == << Step("record-audit", {}) >>

(* examples/agent-loop: turns of the model under one step name; a tool may *)
(* throw.  The loop's counter is never advanced, so that only the answer   *)
(* of the model ends it.                                                   *)
WeatherAgent == << Step("initial-message", {}), Step("agent-loop", {"flaky", "rolls", "again"}) >>

(* examples/sleep.ts *)
HelloWorld == << Step("step-1", {}), Sleep("first-sleep", {}), Step("step-2", {}) >>

(* examples/quickstart/worker.ts: the outage is a step in two halves, and  *)
(* the handler throws between them and the next step, once.                *)
ProvisionUser ==
  << Step("create-user-record", {}), Step("demo-transient-outage", {"throws"}),
     Step("send-activation-email", {}), AwaitEvent("user-activated", {"timeout"}) >>
=============================================================================
