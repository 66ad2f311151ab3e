--------------------------- MODULE MCTaskContext ---------------------------
(***************************************************************************)
(* Instances of TaskContext for TLC: the example workflows, and handlers   *)
(* that put the calls together in ways the examples do not.                *)
(***************************************************************************)
EXTENDS TaskContext, ExampleHandlers

Handlers ==
  [k \in {"provision-customer", "activate-customer", "emitter", "send-activation-email", "activation-simulator", "post-activation-audit",
          "weather-agent", "hello-world", "provision-user", "mixed", "parent", "selfish", "child", "two-waits"} |->
    CASE k = "provision-customer" -> ProvisionCustomer
      [] k = "activate-customer" ->
           << SpawnStep("start-activation-simulator", "emitter") >> \o SubSeq(ProvisionCustomer, 4, 4)
      [] k = "emitter" -> SubSeq(ActivationSimulator, 3, 4)
      [] k = "send-activation-email" -> SendActivationEmail
      [] k = "activation-simulator" -> ActivationSimulator
      [] k = "post-activation-audit" -> PostActivationAudit
      [] k = "weather-agent" -> WeatherAgent
      [] k = "hello-world" -> HelloWorld
      [] k = "provision-user" -> ProvisionUser
      [] k = "mixed" -> << AwaitEvent("go", {}), Step("s", {"flaky"}), Sleep("s", {}), AwaitEvent("go", {}) >>
      [] k = "parent" -> << SpawnStep("spawn", "child"), AwaitTaskResult("child") >>
      [] k = "selfish" -> << SpawnStep("spawn", "parent"), AwaitTaskResult("parent") >>
      [] k = "child" -> << Step("s", {}) >>
      [] k = "two-waits" -> << AwaitEvent("activated", {"timeout", "continues"}), AwaitEvent("go", {"timeout"}) >>]

Queues == [k \in DOMAIN Handlers |-> IF k \in {"parent", "selfish"} THEN "narrow"
                                     ELSE IF k = "child" THEN "children" ELSE "default"]
Concurrency == [q \in {"default", "narrow", "children"} |-> IF q = "default" THEN 2 ELSE 1]
Attempts == [k \in DOMAIN Handlers |->
  CASE k = "provision-customer" -> 3
    [] k = "send-activation-email" -> 4
    [] k \in {"activation-simulator", "post-activation-audit"} -> 1
    [] OTHER -> 2]

Root(k, emits, n, c) == [root |-> k, emits |-> emits, faults |-> n, cancels |-> c]
Workflows ==
  {Root("provision-customer", {}, 0, FALSE), Root("activate-customer", {}, 1, FALSE),
   Root("send-activation-email", {}, 1, TRUE), Root("weather-agent", {}, 1, TRUE),
   Root("hello-world", {}, 2, TRUE), Root("provision-user", {"user-activated"}, 1, TRUE),
   Root("mixed", {"go"}, 2, TRUE), Root("parent", {}, 1, TRUE), Root("selfish", {}, 0, FALSE)}
CaughtTimeout == {Root("two-waits", {}, 0, FALSE)}
=============================================================================
