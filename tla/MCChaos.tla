------------------------------- MODULE MCChaos -------------------------------
(* Chaos with one tick for five seconds: ServiceDown has for: 1m, LokiDown
   for: 2m, and both intervals are 15 s. *)
EXTENDS Chaos

ByScenario(service, loki) ==
    [s \in {"kill", "crash", "oom", "depkill"} |-> IF s = "depkill" THEN loki ELSE service]

MCFor == ByScenario(12, 24)
MCAlertTimeout == ByScenario(30, 48)
MCLatest == ByScenario(21, 33)
=============================================================================
