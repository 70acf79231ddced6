------------------------------ MODULE AlertRule ------------------------------
(***************************************************************************)
(* One `up == 0` rule of monitoring/prometheus/alerts.yml about one scrape *)
(* target, in discrete time: Prometheus samples the target, evaluates the  *)
(* rule, and counts how long it has been true. Both happen at the interval *)
(* of prometheus.yml, at phases that have nothing to do with each other.   *)
(***************************************************************************)
EXTENDS Integers

CONSTANTS
    ScrapeEvery, \* scrape_interval, in ticks
    EvalEvery    \* evaluation_interval, in ticks

ASSUME IntervalsAssumption == {ScrapeEvery, EvalEvery} \subseteq Nat \ {0}

VARIABLES
    up,          \* the latest sample of up{job=...}
    sinceScrape, \* ticks since it was taken
    sinceEval,   \* ticks since the rule was evaluated
    held         \* how long evaluations have found it true, Inactive if not

prometheus == <<up, sinceScrape, sinceEval, held>>

Inactive == -1

RuleTypeOK(for) ==
    /\ up \in BOOLEAN
    /\ sinceScrape \in 0 .. ScrapeEvery - 1
    /\ sinceEval \in 0 .. EvalEvery - 1
    /\ held \in {Inactive} \cup 0 .. for

RuleInit ==
    /\ up = TRUE /\ held = Inactive
    /\ sinceScrape \in 0 .. ScrapeEvery - 1
    /\ sinceEval \in 0 .. EvalEvery - 1

(* Pending until it has been true for as long as `for:` says. Prometheus then
   sends it to AlertManager, which shows it at once. *)
Pending(for) == held # Inactive /\ held < for
Firing(for) == held = for

(* A rule without `for:`. *)
HeldAtOnce(sample, for) == IF sample THEN Inactive ELSE for

Held(sample, for) ==
    IF sample THEN Inactive
    ELSE IF held = Inactive THEN 0
    ELSE IF held + EvalEvery > for THEN for ELSE held + EvalEvery

(* One tick. Where a scrape and an evaluation coincide, either comes first. *)
Tick(serving, for) ==
    /\ sinceScrape' = (sinceScrape + 1) % ScrapeEvery
    /\ sinceEval' = (sinceEval + 1) % EvalEvery
    /\ up' = IF sinceScrape' = 0 THEN serving ELSE up
    /\ \E sample \in {up, up'} :
           held' = IF sinceEval' = 0 THEN Held(sample, for) ELSE held
=============================================================================
