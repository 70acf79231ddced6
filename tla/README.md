# Verification of ObserveOps

TLA+ models of the ObserveOps platform: what its scripts, services and alerting
path do under concurrency, crashes, retries and partial failure; TLC runs that
check them on small instances; and TLAPS proofs of the results that hold for
every instance. File and line references are to the repository. `PROJECT.json`
lists the components, the runs, the hazards, the findings and the theorems, and
maps every definition to the lines it models.

1. The system. 2. Modules and code. 3. Runs. 4. Bounds. 5. Fairness. 6. Proofs.
7. Findings. 8. Not modelled. 9. What is left.

## 1. The system

ObserveOps runs four small services (SecureShip, StatusService, RAGService, LLM
Alert Autopilot) behind nginx on an **app server**, and Prometheus, AlertManager,
Loki, Tempo and Grafana on an **observability server**. GitHub Actions builds
images and runs `scripts/deploy.sh` on the app server through SSM. Two Lambda
functions watch from outside. Shell and Python scripts create and destroy the
infrastructure, inject faults and run training games.

| Component | State it keeps | Operations | Interacts with | What is hard | What makes it correct |
|---|---|---|---|---|---|
| `scripts/deploy.sh` | `.env` (IMAGE_TAG), `.previous-version`, containers, image cache | forward deploy, health checks, automatic and manual rollback | Docker, SSM, the four services, systemd at reboot | twenty steps that can each fail, be killed (780 s SSM timeout) or be followed by a reboot; a script that runs itself | success means that all services run the new image and have answered; a rollback returns to an image that served; `.env` always names what runs |
| deploy registration (`deploy.sh` 473-524) | `.last-registered-deploy`, the autopilot's list and counters | POST /deploy-event, Grafana annotation, marker, audit log | autopilot, which the same deploy has just restarted | the POST is best effort and waits behind diagnoses; a kill between POST and marker | no commit is registered twice before another one; the script ends |
| `.github/workflows/deploy.yml` | job results, the concurrency group | test, scan, lint, check-aws, tag, build-push, deploy | SSM command whose outcome it polls | poll limit (12 min) below the command's limit (13 min) | no deploy without green tests; one deploy at a time |
| SecureShip (`apps/secureship/main.py`) | DynamoDB table or local dict, readiness cache | list, get, create, update, delete, /ready | DynamoDB | handlers run in a thread pool; get-then-put without a condition; failures before or after the effect | an answer reflects what the table, or a replica behind it, held during the request; a write that runs alone leaves what was asked for |
| RAGService (`apps/ragservice`) | FAISS index, circuit breaker, metrics | query (retrieve, grade, route, generate), ingest, load at start | Groq, Prometheus | retries inside retries inside a breaker whose lock is held throughout; ingest races with the gauge | bounded calls to a failing provider, and few of them; the index agrees with its map |
| LLM Alert Autopilot (`apps/llm-alert-autopilot/main.py`) | last ten deploys, metrics | webhook, deploy_event | AlertManager, Loki, Groq, Slack | duplicate and retried webhooks, failed diagnosis | what is acknowledged has been worked through; the deploy context names the version that runs |
| Alerting path (`monitoring/`) | pending/firing alerts, groups, silences by inhibition | evaluate, group, inhibit, notify | Prometheus, AlertManager, autopilot, healthchecks | the monitor itself may die; timing of `for:`, group_wait and repeat | an outage is notified; silence is noticed |
| StatusService (`apps/statusservice/main.py`) | counters, FAILURE_RATE | health, status, metrics | nginx, chaos tests | nothing: one request, one answer | simulated failures are counted |
| `scripts/infra-up.sh`, `infra-down.sh` | Terraform state, GitHub secrets, AWS resources, SSM probe target | apply, wait for boot, deploy, arm; disarm, destroy, verify | AWS, GitHub | a step fails half way; AWS cannot be reached when the result is verified | "Down" is said only when nothing that bills is left |
| `scripts/chaos.sh`, `alert_timeline.py` | injected fault, measured times | inject, measure, recover, verdict | Docker, Prometheus, AlertManager | timing by polls against a monitor with two phases; a container that is still on its way out; no trap | a verdict is about this failure; after a verdict the fault is gone |
| `scripts/gameday.py` | game state file, history file, the broken stack | start, hint, reveal, abort | Docker | a crash between breaking and recording, or inside a write of the state | what is broken is on record and can be put back |
| `external_probe` Lambda | the last metric it published | probe, retry once, publish, alert | the public URL, CloudWatch | transient failures, and the function's own time limit over checks that nothing bounds | one failed request is not an outage; the checks are cut short only by one that outlasts its timeout |
| `audit_alerter` Lambda | none | filter a CloudTrail event, post to Slack | EventBridge, Slack, DLQ | delivery at least once, retries, failures after the message was posted | every listed call is in Slack or in the dead-letter queue, and nothing else is |

How they interact: CI starts `deploy.sh` through SSM and polls for its outcome.
`deploy.sh` recreates the containers, then POSTs the deploy to the autopilot that
it has just recreated. AlertManager POSTs the groups of alerts to the same
autopilot. Prometheus scrapes all of them, the autopilot included, and evaluates
the rules that feed AlertManager. `infra-up.sh` and CI meet in two repository
secrets: while they are set, pipelines deploy; while they are not, pipelines skip
everything and succeed. `infra-up.sh` arms the rule that invokes the external
probe, and a teardown destroys it. `chaos.sh` breaks a container and watches
Prometheus and AlertManager notice. `gameday.py` breaks the same stack for people
to mend. The two Lambdas share a Slack webhook, kept in a parameter, and nothing
else.

## 2. Modules and code

| Module | Models | State | Actions |
|---|---|---|---|
| `Deploy` | `scripts/deploy.sh` up to its smoke tests, and what interrupts it | containers with image and health, image cache, `.env`, `.previous-version`; program counter, arguments and outcome of the script | one per step of the script, in its order, each smoke test included; every `docker compose` failure; kill, reboot, crash of a container |
| `Rollout` | what `deploy.sh` promises who reads its verdict, and systemd, which reads `.env` at the next boot | whether a run has changed anything yet, what each service runs, what `.env` names, the verdict | begin, refuse, name a version, move services to it, finish, give up; killed, reboot |
| `ShipRegistry` | the ships API of `apps/secureship/main.py` | table, lagging replica, one record per worker thread | a request arrives; one action per datastore call and outcome (page of a scan, get, put, delete, failed attempt); replication |
| `Readiness` | `/ready` of SecureShip and its cache | outcome and age of the cached check; per thread the check under way | ask, load, respond; DynamoDB comes and goes; time |
| `SecureShip` | `ShipRegistry` and `Readiness`, side by side | | |
| `RagBreaker` | `POST /query` of RAGService: its way to an answer, `_call_llm`, tenacity, pybreaker, the Groq client | circuit, failure counter, clock, lock, per-thread attempt and answer | query, enter, rejection, success, retry, giving up, tick, Groq up and down |
| `CircuitBreaker` | what a circuit breaker promises those who call through it | open or not, failed calls in a row, time since it opened, how each caller's last call ended | a call that succeeds, fails, opens the circuit or is turned away; time |
| `RagIndex` | start, `POST /ingest` and retrieval of RAGService | FAISS vectors, position-to-chunk map, gauge | start, death, one action per read or write of shared state |
| `Autopilot` | the autopilot process: `webhook` and `deploy_event` | waiting requests, the one being served, deploy history, counter | take a webhook, diagnose one alert, answer, handle a deploy event, end of the process |
| `AlertDelivery` | AlertManager's side of a group, as `alertmanager.yml` configures it (external) | alerts, notification log, flush under way | fire, resolve, flush, send, deadline, reset, acknowledgement |
| `DeployEvents` | `deploy.sh` 359-372 and 473-524, and Prometheus' samples | program counter, marker, image of the autopilot's container, samples | one per step; rollback, kill, crash, scrape |
| `AutopilotSystem` | the three modules above, composed | | the joint steps, e.g. a recreated container also resets AlertManager's connection |
| `InfraLifecycle` | `infra-up.sh`, `infra-down.sh`, the gate and the queue of `deploy.yml` | Terraform state and what exists outside it, lock, connection, secrets, pipeline, the probe's rule, program counter | one per step of either script; one per job of the pipeline; interruption, network, manual clean-up |
| `AlertRule` | a rule on `up` in `alerts.yml`, with the phases of scraping and of evaluation | `up`, how long the rule has been active, both phases | a tick |
| `Chaos` | `scripts/chaos.sh` with `scripts/alert_timeline.py`, over `AlertRule` | the target container, the script's readings and verdicts | preflight, inject, poll, judge, recover, healed, settle, verify; Docker restarts and failures; interruption |
| `GameDay` | `scripts/gameday.py` | what is broken, state file, override file, history file; the command that runs | one per docker command and per file operation of start, hint, reveal and abort; kill; repair by hand |
| `AtLeastOnce` | what the audit alerter promises | accepted, told, parked | accept, tell, park |
| `AuditAlerter` | `lambda/audit_alerter/handler.py` with its event rule, retries and dead-letter queue | calls made, one record per delivery, Slack, queue | a call, a delivery, start of an attempt, parameter, POST, failure, parking |
| `ExternalProbe` | `lambda/external_probe/handler.py` | what is reachable; path, round, failures and time of the invocation and of its present step | check, skip, sleep, retry, notify, raise, time limit; the site changes; time |
| `Watchers` | the two Lambdas, side by side | | |
| `DeployProofs`, `SecureShipProofs`, `GameDayProofs`, `WatcherProofs`, `InfraProofs`, `RagServiceProofs`, `AutopilotProofs`, `ChaosProofs` | the theorems (section 6) | | |

The `MC...` modules and the `.cfg` files give the constants their values.

**Deploy.** A container's health is "up" when its process serves, perhaps only
after a slow start, and "down" when it never will. That is decided when it starts,
and no step may look at it before a poll does: a poll finds what is up, or times
out although it is. Docker's own health status lags, so `SaveTarget` may miss a
container that serves. A kill inside a write leaves what the shell's commands
leave (`set_env` deletes a line, then appends it). Which images are pulled is
tracked for secureship only, the service whose image `.previous-version` names
(the other three are on disk only if they ran that version at the prune; four caches
are too many states). The smoke tests are a step each: a service may stop after its
own, and `gone` (history) collects those that do.
`provenUp` (images whose secureship has served here) and `converged` (no change
of `.env` and containers is half done) are history. `--local` is not modelled.

**ShipRegistry.** A datastore call is one step. A failed attempt may have written.
An attempt takes effect before it is given up, or not at all. A read may be answered
by the table or by the replica. `seen` collects, per request, what each ship has been
in the table since the request arrived, `lag` what it was in a replica behind the
table while the request read, and `alone` says that nobody else wrote the same ship
meanwhile; the properties compare answers and effects with them.

**RagBreaker.** pybreaker (external) holds its lock for the whole call, so a
half-open circuit admits one probe and the other threads wait behind it; tenacity
sleeps inside that call, and in each of tenacity's attempts the Groq client (external)
tries its request again by itself: the 15 s of rag_pipeline.py:91 are the limit of one
request, and `LongestAttempt` is what an attempt can take. Time is a tick of one second
for all. `wasted` (history) is how long the lock has been held while Groq was down,
since the outage began or the circuit last opened. A query may also fail before it
gets to the LLM. The counting of requests is left out.

**RagIndex.** LangChain's FAISS wrapper (external) adds the vector, reads the size
of its map, and writes the map in three steps. `overlap` tells whether two ingests
have overlapped since the start: what the service promises about index, map and
gauge holds as long as they have not.

**AutopilotSystem.** The autopilot's handlers are `async def` and block, so one
request is served at a time and the rest wait; a client that hangs up leaves its
request behind. Diagnosis of an alert is one step with two outcomes. A resolved alert is observed for
MTTR unless it fired for a day or more (`long`, main.py:335); AlertManager's timestamps
always parse (timeutil.py). AlertManager
sends a snapshot of its group, sends it again when the connection is reset, gives
up at its deadline, and logs the notification only on a 2xx. An autopilot
container with the same image is kept, one with another image is recreated, with
everything in its memory; compose would also recreate it when its configuration
changed, which is not modelled. `increase()` is computed sample by sample, with
its rule for counter resets.
A POST fails when the container is down, and then nothing waits in its queue.

**InfraLifecycle.** What Terraform creates is in its state or, when the state could
not be saved, an orphan that it does not know. The connection of the operator's
machine comes and goes. `AWS_ROLE_ARN` may or may not have been set (the bootstrap
script prints the command, line 295). The pipeline has one run and one that waits,
which a newer one replaces. The rule that invokes the probe is created disabled,
armed at the end of a bring-up and destroyed with the rest. `excused` remembers
the three ways in which it can be armed over a site that is not there (below). The
90 seconds in which `gh run list` may pick an earlier run, and two operators at
once, are not modelled.

**Readiness, Chaos, ExternalProbe** have discrete time. In `Readiness` the age of
each `checked_at` and of each check's `now` is kept and saturates. In `Chaos` and
`ExternalProbe` a tick is five seconds. Scrapes and evaluations have phases that
nothing aligns; a rule is "firing" at the first evaluation at which it has been
active for its `for:`. A check of the probe takes any time: `urlopen`'s timeout is that
of one connection, to one of the addresses a name has, or of one read, so nothing bounds
a check but Lambda's limit. `slow` (history) says that one has outlasted the timeout.

**Chaos.** Every query may go unanswered, and the script treats "no answer" as it
does: as a problem for `up`, as "no alert" otherwise. Docker's restarts, and a
process that was told to stop and still looks healthy, are actions of their own.
An experiment starts wherever `docker compose ps` lists the service: over a container
that loops under the 32 MiB limit too. Whether one that has exited is listed depends on
the version of compose, so either is possible.
`trusted`, `hit`, `asked`, `paged` and `quick` are history: what the script cannot
see, and the properties compare its verdicts with.

**GameDay.** A write of the state file is an open, which empties it, and a write.
Inject and restore commands are taken one by one and may fail. `lost` marks the
three accidents from which the program does not recover: a kill inside `start`
after the first injection, a kill between open and write, a restore command that
failed.

**AuditAlerter and AtLeastOnce.** EventBridge may deliver a call twice; an
invocation is tried three times; each attempt may fail at the parameter, at the
POST, or after the message has been posted. What fails for the last time goes to
the queue. The refinement mapping takes the calls made, matched by the event
pattern, not by Terraform and seen in this region, as `accepted`.

**SecureShip and Watchers** each join two modules that share no state. A behaviour
exercises one of the two: the interleavings of independent parts show nothing that
the parts do not, and the run is the sum of their states and not the product.

## 3. Runs

| Run | Module, cfg | Shows |
|---|---|---|
| `deploy_safety` | `MCDeploy`, `Deploy_safety` | Any order of deploys and rollbacks of two releases with kills, reboots and crashes at every step: `.previous-version` only ever names an image that served here (`RollbackTargetWasHealthy`); outside a half-done change all services run what `.env` names (`RunningIsWhatEnvNames`); what a deploy has recorded stays the target, and SecureShip's image of it on disk, until the next deploy (`RollbackNeedsNoPull`: a rollback after a deploy that recorded nothing may have to pull); success means that four services run the new image, SecureShip serves, and another one that does not has stopped after its own smoke test (`SuccessMeansServing`); a rollback reported as done restored the recorded version on all four (`AutomaticRollbackUndoes`) |
| `deploy_norollback` | `MCDeploy`, `Deploy_norollback` | Violation, finding 1 |
| `alert_delivery` | `MCAutopilot`, `Autopilot_alerts` | Two alerts in one group, with an autopilot that crashes, answers late or fails a diagnosis: what AlertManager logs as notified was worked through (`NotifiedMeansAttempted`); a firing alert is attempted in the end (`FiringIsAttempted`); the recovery of an outage of less than a day is recorded for MTTR (`RecoveryIsRecorded`) |
| `deploy_events` | `MCAutopilot`, `Autopilot_deploys` | Two runs of `deploy.sh` with rollback, kill and crash beside an alert: a commit is registered twice only after a kill between POST and marker (`NoDoubleCount`); the context for the LLM holds nothing but the running version (`HistoryIsOfRunningImage`); the script ends although its POST has no time limit (`DeployEnds`) |
| `deploy_count` | `MCAutopilot`, `Autopilot_dora` | Violation, finding 2 |
| `secureship` | `MCSecureShip`, `SecureShip` | Two clients that read and write one ship, on DynamoDB and on the dictionary: what an answer to a read says was so during the request, in the table or in a replica behind it, a listing below the page cap is complete where no replica is behind, and a 404 is never a failure in disguise (`AnswersAreTrue`); a write beside no other writer of its ship is not answered 500, and leaves exactly what was asked for when it is answered 200 (`LoneWritesAreExact`); every request is answered (`EveryRequestAnswered`). Two threads on `/ready`: the answer was true no longer ago than the TTL or the longest check (`ReadyIsRecent`) |
| `rag_breaker` | `MCRagBreaker`, `RagBreaker` | Three threads while Groq comes and goes: locks, retries and probing implement `CircuitBreaker`, whose calls are atomic and which opens only after failures in a row, and while the circuit is open nobody is at Groq (`CircuitIsRight`); a call is bounded by its attempts, the requests in each and the waits (`CallIsBounded`); an outage holds the lock for `fail_max` such calls at the most, and then for one with every probe (`OutageIsCutShort`); the circuit closes again when Groq stays up (`RecoversOnceGroqIsBack`) |
| `rag_index` | `MCRagIndex`, `RagIndex` | Two ingesters and a querier across restarts: a process that serves has an index, and vectors, chunks and gauge agree when ingests do not overlap (`IndexAgrees`); a query is then answered from the chunk that was found (`AnsweredFromTheNearestChunk`) |
| `infra` | `MCInfra`, `Infra` | Bring-ups and teardowns that fail or are interrupted anywhere: a teardown that nobody interrupts ends in a verdict, right in both directions where AWS answered (`AnsweredVerdictIsRight`); the secret means that there is a server, unless it could not be removed (`SecretMeansServer`); the probe is armed over a site that was deployed, but for three named excuses (`ArmedMeansDeployed`) |
| `chaos` | `MCChaos`, `Chaos` | The four experiments: after a clean preflight a PASS is never faster than `for:`, and an injection that took effect and was watched does fire inside the window (`AlertVerdictIsRight`); "No ServiceDown was raised" is true of an outage that ended early enough (`SilentMeansNoPage`); a printed verdict means that the fault is gone, and PASS that a new process serves, but for `crash` over a container that did not serve (`FaultIsRemoved`) |
| `gameday` | `MCGameDay`, `GameDay` | Games with kills at every step and docker commands that fail: between commands, what is broken is on record (`BrokenIsRecorded`); a game enters the history after its faults are gone (`ScoredMeansRestored`) |
| `watchers` | `MCWatchers`, `Watchers` | `AuditAlerter` implements `AtLeastOnce`, safety and liveness (`ReportedAtLeastOnce`); the probe's success means that every path answered, its message that each failed path was down for the whole pause or went down twice, and its checks are cut by the time limit only after one that outlasted its timeout (`ErrorsMeanOutage`) |

Each property of a passing run comes with a mutant in `PROJECT.json`: a plausible
bug in one modelled definition that makes the run fail on that property.

## 4. Bounds and why they are enough

- **Deploy**: nothing is bounded but the number of releases, 2, and the kinds of
  fault. The script compares images with the running one, the recorded one and the
  one being deployed; with `Local` there are three. The length of the history of
  deploys is not bounded. The theorems hold for any set of releases.
- **SecureShip**: one ship with two fields of two values, so that an update keeps one
  of them; two threads that both write, since it takes two to lose an update; a scan of
  at most two pages, one retry (the code: two). Ships are independent of one another,
  except in a listing, where the page that has a ship and the cursor behind it are
  chosen freely. Requests are not bounded in number. For `/ready`, a TTL of 2 ticks
  is shorter than the longest check, 4, so that a check can outlive what replaces
  it; ages saturate behind both.
- **RagBreaker**: three threads (one in the call, one waiting, one rejected), two
  failures to open, two attempts of two requests each, one-second request and pause, no
  pause of the client, two-second reset. The ages saturate at their thresholds, so time
  is not bounded. `Horizon` (11) is above the cost of an outage, two calls of 5.
- **RagIndex**: four vectors. One is the knowledge base; two overlapping ingests
  and one after them show every order in which positions can be given twice. A
  restart empties the index, so runs are not bounded in length.
- **AutopilotSystem**: AlertManager has one request in flight, and sends it while fewer
  than `MaxInbox` wait behind the one being served: with 1, an abandoned request may
  still be served, or wait, when the next one is due. `MaxRuns` 2 and
  `MaxCrashes` 1 leave room for a deploy, an interrupted one and a second one of
  the same or another commit. `KeepDeploys` is 1 or 2 instead of 10. The first run
  has two alerts, of which one may last for a day, and no deploys; the second has one alert
  and deploys.
- **InfraLifecycle**: the app server and one other resource; the scripts treat all
  the others alike.
- **Chaos**: ticks of five seconds: both intervals are 3 ticks, `for:` 12 and 24
  ticks, the script's limits as in the source. Experiments are not bounded in number.
- **GameDay**: three scenarios stand for the shapes of the real ones (one fault; two
  faults mended in the other order, with an override file; a fault that another
  scenario has too). Three hints, as in the source; games are not bounded in number.
- **Watchers**: four calls, one of each kind (to be reported, Terraform's, to a
  service this region does not see, on no list), up to two deliveries each, three
  attempts as Lambda makes. Two paths, a timeout of 1 tick, a pause of 4 and a
  limit of 12: the source's 5, 20 and 60 seconds. A check lasts up to the limit.

## 5. Fairness

- `SecureShip`: weak fairness of each serving thread: a call to the datastore
  returns or times out (`connect_timeout`, `read_timeout`, main.py:210-212). Nothing
  makes a client send a request.
- `Watchers`: weak fairness of each invocation that Lambda has accepted: an attempt
  has a time limit, and a failed one is repeated or parked. EventBridge's delivery is
  part of the step that makes the call.
- `RagBreaker`: time passes and a thread that can go on does. `RecoversOnceGroqIsBack`
  also assumes that Groq stays up and queries keep coming, and says so.
- `AutopilotSystem`: the event loop, AlertManager's flushes and sends, and the steps
  of the script. Loki, Groq and Slack calls have time limits, so a diagnosis ends.
  Alerts, deadlines, deploys, rollbacks, kills and scrapes are not fair; crashes
  and runs are bounded, so that a process which is ended again and again is not
  taken for progress.
- `Deploy`, `RagIndex`, `InfraLifecycle`, `Chaos` and `GameDay` state safety only.

## 6. Proofs

Each theorem holds for every value of the constants that the assumptions allow.

| Theorem | Of | Says |
|---|---|---|
| `DeployTypeOK`, `RollbackTargetServed`, `RebootKeepsVersion`, `RollbackImageIsLocal`, `SuccessIsServing`, `RollbackUndoes`, `DeployImplementsRollout` | `Deploy` | the type invariant, `RollbackTargetWasHealthy`, `RunningIsWhatEnvNames`, `RollbackNeedsNoPull`, `SuccessMeansServing`, `AutomaticRollbackUndoes`; it implements `Rollout` |
| `AutopilotTypeOK`, `HistoryNamesTheRunningImage`, `RegisteredOnce`, `NotifiedIsAttempted` | `AutopilotSystem` | the type invariant, `HistoryIsOfRunningImage`, `NoDoubleCount`, `NotifiedMeansAttempted` |
| `SecureShipTypeOK`, `ReadsAreTrue`, `LoneWrites`, `ReadyRecent` | `SecureShip` | the type invariant, `AnswersAreTrue`, `LoneWritesAreExact`, `ReadyIsRecent` |
| `BreakerTypeOK`, `CircuitSparesGroq`, `CallsAreBounded`, `OutagesAreCutShort` | `RagBreaker` | the type invariant, `CircuitIsRight`, `CallIsBounded`, `OutageIsCutShort` |
| `IndexTypes`, `IndexStaysInStep`, `NearestChunkAnswers` | `RagIndex` | the type invariant, `IndexAgrees`, `AnsweredFromTheNearestChunk` |
| `InfraTypeOK`, `SecretNamesAServer`, `ArmedOverASite`, `VerdictIsRight` | `InfraLifecycle` | the type invariant, `SecretMeansServer`, `ArmedMeansDeployed`, `AnsweredVerdictIsRight` |
| `ChaosTypeOK`, `VerdictIsRight`, `SilenceIsTrue`, `FaultGone` | `Chaos` | the type invariant, `AlertVerdictIsRight`, `SilentMeansNoPage`, `FaultIsRemoved` |
| `GameTypeOK`, `FaultsAreRecorded`, `ScoresAreHonest` | `GameDay` | the type invariant, `BrokenIsRecorded`, `ScoredMeansRestored` |
| `WatchersTypeOK`, `AlerterImplementsNotifier`, `ErrorsAreOutages` | `Watchers` | the type invariant, the safety half of `ReportedAtLeastOnce`, `ErrorsMeanOutage` |

**Assumptions.** `Deploy`: the special values differ from one another and from the
tags. `ShipRegistry`: the special values differ from ships and values, and the
limits are numbers. `Readiness`: its two times are numbers. `RagBreaker`:
`NoThread` is no thread, the limits are positive, and the clock counts beyond
`FailMax` of the longest calls (`HorizonAssumption`). `RagIndex`: the special values are no chunks,
there is room for a vector, ingesters are finitely many and none is a querier.
`Autopilot`: `None` is no commit, the history keeps at least one, and the bounds
are numbers. `InfraLifecycle`: the app server is one of the things. `AlertRule`: the
intervals are positive. `Chaos`: all scenarios but `depkill` wait for the same alert,
as chaos.sh:96-107 has it; `WindowAssumption` is the arithmetic those lines explain:
`for:` is a whole number of evaluations, the window ends no earlier than the
injection, a scrape, an evaluation and `for:` take, and the deadline no earlier than
the window. `GameDay`:
each scenario restores the services it injects into, which gameday.py's table
does. `AuditAlerter`: the pattern names events that the handler knows.
`ExternalProbe`: two rounds of checks and the pause are shorter than the limit
(`LimitAssumption`, the arithmetic of `modules/lambda/main.tf:86-88`, for checks that
keep to their timeout, which none has to), and that timeout and the message's are no
longer than the pause.

**Inductive invariants.** Hardly any of the properties is inductive.

- `DeployInv`. That the target has served says nothing of what `SaveTarget` is about
  to write, and that running and recorded version agree is suspended for most of a
  run. It adds what the script relies on from one step to a later one: `ForwardInv`
  (which services have moved to the new tag at each step, that `.env` names it, and
  that it is no rollback by hand),
  `RollbackInv` (that `.env` names the target between writing it and verifying),
  `SavedInv` (the recorded image still is the target: the rollback does not save),
  `CacheInv` (what the prune kept is still there), `ProvenInv` (a secureship that
  serves has served). `TestedInv` stands beside it: what has passed its smoke test
  serves, or is in `gone`. Lemmas about `Start`, `ComposeUp` and `RollbackCompose` say
  once what a compose leaves behind.
  The same invariant carries the refinement of `Rollout`: nothing but what `.env`
  names is ever started, a run that ends well has started it on all four services,
  and one that is refused has changed neither, whatever is killed, crashes or
  reboots. It is stated as a theorem only: TLC finds it true on the instance of
  `deploy_safety`, and a run of its own would take longer than all the others.
- `SystemInv` (`AutopilotProofs`). `ImageInv`: what waits or is remembered is a
  deploy of the image that runs, and from its checks on the script's commit is that
  image. `WaitInv`: at most one event is awaited, it is the last of its kind in the
  queue, and an orphaned one belongs to a commit cut short. `MarkerInv`: what is
  registered and not cut short is the marker's commit, or the one about to be
  marked. `FlightInv`: at most one webhook is awaited, it carries the snapshot of
  the flush, and what it named is still to do or in the histories, its recoveries as
  far as they are `Observed`.
- `RegistryInv`: per thread, what its local variables say is in what it has `seen`, or
  in its `lag` (`CallInv`, `SeenInv`, `ListInv`); beside a request that is alone nobody
  writes its ship (`AloneInv`), so the ship stays as that request found it, or is what
  an attempt of it has made of that, and a further attempt stores the same again
  (`LoneInv`). `ReadyInv`:
  the outcome in the cache, and in every check under way, was true no longer ago
  than its age (`SinceInv`), and nobody reads an older one (`FreshInv`).
- `BreakerInv`: only the holder of the lock is inside the call (`HolderInv`), the
  counters agree with the circuit (`CircuitInv`), and the time spent is no more than
  the attempts so far and the waits between them (`TimeInv`).
  `Spec => Breaker!Spec` is proved step by step: a call takes effect in the step in
  which its thread leaves the breaker, every other step of a thread stutters; the
  failures in a row are counted by a history variable, not by the breaker's own
  counter. That a probe is in time needs the half-open part of `CircuitInv`.
  `WasteInv`: an outage has cost at most a longest call for each failure on the counter,
  and what the present call has taken so far.
- `IndexInv`: how far the only ingest under way has come, and which positions are
  mapped at that point (`SerialInv`); that there is room for those under way
  (`RoomInv`, by cardinality); that a process that serves has an index (`ServingInv`).
- `InfraInv`: what is managed, set and deployed at each step of either script
  (`AppliedInv`, `SecretInv`, `ArmedInv`), and that `LEFT` says what the questions
  so far have found (`CheckInv`).
- `ChaosInv`: none of the verdicts says how the rule came to fire, so the invariant
  relates the age of the rule to the script's clock, in every phase of scraping and
  evaluating. `EarliestInv`: after a clean preflight the rule is younger than `T0`.
  `OutageInv`: after an injection that took effect, how late the sample, then the
  first evaluation, then the alert can be, with `held` a whole number of evaluations.
  `CrashInv` and `SilenceInv`: how far the rule is from firing while the crashed
  target comes back and is sampled again. `ContainerInv` follows the container
  through injection, Docker's restart and `docker compose up`, in an experiment that
  is `Sound`: one that repairs, or that began over a clean preflight.
- `GameInv`: at each step of a command, which faults may be there and what the state
  file says of them (`RecordInv`); during a reveal, that the services already visited
  are mended or noted (`ScoreInv`).
- `AuditInv`: an invocation is of a call that was made and matches (`DeliveredInv`),
  and has an attempt left until it is over (`AttemptInv`). `ProbeInv`: the time since
  the start is bounded by what has been done or a check was slow (`TimeInv`), what
  answered was within
  reach (`BestInv`), what failed was out of reach, and since when (`OutageInv`).

Each proof that a step preserves an invariant has one lemma or case per action. The
action properties follow from the invariant in the state before the step.

Only model-checked: every liveness property (`FiringIsAttempted`,
`RecoveryIsRecorded`, `DeployEnds`, `EveryRequestAnswered`, `RecoversOnceGroqIsBack`,
the liveness half of `ReportedAtLeastOnce`), since ENABLED and fairness are out of
the prover's reach.

## 7. Findings

With a run that shows them:

1. `deploy.sh:383`: a failing `docker compose` after the tag has been recorded ends
   the script under `set -e` without the rollback that README.md:31 promises. The
   run shows it with an unhealthy StatusService, which no step polls; lines 257,
   287, 290 and 372 exit the same way.
2. `llm-alert-autopilot/main.py:105`: every deploy restarts the counter that it
   then increments, so the DORA dashboard's `increase(deployments_total[7d])` stays 0.

Noticed while modelling, without a run of their own:

- deploy.sh:126: a second deploy of the running tag makes that tag the rollback
  target, and the version before it is out of reach.
- deploy.sh:162: a rollback reports success when secureship answers; the other
  three services are not looked at.
- deploy.sh:274-284: a first deploy that fails has no target and stays in place.
- The repository on the host is pulled and never rolled back: after a rollback, the
  images run with the newer compose file and nginx configuration.
- deploy.yml:458 gives up after 720 s while the SSM command may run for 780 s.
- deploy.sh:473-524: a redeploy of the commit last registered, after a manual
  rollback, is skipped as a duplicate; a POST that was lost is not repeated; no
  rollback or failure is ever sent.
- alerts.yml:238: `increase()` does not see the first error of a process.
- alertmanager.yml groups alerts: when one joins, all that fire are diagnosed again.
- main.py:345 of the autopilot: while a diagnosis blocks the loop, `/metrics` does
  not answer, and ServiceDown, "completely unreachable", may fire for it. The Groq
  client's own retries make a diagnosis longer than its time limit suggests.
- secureship/main.py:484: of two concurrent partial updates one is lost
  (`test_main.py:120` tests that the fields not named survive, with one client).
- secureship/main.py:271 reads without `ConsistentRead`: a GET right after a POST that
  was answered 200 may be answered 404, and a partial update may merge into an older
  ship than the one stored.
- secureship/main.py:396: an older, slow readiness check may overwrite a newer one,
  so an answer can be as old as the longest check rather than as the TTL.
- rag_pipeline.py:24-38 and 154 reckon three attempts of 15 s, or "~21s". The 15 s (91)
  limit one request, and the Groq client tries each up to three times inside every
  attempt, so a call can hold the breaker's lock for two minutes and more; who comes
  meanwhile waits for the lock, and then for its own call, until the fifth has failed.
- rag_pipeline.py:180 says "5+ times in 60s", where the breaker counts failures in a
  row whatever the time between them.
- ragservice/main.py:333 counts a query that fails in retrieval as an LLM request with
  status "error", where the comment at 310-311 has the counter count LLM calls only.
- deploy.sh:97 prunes before 126 records. Where SecureShip is not healthy nothing is
  recorded, and the image that `.previous-version` names is gone: the rollback, which is
  likely then, has to pull it. `RollbackNeedsNoPull` says what is left of the promise.
- deploy.sh:389-454: a service that stops after its own smoke test does not keep the
  deploy from reporting success.
- The start ingests before it serves, so RAGIndexEmpty cannot fire.
- infra-down.sh:79: when AWS cannot be asked, no answer counts as "none", and the
  script says "Down". `AnsweredVerdictIsRight` is about the answered verdicts.
- Without `AWS_ROLE_ARN` the pipeline skips everything and succeeds, and infra-up.sh
  arms the probe and reports "UP and verified". An orphan app server with the same
  tag may be the one that CI finds and deploys to. A partial destroy may leave the
  probe armed. These are the excuses of `ArmedMeansDeployed`.
- deploy.yml:22 says that infra-down.sh removes ECR_REGISTRY; it removes
  EC2_INSTANCE_ID only. A waiting run that a newer push supersedes is reported as
  failed, though a deploy goes on.
- chaos.sh:24-29: a crash can keep the service away for 45 to 60 s and still let
  ServiceDown fire. Line 253: an outage that fires and clears before the check 20 s
  later is reported as "No ServiceDown was raised"; and 20 s are not always a scrape
  and an evaluation, which take up to 30, so that a warning may be unfounded.
- chaos.sh:236: the loop counts iterations of a second while `StartedAt` has not
  changed, and gives up after 60 s, not 180. `|| true` hides an injection that
  failed; a `docker compose up -d` that fails ends the script without a verdict;
  there is no trap. `crash --force` over a container that an interrupted `oom` left
  limited prints FAIL and leaves the limit; over one that is just restarting it may say
  PASS of the restart that was under way, while the process it injected into exits.
- autopilot main.py:335: no MTTR is recorded of an outage of a day or more.
- gameday.py:159 injects before it writes its state: a kill in between, or between
  the open that empties the file (87) and the write, leaves a broken stack that no
  later command mends (an empty file makes each of them fail in `json.load`). 238
  removes the state before it writes the history. Restore commands are not checked.
- external_probe: the worst case of 50 s (`modules/lambda/main.tf:86-88`) holds where no
  check takes longer than its timeout. `urlopen` (handler.py:55) applies that to the
  connection to each address of the name in turn and to each read: where packets are
  dropped the checks can outlast the function's 60 s, and Lambda ends it with an error
  and no message in Slack. The 50 s also leave out the notification.

## 8. Not modelled

- **StatusService**: a request has no effect on the next one beyond counters.
- **nginx, Kubernetes manifests, Terraform modules, Grafana, Loki, Tempo**:
  configuration. Their effects appear where a model needs them (nginx waits for its
  dependencies, AlertManager's deadline, Terraform's state).
- **The evaluation of RAG answers, demo, load test, bootstrap**: linear scripts or
  arithmetic on measured data. **Analytics**: Spark jobs over generated logs, apart
  from the platform.
- **RAGService**: the counters of requests and tokens.
- **deploy.sh**: `--local`; the image caches of the other three services.
- **SecureShip**: API keys, rate limits, the cut of a listing into pages by offset.
- **CI**: test, scan and lint are one job with two outcomes; ordering between jobs
  is GitHub's.
- **Alerting**: inhibition, the watchdog route, the Slack receivers, rules over rates
  of traffic. `AlertRule` has no evaluator that falls behind, and no composition with
  the autopilot's blocked loop.
- **Overlapping deploys**: two runs of `deploy.sh` over the same `.env`, when CI has
  given up and the command continues. The script has no lock to verify.
- **gameday.py**: `status`, `export` and `import`, which read, or merge histories.
  **chaos.sh**: the report file.
- **Lambda**: the wording of messages; reserved concurrency.

## 9. What is left

1. Two runs of `deploy.sh` at once, without the other faults of `Deploy`.
2. `AlertRule` composed with `AutopilotSystem`: scrapes that a blocked loop misses,
   and with inhibition and the watchdog.
