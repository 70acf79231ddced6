-------------------------------- MODULE Chaos --------------------------------
(***************************************************************************)
(* scripts/chaos.sh with scripts/alert_timeline.py: a failure is injected  *)
(* into a container, the alert is timed, the container is brought back and *)
(* a verdict printed. Docker restarts what crashed, Prometheus watches the *)
(* target meanwhile (AlertRule), and any question to it may go unanswered. *)
(* The target crashes by itself only between experiments.                  *)
(***************************************************************************)
EXTENDS AlertRule

CONSTANTS
    For,          \* per scenario: `for:` of its alert, in ticks
    AlertTimeout, \* per scenario: ALERT_TIMEOUT
    Latest,       \* per scenario: the end of WINDOW
    InjectTicks,  \* how long docker takes at most to carry out an injection
    Settle        \* the pause before the second preflight of "crash"

Scenarios == {"kill", "crash", "oom", "depkill"}
Timed == Scenarios \ {"crash"}  \* EXPECT_ALERT

(* All scenarios but depkill wait for one alert, ServiceDown. *)
ASSUME ChaosAssumption ==
    /\ {InjectTicks, Settle} \subseteq Nat
    /\ {For, AlertTimeout, Latest} \subseteq [Scenarios -> Nat \ {0}]
    /\ \A s \in Scenarios \ {"depkill"} : For[s] = For["kill"]
    /\ \A s \in Scenarios : {InjectTicks, Settle, For[s]} \subseteq 0 .. AlertTimeout[s]

(* The window leaves room for the injection, a scrape, an evaluation and the
   for:, which is a whole number of evaluations; the deadline is no earlier. *)
ASSUME WindowAssumption ==
    \A s \in Timed :
        /\ For[s] % EvalEvery = 0
        /\ InjectTicks + ScrapeEvery + EvalEvery + For[s] <= Latest[s]
        /\ Latest[s] <= AlertTimeout[s]

VARIABLES
    container, \* the target's container
    restarted, \* its StartedAt differs from STARTED_BEFORE
    pc, scenario, forced,
    t,         \* ticks since T0; in "settle", since the pause began
    firing,    \* FIRING, the tick at which `measure` saw the alert fire, or None
    amSeen,    \* `measure` has seen it in AlertManager
    alerting,  \* ALERT_VERDICT
    healthy,   \* HEALTHY
    outcome,   \* OVERALL, or why the script stopped before it
    (* History, read by the properties only. *)
    trusted,   \* the preflight was answered, clean, and the target did serve
    hit,       \* the injection took effect
    asked,     \* every query of `measure` has been answered
    paged,     \* the alert has fired since T0
    quick      \* the target was found healthy early enough for no page

docker == <<container, restarted>>
args == <<scenario, forced>>
readings == <<t, firing, amSeen>>
verdicts == <<alerting, healthy, outcome>>
history == <<trusted, hit, asked, paged, quick>>
vars == <<prometheus, docker, pc, args, readings, verdicts, history>>

None == -1

(* "exiting" was told to stop and has not yet; "oom" is the container with the
   32 MiB limit, which never starts. *)
Containers == {"up", "exiting", "starting", "dead", "oom"}
Serving == container = "up"

TypeOK ==
    /\ RuleTypeOK(For[scenario])
    /\ container \in Containers
    /\ pc \in {"idle", "preflight", "inject", "measure", "recover", "wait", "settle", "verify"}
    /\ scenario \in Scenarios
    /\ {restarted, forced, amSeen, healthy, trusted, hit, asked, paged, quick} \subseteq BOOLEAN
    /\ t \in 0 .. AlertTimeout[scenario]
    /\ firing \in {None} \cup 1 .. AlertTimeout[scenario]
    /\ alerting \in {"none", "PASS", "FAIL", "silent", "WARN"}
    /\ outcome \in {"none", "PASS", "PARTIAL", "FAIL", "refused", "died", "interrupted"}

Init ==
    /\ RuleInit
    /\ container = "up" /\ restarted = FALSE
    /\ pc = "idle" /\ scenario \in Scenarios /\ forced = FALSE
    /\ t = 0 /\ firing = None /\ amSeen = FALSE
    /\ alerting = "none" /\ healthy = FALSE /\ outcome = "none"
    /\ trusted = FALSE /\ hit = FALSE /\ asked = TRUE /\ paged = FALSE /\ quick = FALSE

-----------------------------------------------------------------------------
Goto(step) == pc' = step /\ UNCHANGED outcome

Exit(result) ==
    /\ pc' = "idle" /\ outcome' = result
    /\ t' = 0 /\ firing' = None /\ amSeen' = FALSE

(* 1. `docker compose ps` must list SERVICE, which for "depkill" is not the
   target. It lists what runs, a container that is on its way out or that starts
   over and over included; whether one that has exited too depends on its version.
   The target of a behaviour is either SERVICE or loki throughout. *)
Begin(s, force) ==
    /\ pc = "idle"
    /\ s = "depkill" <=> scenario = "depkill"
    /\ scenario' = s /\ forced' = force
    /\ \E listed \in BOOLEAN :
           /\ listed \/ (container = "dead" /\ s # "depkill")
           /\ IF listed THEN pc' = "preflight" /\ outcome' = "none"
                        ELSE pc' = pc /\ outcome' = "refused"
    /\ alerting' = "none" /\ healthy' = FALSE
    /\ UNCHANGED <<prometheus, docker, readings, history>>

(* preflight(): no answer about `up` is a problem, no answer about the alert or
   from AlertManager is taken for none. *)
Clean(upKnown, alertKnown, amKnown) ==
    /\ upKnown /\ up
    /\ alertKnown => held = Inactive
    /\ amKnown => ~Firing(For[scenario])

(* T0 is taken right after it. *)
Preflight ==
    /\ pc = "preflight"
    /\ \E upKnown, alertKnown, amKnown \in BOOLEAN :
           LET clean == Clean(upKnown, alertKnown, amKnown) IN
           /\ IF clean \/ forced THEN Goto("inject") /\ UNCHANGED readings
                                 ELSE Exit("refused")
           /\ trusted' = (clean /\ alertKnown /\ amKnown /\ Serving)
    /\ restarted' = FALSE
    /\ hit' = FALSE /\ asked' = TRUE /\ quick' = FALSE
    /\ paged' = Firing(For[scenario])
    /\ UNCHANGED <<prometheus, container, args, alerting, healthy>>

(* 2. What docker does; `|| true` hides that it did nothing. *)
Inject ==
    /\ pc = "inject"
    /\ \/ /\ scenario \in {"kill", "depkill"}
          /\ container' = "dead" /\ UNCHANGED restarted
       \/ /\ scenario = "crash"
          /\ container' = (IF Serving THEN "exiting" ELSE container) /\ UNCHANGED restarted
       \/ /\ scenario = "oom"
          /\ container' = "oom" /\ restarted' = TRUE
       \/ scenario \in {"crash", "oom"} /\ UNCHANGED docker
    /\ hit' = (container' # container)
    /\ Goto(IF scenario \in Timed THEN "measure" ELSE "wait")
    /\ UNCHANGED <<prometheus, args, readings, alerting, healthy, trusted, asked, paged, quick>>

(* docker compose kill fails, and set -e ends the script. *)
InjectFails ==
    /\ pc = "inject" /\ scenario \in {"kill", "depkill"}
    /\ Exit("died")
    /\ UNCHANGED <<prometheus, docker, args, alerting, healthy, history>>

-----------------------------------------------------------------------------
(* 3. measure(): one poll a second, and so at least one in every tick. *)
Seen(now, known) ==
    /\ firing' = IF firing = None /\ known /\ now THEN t' ELSE firing
    /\ \E amKnown \in BOOLEAN :
           /\ amSeen' = (amSeen \/ (amKnown /\ now))
           /\ asked' = (asked /\ known /\ amKnown)

(* A measure() without its deadline. *)
SeenInBoth == firing # None /\ amSeen
Measured == t = AlertTimeout[scenario] \/ SeenInBoth

Poll ==
    /\ pc = "measure" /\ ~Measured
    /\ Tick(Serving, For[scenario])
    /\ t' = t + 1
    /\ \E known \in BOOLEAN : Seen(held' = For[scenario], known)
    /\ paged' = (paged \/ held' = For[scenario])
    /\ UNCHANGED <<docker, pc, args, verdicts, trusted, hit, quick>>

Judge ==
    /\ pc = "measure" /\ Measured
    /\ alerting' = IF firing = None THEN "FAIL" ELSE "PASS"
    /\ t' = 0 /\ firing' = None /\ amSeen' = FALSE
    /\ Goto("recover")
    /\ UNCHANGED <<prometheus, docker, args, healthy, history>>

(* 4. docker compose up -d: starts what is dead, recreates what has another
   configuration, leaves the rest alone. *)
OnlyTheDead == {"dead"}
NeedsRecreation == {"dead", "oom"}

ComposeUp ==
    IF container \in NeedsRecreation THEN container' = "starting" /\ restarted' = TRUE
    ELSE UNCHANGED docker

Recover ==
    /\ pc = "recover"
    /\ ComposeUp
    /\ Goto("wait")
    /\ UNCHANGED <<prometheus, args, readings, alerting, healthy, history>>

RecoverFails ==
    /\ pc = "recover"
    /\ Exit("died")
    /\ UNCHANGED <<prometheus, docker, args, alerting, healthy, history>>

(* Docker's health status lags: a process that is on its way out still is
   "healthy", which is why the script waits for another StartedAt. *)
ReportedHealthy == container \in {"up", "exiting"}
Recovered == restarted /\ ReportedHealthy

Healed ==
    /\ pc = "wait" /\ Recovered
    /\ healthy' = TRUE
    /\ quick' = (t < For[scenario] - ScrapeEvery)
    /\ t' = 0
    /\ Goto(IF scenario = "crash" THEN "settle" ELSE "verify")
    /\ UNCHANGED <<prometheus, docker, args, firing, amSeen, alerting, trusted, hit, asked, paged>>

(* RECOVERY_TIMEOUT. *)
NotHealed ==
    /\ pc = "wait"
    /\ t' = 0
    /\ Goto("verify")
    /\ UNCHANGED <<prometheus, docker, args, firing, amSeen, alerting, healthy, history>>

(* "crash": the second preflight. *)
CheckSilence ==
    /\ pc = "settle" /\ t = Settle
    /\ \E upKnown, alertKnown, amKnown \in BOOLEAN :
           alerting' = IF Clean(upKnown, alertKnown, amKnown) THEN "silent" ELSE "WARN"
    /\ t' = 0
    /\ Goto("verify")
    /\ UNCHANGED <<prometheus, docker, args, firing, amSeen, healthy, history>>

(* 5, 6. /health of the service and one real request; OVERALL. *)
Overall(works) ==
    IF alerting = "FAIL" \/ ~healthy THEN "FAIL" ELSE IF works THEN "PASS" ELSE "PARTIAL"

Verify ==
    /\ pc = "verify"
    /\ \E works \in BOOLEAN : (works => healthy) /\ Exit(Overall(works))
    /\ UNCHANGED <<prometheus, docker, args, alerting, healthy, history>>

-----------------------------------------------------------------------------
(* Docker, time and the operator. *)

(* restart: unless-stopped. With the limit it is killed again at every start. *)
Restarts ==
    /\ \/ container = "exiting" /\ container' = "starting"
       \/ container = "oom" /\ UNCHANGED container
    /\ restarted' = TRUE
    /\ UNCHANGED <<prometheus, pc, args, readings, verdicts, history>>

Serves ==
    /\ container = "starting"
    /\ container' = "up"
    /\ UNCHANGED <<prometheus, restarted, pc, args, readings, verdicts, history>>

(* Between experiments: it crashes, or somebody starts it again. *)
Crashes ==
    /\ pc = "idle" /\ container = "up"
    /\ container' = "exiting"
    /\ UNCHANGED <<prometheus, restarted, pc, args, readings, verdicts, history>>

StartedByHand ==
    /\ pc = "idle" /\ container \in {"dead", "oom"}
    /\ container' = "starting"
    /\ UNCHANGED <<prometheus, restarted, pc, args, readings, verdicts, history>>

(* Which steps of the script take time, and what it counts meanwhile. *)
Clock ==
    CASE pc = "inject" -> t < InjectTicks /\ t' = t + 1
      [] pc = "settle" -> t < Settle /\ t' = t + 1
      [] pc = "wait" /\ scenario = "crash" ->
             t' = IF t < For[scenario] THEN t + 1 ELSE t
      [] OTHER -> UNCHANGED t

TimePasses ==
    /\ pc # "measure"
    /\ Clock
    /\ Tick(Serving, For[scenario])
    /\ paged' = (paged \/ (pc # "idle" /\ held' = For[scenario]))
    /\ UNCHANGED <<docker, pc, args, firing, amSeen, verdicts, trusted, hit, asked, quick>>

(* Ctrl-C. There is no trap. *)
Interrupt ==
    /\ pc # "idle"
    /\ Exit("interrupted")
    /\ UNCHANGED <<prometheus, docker, args, alerting, healthy, history>>

Next ==
    \/ \E s \in Scenarios, force \in BOOLEAN : Begin(s, force)
    \/ Preflight \/ Inject \/ InjectFails \/ Poll \/ Judge \/ Recover \/ RecoverFails
    \/ Healed \/ NotHealed \/ CheckSilence \/ Verify
    \/ Restarts \/ Serves \/ Crashes \/ StartedByHand \/ TimePasses \/ Interrupt

Spec == Init /\ [][Next]_vars

-----------------------------------------------------------------------------
(* "An alert CANNOT be firing sooner than 60 s ... and should fire within
   60-105 s" (alert_timeline.py:19-30, chaos.sh:98-103). After an answered and
   clean preflight, a PASS is never faster than the rule's for:, so it is this
   failure that fired and not an older one; and where the injection took effect
   and the polls were answered, the alert does fire, inside the window. *)
AlertVerdictIsRight ==
    [][pc = "measure" /\ alerting' # alerting /\ trusted =>
        /\ alerting' = "PASS" => firing >= For[scenario]
        /\ hit /\ asked => alerting' = "PASS" /\ firing <= Latest[scenario]]_vars

(* "No ServiceDown was raised: the outage ended inside the alert's for: window"
   (chaos.sh:253), although the check only sees what is active 20 s later: true
   of an outage that ends one scrape interval before the window does. *)
SilentMeansNoPage ==
    [][pc = "settle" /\ alerting' = "silent" /\ trusted /\ quick => ~paged]_vars

(* A printed verdict means that the fault is gone: the container is neither
   killed nor limited any more, and PASS is said of a process that was started
   after the injection and serves. What an interrupted experiment left behind, or
   one whose docker command failed, is gone as well after kill, oom and depkill.
   "crash" repairs nothing. Run over a container that does not serve, with --force
   or before Prometheus has noticed, it can end with FAIL and leave it as it is, or
   take the restart that was under way for that of the process it has injected
   into, and end with PASS while that one still exits. *)
FaultIsRemoved ==
    [][pc = "verify" /\ outcome' \in {"PASS", "PARTIAL", "FAIL"} =>
        /\ scenario \in Timed \/ trusted =>
            /\ container \notin {"dead", "oom"}
            /\ outcome' = "PASS" => Serving
        /\ outcome' # "FAIL" => restarted /\ container \notin {"dead", "oom"}]_vars
=============================================================================
