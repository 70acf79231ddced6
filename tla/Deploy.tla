------------------------------- MODULE Deploy -------------------------------
(***************************************************************************)
(* scripts/deploy.sh on the production app server: the forward deploy, the *)
(* rollback it falls back to, and what survives on the host between runs   *)
(* (.env, .previous-version, the containers and the image cache), together *)
(* with the two things that interrupt a run: the SSM executionTimeout,     *)
(* which kills it, and a reboot, after which systemd brings the stack up   *)
(* from .env. The registration of a finished deploy is DeployEvents.       *)
(*                                                                         *)
(* One host, one script at a time (the workflow's concurrency group).      *)
(* Releases are image tags of one registry; --local is not modelled.       *)
(***************************************************************************)
EXTENDS Naturals, FiniteSets

CONSTANTS
    Tags,      \* image tags that CI has pushed to the registry
    Local,     \* observeops/<service>:local, what compose resolves without .env
    NoImage,   \* the container does not exist
    Blank,     \* a line or file that is present but empty, or no line at all
    NoFile,    \* the file does not exist
    Faults     \* which of "kill", "reboot", "crash" may happen

ASSUME ConstantsAssumption ==
    /\ Local \notin Tags
    /\ {NoImage, Blank, NoFile} \cap (Tags \cup {Local}) = {}
    /\ NoImage # Blank /\ NoImage # NoFile /\ Blank # NoFile
    /\ Faults \subseteq {"kill", "reboot", "crash"}

VARIABLES
    container, \* per service: the image its container runs, and its health
    cached,    \* releases of secureship on the host's disk
    env,       \* IMAGE_TAG (and ECR_REGISTRY) as written in .env
    target,    \* .previous-version
    pc,        \* the next step of the running script, "idle" if none runs
    run,       \* arguments of the run, and what the last deploy saved to return to
    outcome,   \* how the last run ended, "running" while one runs
    (* History, read by the properties only. *)
    provenUp,  \* images whose secureship has served on this host
    converged, \* no change of .env and containers has been left half done
    gone       \* services that stopped after they had passed their smoke test

hostVars == <<container, cached, env, target>>
scriptVars == <<pc, run, outcome>>
recordVars == <<provenUp, converged>>
historyVars == <<recordVars, gone>>
vars == <<hostVars, scriptVars, historyVars>>

Services == {"secureship", "statusservice", "ragservice", "autopilot"}
NginxDeps == {"secureship", "statusservice", "ragservice"}
Images == Tags \cup {Local}

(* "up" if the container's process serves, if need be after a slow start;
   "down" if it crashed, never serves, or does not exist. *)
Container == [image : Images \cup {NoImage}, health : {"up", "down"}]

UpPcs == {"up_secureship", "up_statusservice", "up_ragservice", "up_autopilot",
          "up_nginx"}
RollbackPcs == {"rb_check", "rb_env", "rb_up", "rb_poll"}
SmokePcs == {"smoke_secureship", "smoke_statusservice", "smoke_ragservice",
             "smoke_autopilot", "smoke_ready"}
Pcs == {"idle", "prune", "save", "pull", "env", "poll_secureship",
        "poll_ragservice", "check_kb"} \cup UpPcs \cup SmokePcs \cup RollbackPcs
Outcomes == {"none", "running", "success",
             "refused",    \* stopped before it changed anything
             "no_target",  \* a check failed and there was no version to return to
             "rolledback", \* a check failed and the automatic rollback verified
             "restored",   \* deploy.sh --rollback, run by hand, verified
             "manual",     \* exit 2: the rollback did not restore service
             "aborted",    \* a docker command failed and set -e ended the script
             "unhealthy",  \* the same, because a dependency of nginx is unhealthy
             "killed"}

TypeOK ==
    /\ container \in [Services -> Container]
    /\ cached \subseteq Tags
    /\ env \in Images \cup {Blank}
    /\ target \in Images \cup {Blank, NoFile}
    /\ pc \in Pcs
    /\ run \in [tag : Tags \cup {NoImage}, byHand : BOOLEAN,
                saved : Images \cup {NoImage}]
    /\ outcome \in Outcomes
    /\ provenUp \subseteq Images
    /\ converged \in BOOLEAN
    /\ gone \subseteq Services

(* A new instance: user_data wrote a .env without IMAGE_TAG and started none
   of the four services. *)
Init ==
    /\ container = [s \in Services |-> [image |-> NoImage, health |-> "down"]]
    /\ cached = {}
    /\ env = Blank
    /\ target = NoFile
    /\ pc = "idle"
    /\ run = [tag |-> NoImage, byHand |-> FALSE, saved |-> NoImage]
    /\ outcome = "none"
    /\ provenUp = {}
    /\ converged = FALSE
    /\ gone = {}

-----------------------------------------------------------------------------
(* What the steps are made of. *)

Up(s) == container[s].health = "up"
RunningSecureship == container["secureship"].image

(* ${ECR_REGISTRY:-observeops}/<service>:${IMAGE_TAG:-local} *)
Resolve(t) == IF t = Blank THEN Local ELSE t

(* The script goes on, or ends: then only what it recorded is left of the run. *)
Goto(label) == pc' = label /\ UNCHANGED <<run, outcome>>
Exit(result) ==
    /\ pc' = "idle" /\ outcome' = result
    /\ run' = [run EXCEPT !.tag = NoImage, !.byHand = FALSE]

(* The containers of S start from image; each will serve, or not. *)
Start(S, image) ==
    \E serving \in SUBSET S :
        /\ container' = [s \in Services |->
               IF s \in S
               THEN [image |-> image, health |-> IF s \in serving THEN "up" ELSE "down"]
               ELSE container[s]]
        /\ provenUp' = IF "secureship" \in serving THEN provenUp \cup {image} ELSE provenUp

(* docker compose up -d --no-deps S: a container that already has the image
   is left alone, unless its configuration has changed since. *)
ComposeUp(S, image) ==
    \/ Start(S, image)
    \/ Start({s \in S : container[s].image # image}, image)

WorthReturningToIfRunning == RunningSecureship # NoImage
WorthReturningTo == RunningSecureship # NoImage /\ Up("secureship")

(* docker image prune -a: keeps only what a container uses. *)
PruneUnused == cached' = cached \cap {RunningSecureship}

(* Compose pulls an image that is not on disk; Local it builds. *)
Fetch(S, image) ==
    cached' = IF "secureship" \in S THEN cached \cup ({image} \cap Tags) ELSE cached

ForgetTag == UNCHANGED env
RecordTag == env' = run.tag

HaveTargetAssumed == TRUE
HaveTarget == target # NoFile

SaveBeforeRollback == target' = RunningSecureship
KeepTarget == UNCHANGED target

KeepCache == UNCHANGED cached

(* What deploy.sh does when a check fails: run itself with --rollback. *)
RollBackIfPossible == IF HaveTarget THEN Goto("rb_check") ELSE Exit("no_target")

(* The calling deploy turns any failure of its rollback into exit 2. *)
RollbackExit(result) == Exit(IF run.byHand THEN result ELSE "manual")

-----------------------------------------------------------------------------
(* The forward deploy. *)

StartDeploy(t) ==
    /\ pc = "idle"
    /\ pc' = "prune" /\ outcome' = "running"
    /\ run' = [tag |-> t, byHand |-> FALSE, saved |-> NoImage]
    /\ UNCHANGED <<hostVars, historyVars>>

Prune ==
    /\ pc = "prune"
    /\ PruneUnused
    /\ Goto("save")
    /\ UNCHANGED <<container, env, target, historyVars>>

(* Docker is not running, or there is less than 2 GB free. *)
PreCheckFails ==
    /\ pc \in {"prune", "save"}
    /\ Exit("refused")
    /\ UNCHANGED <<hostVars, historyVars>>

(* Docker may not have probed a container that already serves. *)
SaveTarget ==
    /\ pc = "save"
    /\ pc' = "pull" /\ UNCHANGED outcome
    /\ \/ /\ WorthReturningTo
          /\ target' = RunningSecureship
          /\ run' = [run EXCEPT !.saved = RunningSecureship]
       \/ UNCHANGED <<target, run>>
    /\ UNCHANGED <<container, cached, env, historyVars>>

(* ECR login and docker compose pull. *)
Pull ==
    /\ pc = "pull"
    /\ Fetch(Services, run.tag)
    /\ Goto("env")
    /\ UNCHANGED <<container, env, target, historyVars>>

PullFails ==
    /\ pc = "pull"
    /\ \E pulled \in SUBSET Services : Fetch(pulled, run.tag)
    /\ Exit("refused")
    /\ UNCHANGED <<container, env, target, historyVars>>

WriteEnv ==
    /\ pc = "env"
    /\ RecordTag
    /\ converged' = FALSE
    /\ Goto("up_secureship")
    /\ UNCHANGED <<container, cached, target, provenUp, gone>>

UpStep == [secureship    |-> [from |-> "up_secureship",    to |-> "poll_secureship"],
           statusservice |-> [from |-> "up_statusservice", to |-> "up_ragservice"],
           ragservice    |-> [from |-> "up_ragservice",    to |-> "poll_ragservice"],
           autopilot     |-> [from |-> "up_autopilot",     to |-> "up_nginx"]]

UpService(s) ==
    /\ pc = UpStep[s].from
    /\ ComposeUp({s}, run.tag)
    /\ converged' = (s = "autopilot")
    /\ Goto(UpStep[s].to)
    /\ UNCHANGED <<cached, env, target, gone>>

(* set -e: a failing docker compose ends the script there, with no rollback. *)
UpFails ==
    /\ pc \in UpPcs
    /\ Exit("aborted")
    /\ UNCHANGED <<hostVars, historyVars>>

PollStep == [secureship |-> [from |-> "poll_secureship", to |-> "up_statusservice"],
             ragservice |-> [from |-> "poll_ragservice", to |-> "check_kb"]]

PollSucceeds(s) ==
    /\ pc = PollStep[s].from
    /\ Up(s)
    /\ Goto(PollStep[s].to)
    /\ UNCHANGED <<hostVars, historyVars>>

(* 12 or 36 polls without an answer: down, or slower than the timeout. *)
PollTimesOut(s) ==
    /\ pc = PollStep[s].from
    /\ RollBackIfPossible
    /\ UNCHANGED <<hostVars, historyVars>>

(* Was RAGService's index built from the runbooks? Depends on the mount. *)
CheckKnowledgeBase ==
    /\ pc = "check_kb"
    /\ Goto("up_autopilot") \/ RollBackIfPossible
    /\ UNCHANGED <<hostVars, historyVars>>

(* docker compose up nginx without --no-deps: waits for service_healthy of its
   three dependencies, and fails as soon as one of them is unhealthy. *)
UpNginx ==
    /\ pc = "up_nginx"
    /\ IF \A s \in NginxDeps : Up(s) THEN Goto("smoke_secureship") ELSE Exit("unhealthy")
    /\ UNCHANGED <<hostVars, historyVars>>

SmokeStep == [secureship    |-> [from |-> "smoke_secureship",    to |-> "smoke_statusservice"],
              statusservice |-> [from |-> "smoke_statusservice", to |-> "smoke_ragservice"],
              ragservice    |-> [from |-> "smoke_ragservice",    to |-> "smoke_autopilot"],
              autopilot     |-> [from |-> "smoke_autopilot",     to |-> "smoke_ready"]]

AnswersOrWarns(s) == TRUE
Answers(s) == Up(s)

(* check_endpoint polls one /health after the other, each for up to a minute (two
   of them are SecureShip's). One that does not answer, or too late, decides for the
   rollback: the tests after it are made, too, and change nothing. *)
SmokeTest(s) ==
    /\ pc = SmokeStep[s].from
    /\ \/ Answers(s) /\ Goto(SmokeStep[s].to) /\ UNCHANGED gone
       \/ Goto("rb_check") /\ gone' = {}
    /\ UNCHANGED <<hostVars, recordVars>>

(* /ready, then one authenticated and one refused call. They depend on DynamoDB and
   the key, too, and the last answer is SecureShip's. The rollback is called without
   looking for .previous-version. *)
SmokeVerdict ==
    /\ pc = "smoke_ready"
    /\ \/ Answers("secureship") /\ Exit("success")
       \/ Goto("rb_check")
    /\ gone' = {}
    /\ UNCHANGED <<hostVars, recordVars>>

-----------------------------------------------------------------------------
(* deploy.sh --rollback, by hand or from a failed check. *)

StartRollback ==
    /\ pc = "idle"
    /\ pc' = "rb_check" /\ outcome' = "running"
    /\ run' = [run EXCEPT !.tag = NoImage, !.byHand = TRUE]
    /\ UNCHANGED <<hostVars, historyVars>>

(* Docker down, disk full, or no .previous-version. *)
RollbackRefused ==
    /\ pc = "rb_check"
    /\ RollbackExit("refused")
    /\ UNCHANGED <<hostVars, historyVars>>

(* The same pre-checks as a deploy, without its prune and its save. *)
RollbackCheck ==
    /\ pc = "rb_check"
    /\ HaveTarget
    /\ Goto("rb_env")
    /\ KeepTarget /\ KeepCache
    /\ UNCHANGED <<container, env, historyVars>>

RollbackWriteEnv ==
    /\ pc = "rb_env"
    /\ env' = target
    /\ converged' = FALSE
    /\ Goto("rb_up")
    /\ UNCHANGED <<container, cached, target, provenUp, gone>>

(* docker compose up of the services in S. What is not on disk is pulled. *)
RollbackCompose(S) ==
    /\ ComposeUp(S, Resolve(target))
    /\ Fetch(S, Resolve(target))

RollbackUp ==
    /\ pc = "rb_up"
    /\ RollbackCompose(Services)
    /\ converged' = TRUE
    /\ Goto("rb_poll")
    /\ UNCHANGED <<env, target, gone>>

(* A pull or a container fails after some of the four were replaced. *)
RollbackUpFails ==
    /\ pc = "rb_up"
    /\ \E done \in SUBSET Services : RollbackCompose(done)
    /\ RollbackExit("aborted")
    /\ UNCHANGED <<env, target, converged, gone>>

(* Only SecureShip is verified, for one minute. *)
RollbackPoll ==
    /\ pc = "rb_poll"
    /\ \/ /\ Up("secureship")
          /\ Exit(IF run.byHand THEN "restored" ELSE "rolledback")
       \/ Exit("manual")
    /\ UNCHANGED <<hostVars, historyVars>>

-----------------------------------------------------------------------------
(* Faults. *)

(* The services whose smoke test is over. *)
SmokeTested ==
    CASE pc = "smoke_statusservice" -> {"secureship"}
      [] pc = "smoke_ragservice" -> {"secureship", "statusservice"}
      [] pc = "smoke_autopilot" -> NginxDeps
      [] pc = "smoke_ready" -> Services
      [] OTHER -> {}

(* A serving container stops serving, in a deploy or between two. *)
Crash(s) ==
    /\ "crash" \in Faults
    /\ Up(s)
    /\ container' = [container EXCEPT ![s].health = "down"]
    /\ gone' = gone \cup ({s} \cap SmokeTested)
    /\ UNCHANGED <<cached, env, target, scriptVars, recordVars>>

(* What a kill in the middle of a step leaves. set_env deletes the old line
   before it appends the new one, `>` truncates before echo writes, and
   compose replaces the services one by one. *)
CutShort ==
    CASE pc = "save" /\ WorthReturningTo ->
            target' \in {target, Blank} /\ UNCHANGED <<container, cached, env, recordVars>>
      [] pc = "env" ->
            /\ env' \in {Blank, run.tag} /\ converged' = FALSE
            /\ UNCHANGED <<container, cached, target, provenUp>>
      [] pc = "rb_env" ->
            /\ env' \in {Blank, target} /\ converged' = FALSE
            /\ UNCHANGED <<container, cached, target, provenUp>>
      [] pc = "rb_up" ->
            /\ \E done \in SUBSET Services : RollbackCompose(done)
            /\ UNCHANGED <<env, target, converged>>
      [] pc = "pull" ->
            /\ \E pulled \in SUBSET Services : Fetch(pulled, run.tag)
            /\ UNCHANGED <<container, env, target, recordVars>>
      [] OTHER -> UNCHANGED <<hostVars, recordVars>>

(* SSM's executionTimeout, or the end of the operator's session: the script
   and the rollback it may be running die, the containers stay. *)
Kill ==
    /\ "kill" \in Faults
    /\ pc # "idle"
    /\ Exit("killed")
    /\ CutShort \/ UNCHANGED <<hostVars, recordVars>>
    /\ gone' = {}

(* systemd stops the containers on the way down and runs docker compose up
   from .env on the way back. An image that is neither on disk nor built from
   the checkout has to be pulled, and the registry login may have expired. *)
Reboot ==
    /\ "reboot" \in Faults
    /\ pc = "idle"
    /\ \/ /\ Start(Services, Resolve(env))
          /\ Fetch(Services, Resolve(env))
          /\ converged' = TRUE
          /\ UNCHANGED gone
       \/ /\ Resolve(env) \in Tags \ cached
          /\ container' = [s \in Services |-> [container[s] EXCEPT !.health = "down"]]
          /\ UNCHANGED <<cached, historyVars>>
    /\ UNCHANGED <<env, target, scriptVars>>

-----------------------------------------------------------------------------
(* What the script does as long as nothing fails under it. *)
Progress ==
    \/ Prune \/ SaveTarget \/ Pull \/ WriteEnv
    \/ \E s \in Services : UpService(s)
    \/ \E s \in {"secureship", "ragservice"} : PollSucceeds(s) \/ PollTimesOut(s)
    \/ CheckKnowledgeBase \/ UpNginx
    \/ (\E s \in Services : SmokeTest(s)) \/ SmokeVerdict
    \/ (~HaveTarget /\ RollbackRefused)
    \/ RollbackCheck \/ RollbackWriteEnv \/ RollbackUp \/ RollbackPoll

Failure ==
    PreCheckFails \/ PullFails \/ UpFails \/ RollbackRefused \/ RollbackUpFails

Next ==
    \/ \E t \in Tags : StartDeploy(t)
    \/ StartRollback
    \/ Progress
    \/ Failure
    \/ \E s \in Services : Crash(s)
    \/ Kill
    \/ Reboot

Spec == Init /\ [][Next]_vars

-----------------------------------------------------------------------------
(* deploy.sh never returns to an image that did not serve: whatever the order
   of deploys, rollbacks, kills and reboots, .previous-version names an image
   whose secureship has served on this host, or is empty (a torn write). *)
RollbackTargetWasHealthy == target \in provenUp \cup {Blank, NoFile}

(* "A reboot must bring back the version": unless a change was left half done,
   the four services run one image and it is the one .env resolves to. *)
RunningIsWhatEnvNames ==
    converged => \A s \in Services : container[s].image = Resolve(env)

(* No rollback has "to force a re-pull in the middle of an incident": once a deploy
   has recorded what runs, SecureShip's image of it stays on disk until the next
   deploy, and is what the automatic rollback, or one by hand, returns to.
   (A deploy that recorded nothing, because SecureShip was not healthy or the disk
   was full, may have pruned what .previous-version names. Such a rollback has to
   pull, and nothing here forbids it.) *)
RollbackNeedsNoPull ==
    run.saved # NoImage => target = run.saved /\ {target} \cap Tags \subseteq cached

(* A deploy that recorded the running version and whose automatic rollback
   reports success ends with all four services back on that version. The
   rollback once overwrote its own target and redeployed the broken image. *)
AutomaticRollbackUndoes ==
    [][outcome' = "rolledback" /\ outcome # "rolledback" /\ run.saved # NoImage =>
        \A s \in Services : container[s].image = run.saved]_vars

(* A deploy reports success only when all four services run its image and have
   served, StatusService and the autopilot included, which no poll waits for. The
   services are tested one after the other: SecureShip, asked first and last, serves
   at that moment, and one that does not has stopped after its own test. *)
SuccessMeansServing ==
    [][outcome' = "success" /\ outcome # "success" =>
        \A s \in Services :
            /\ container[s].image = run.tag
            /\ Up(s) \/ s \in gone \ {"secureship"}]_vars

(* README: "A broken release is detected by its health check and rolled back to
   the last healthy image". Stated for a deploy that ended on its own because a
   service of its release is unhealthy, with another version to return to. *)
UnhealthyReleaseIsRolledBack ==
    outcome = "unhealthy" =>
        \/ target \in {NoFile, env}
        \/ \A s \in Services : container[s] # [image |-> env, health |-> "down"]

-----------------------------------------------------------------------------
(* Nothing is touched before .env is written, not by a rollback by hand either. *)
Phase ==
    CASE pc = "idle" -> "rest"
      [] pc \in {"prune", "save", "pull", "env"} -> "untouched"
      [] pc \in {"rb_check", "rb_env"} /\ run.byHand -> "untouched"
      [] OTHER -> "changing"

(* Steps, health, targets and image caches apart, this is a rollout: nothing but
   what .env names is ever started, a run that ends well has started it everywhere,
   and one that is refused has changed neither. *)
Versions == INSTANCE Rollout WITH
    phase <- Phase,
    images <- [s \in Services |-> container[s].image],
    named <- env,
    report <- outcome
=============================================================================
