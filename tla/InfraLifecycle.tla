---------------------------- MODULE InfraLifecycle ----------------------------
(***************************************************************************)
(* infra-up.sh and infra-down.sh, run one at a time by the operator, and   *)
(* the pipeline that pushes and infra-up start on GitHub. Terraform knows  *)
(* only what its state file lists: a thing created while the state cannot  *)
(* be saved is an orphan, which it neither sees nor destroys. The          *)
(* operator's connection comes and goes, a script can be interrupted, and  *)
(* an interrupted Terraform may leave the state lock behind.               *)
(*                                                                         *)
(* Preflight questions, the domain mode and the two servers' boot logs are *)
(* left out: they can only end the script before it has changed anything   *)
(* that the properties speak of, as the failures modelled here do.         *)
(***************************************************************************)
EXTENDS FiniteSets

CONSTANTS
    Things,     \* what Terraform creates and infra-down.sh asks AWS about
    AppServer   \* the one the pipeline deploys to

ASSUME InfraAssumption == AppServer \in Things

VARIABLES
    managed,  \* things that exist and are in the Terraform state
    orphans,  \* things that exist and are not
    locked,   \* the state lock is held by nobody who runs
    online,   \* the operator's machine reaches AWS and GitHub
    role,     \* the repository secret AWS_ROLE_ARN is set
    secret,   \* the repository secret EC2_INSTANCE_ID is set
    registry, \* the repository secret ECR_REGISTRY is set
    pipeline, \* the pipeline run in progress on main, and the one that waits
    upRun,    \* the run that infra-up.sh started, as GitHub shows it
    probe,    \* the rule that invokes the outside-in probe
    deployed, \* a deploy has passed its smoke tests on the managed app server
    pc,       \* the script that runs: its next step
    tocheck,  \* infra-down.sh: what it has not asked about yet
    left,     \* LEFT
    verdict,  \* how the last script ended
    blind,    \* history: an answer was missing when infra-down.sh asked
    kept,     \* history: the secret could not be removed before a teardown
    excused   \* history: the probe was armed without the deploy it waits for, or
              \* a teardown has not got as far as its rule

vars == <<managed, orphans, locked, online, role, secret, registry, pipeline, upRun, deployed,
          probe, pc, tocheck, left, verdict, blind, kept, excused>>
arming == <<probe, excused>>
aws == <<managed, orphans, locked, deployed, arming>>
github == <<role, secret, registry, pipeline, upRun>>
check == <<tocheck, left, blind>>

Live == managed \cup orphans

UpSteps == {"apply", "boot", "point", "registry", "start", "watch", "arm"}
DownSteps == {"unset", "destroy", "check"}
Starters == {"push", "infra-up"}

Pipelines == [by : Starters \cup {"none"}, job : {"none", "check", "build", "deploy"},
              waiting : Starters \cup {"none"}]

TypeOK ==
    /\ managed \in SUBSET Things /\ orphans \in SUBSET Things
    /\ {locked, online, role, secret, registry, deployed, left, blind, kept, excused} \subseteq BOOLEAN
    /\ pipeline \in Pipelines
    /\ probe \in {"none", "disabled", "armed"}
    /\ upRun \in {"none", "open", "success", "failure"}
    /\ pc \in UpSteps \cup DownSteps \cup {"idle"}
    /\ tocheck \in SUBSET Things
    /\ verdict \in {"none", "up", "not_up", "down", "left", "died", "interrupted"}
    /\ pipeline.by = "none" <=> pipeline.job = "none"
    /\ deployed => AppServer \in managed
    /\ pc \in {"unset", "destroy"} => tocheck = Things

NoPipeline == [by |-> "none", job |-> "none", waiting |-> "none"]

(* After bootstrap-aws-account.sh, which prints the command that sets the role. *)
Init ==
    /\ managed = {} /\ orphans = {} /\ locked = FALSE /\ deployed = FALSE
    /\ online = TRUE /\ role \in BOOLEAN /\ secret = FALSE /\ registry = FALSE
    /\ pipeline = NoPipeline /\ upRun = "none"
    /\ pc = "idle" /\ tocheck = {} /\ left = FALSE /\ verdict = "none"
    /\ blind = FALSE /\ kept = FALSE /\ probe = "none" /\ excused = FALSE

-----------------------------------------------------------------------------
Begin(step) == pc' = step /\ verdict' = "none"
End(how) == pc' = "idle" /\ verdict' = how
Goto(step) == pc' = step /\ UNCHANGED verdict

(* set -e, or `fail`: the script ends with a message and exit 1. *)
Dies(step) ==
    /\ pc = step
    /\ End("died")
    /\ UNCHANGED <<aws, github, check, online, kept>>

-----------------------------------------------------------------------------
(* infra-up.sh *)

StartUp ==
    /\ pc = "idle" /\ online
    /\ Begin("apply")
    /\ UNCHANGED <<aws, github, check, online, kept>>

(* terraform apply creates what the state does not list, orphan or not. *)
Create(t) ==
    /\ pc = "apply" /\ online /\ ~locked /\ t \in Things \ managed
    /\ managed' = managed \cup {t}
    /\ UNCHANGED <<orphans, locked, deployed, arming, github, check, online, pc, verdict, kept>>

(* The rule too, and disabled: there is no site yet. To create it again is to
   overwrite it, so it cannot become an orphan. *)
CreateProbe ==
    /\ pc = "apply" /\ online /\ ~locked /\ probe = "none"
    /\ probe' = "disabled"
    /\ UNCHANGED <<managed, orphans, locked, deployed, excused, github, check, online, pc, verdict, kept>>

(* It fails, or the connection does: what was just created may miss the state
   file, and the lock may stay. *)
ApplyFails ==
    /\ pc = "apply"
    /\ \/ UNCHANGED orphans
       \/ \E t \in Things \ managed : orphans' = orphans \cup {t} /\ ~locked
    /\ locked' \in {locked, TRUE}
    /\ End("died")
    /\ UNCHANGED <<managed, deployed, arming, github, check, online, kept>>

ApplyDone ==
    /\ pc = "apply" /\ online /\ ~locked /\ managed = Things /\ probe # "none"
    /\ Goto("boot")
    /\ UNCHANGED <<aws, github, check, online, kept>>

(* wait_for_boot, for both servers. *)
Booted ==
    /\ pc = "boot" /\ online
    /\ Goto("point")
    /\ UNCHANGED <<aws, github, check, online, kept>>

PointGitHub ==
    /\ pc = "point" /\ online
    /\ secret' = TRUE
    /\ Goto("registry")
    /\ UNCHANGED <<aws, role, registry, pipeline, upRun, check, online, kept>>

NameRegistry ==
    /\ pc = "registry" /\ online
    /\ registry' = TRUE
    /\ Goto("start")
    /\ UNCHANGED <<aws, role, secret, pipeline, upRun, check, online, kept>>

(* One run per branch, one that waits; a newer one takes the waiting place and
   the older is cancelled. *)
Enqueue(who) ==
    IF pipeline.by = "none" THEN [pipeline EXCEPT !.by = who, !.job = "check"]
    ELSE [pipeline EXCEPT !.waiting = who]

Superseded == pipeline.by # "none" /\ pipeline.waiting = "infra-up"

(* gh workflow run, and the search for the run that it made. *)
StartPipeline ==
    /\ pc = "start" /\ online
    /\ pipeline' = Enqueue("infra-up")
    /\ upRun' = "open"
    /\ Goto("watch")
    /\ UNCHANGED <<aws, role, secret, registry, check, online, kept>>

(* Any other conclusion, or none within 40 minutes, is reported. *)
AnyConclusion == upRun # "open"
GoodConclusion == upRun = "success"

Watch ==
    /\ pc = "watch"
    /\ IF GoodConclusion /\ online THEN Goto("arm") ELSE End("not_up")
    /\ UNCHANGED <<aws, github, check, online, kept>>

ArmProbe ==
    /\ pc = "arm" /\ online
    /\ probe' = "armed"
    /\ excused' = (~role \/ AppServer \in orphans)
    /\ End("up")
    /\ UNCHANGED <<managed, orphans, locked, deployed, github, check, online, kept>>

-----------------------------------------------------------------------------
(* infra-down.sh *)

SkipUnset == "destroy"
FirstStep == "unset"

StartDown ==
    /\ pc = "idle" /\ online
    /\ Begin(FirstStep)
    /\ tocheck' = Things /\ left' = FALSE /\ blind' = FALSE
    /\ UNCHANGED <<aws, github, online, kept>>

(* gh secret delete ... || true *)
UnsetSecret ==
    /\ pc = "unset"
    /\ \/ online /\ secret' = FALSE /\ kept' = FALSE
       \/ UNCHANGED secret /\ kept' = secret
    /\ Goto("destroy")
    /\ UNCHANGED <<aws, role, registry, pipeline, upRun, check, online>>

DeployedForEver(t) == deployed
StillDeployed(t) == deployed /\ t # AppServer

Destroy(t) ==
    /\ pc = "destroy" /\ online /\ ~locked /\ t \in managed
    /\ managed' = managed \ {t}
    /\ deployed' = StillDeployed(t)
    /\ excused' = (excused \/ probe = "armed")
    /\ UNCHANGED <<orphans, locked, probe, github, check, online, pc, verdict, kept>>

DestroyProbe ==
    /\ pc = "destroy" /\ online /\ ~locked /\ probe # "none"
    /\ probe' = "none" /\ excused' = FALSE
    /\ UNCHANGED <<managed, orphans, locked, deployed, github, check, online, pc, verdict, kept>>

DestroyDone ==
    /\ pc = "destroy" /\ online /\ ~locked /\ managed = {} /\ probe = "none"
    /\ Goto("check")
    /\ UNCHANGED <<aws, github, check, online, kept>>

(* || DESTROY_OK=0: the check below runs all the same. *)
CheckAnyway == Goto("check")

DestroyFails ==
    /\ pc = "destroy"
    /\ locked' \in {locked, TRUE}
    /\ CheckAnyway
    /\ UNCHANGED <<managed, orphans, deployed, arming, github, check, online, kept>>

(* check <label> <count>: the count comes from AWS, not from the state. An empty
   answer is taken for none. *)
InState(t) == t \in managed
Exists(t) == t \in Live

Ask(t) ==
    /\ pc = "check" /\ t \in tocheck
    /\ tocheck' = tocheck \ {t}
    /\ left' = (left \/ (online /\ Exists(t)))
    /\ blind' = (blind \/ ~online)
    /\ UNCHANGED <<aws, github, online, pc, verdict, kept>>

Report ==
    /\ pc = "check" /\ tocheck = {}
    /\ End(IF left THEN "left" ELSE "down")
    /\ UNCHANGED <<aws, github, check, online, kept>>

-----------------------------------------------------------------------------
(* deploy.yml *)

Push ==
    /\ pipeline' = Enqueue("push")
    /\ upRun' = IF Superseded THEN "failure" ELSE upRun
    /\ pipeline' # pipeline
    /\ UNCHANGED <<aws, role, secret, registry, check, online, pc, verdict, kept>>

Concluded(how) ==
    /\ pipeline' = IF pipeline.waiting = "none" THEN NoPipeline
                   ELSE [by |-> pipeline.waiting, job |-> "check", waiting |-> "none"]
    /\ upRun' = IF pipeline.by = "infra-up" /\ upRun = "open" THEN how ELSE upRun

NextJob(job) == pipeline' = [pipeline EXCEPT !.job = job] /\ UNCHANGED upRun

(* check-aws: without a stack to deploy to, the other jobs are skipped, and the
   run succeeds. *)
Configured == role /\ secret /\ registry

CheckAws ==
    /\ pipeline.job = "check"
    /\ IF Configured THEN NextJob("build") ELSE Concluded("success")
    /\ UNCHANGED <<aws, role, secret, registry, check, online, pc, verdict, kept>>

TestsFail ==
    /\ pipeline.job = "check"
    /\ Concluded("failure")
    /\ UNCHANGED <<aws, role, secret, registry, check, online, pc, verdict, kept>>

Build ==
    /\ pipeline.job = "build"
    /\ NextJob("deploy") \/ Concluded("failure")
    /\ UNCHANGED <<aws, role, secret, registry, check, online, pc, verdict, kept>>

(* The app server is found by its tag: any that runs, the orphan included. *)
DeploySucceeds ==
    /\ pipeline.job = "deploy" /\ AppServer \in Live
    /\ \/ AppServer \in managed /\ deployed' = TRUE
       \/ AppServer \in orphans /\ UNCHANGED deployed
    /\ Concluded("success")
    /\ UNCHANGED <<managed, orphans, locked, arming, role, secret, registry, check, online, pc, verdict, kept>>

DeployFails ==
    /\ pipeline.job = "deploy"
    /\ Concluded("failure")
    /\ UNCHANGED <<aws, role, secret, registry, check, online, pc, verdict, kept>>

-----------------------------------------------------------------------------
(* The operator and the network. *)

Interrupt ==
    /\ pc # "idle"
    /\ End("interrupted")
    /\ locked' \in {locked, locked \/ pc \in {"apply", "destroy"}}
    /\ UNCHANGED <<managed, orphans, deployed, arming, github, check, online, kept>>

(* "Clear it before running this again", "look at it in the console". *)
CleanUpByHand ==
    /\ pc = "idle"
    /\ \/ locked' = FALSE /\ locked /\ UNCHANGED orphans
       \/ \E t \in orphans : orphans' = orphans \ {t} /\ UNCHANGED locked
    /\ UNCHANGED <<managed, deployed, arming, github, check, online, pc, verdict, kept>>

Connection ==
    /\ online' = ~online
    /\ UNCHANGED <<aws, github, check, pc, verdict, kept>>

Up ==
    \/ StartUp \/ CreateProbe \/ ApplyFails \/ ApplyDone \/ Booted \/ PointGitHub \/ NameRegistry
    \/ StartPipeline \/ Watch \/ ArmProbe
    \/ \E t \in Things : Create(t)
    \/ \E step \in {"boot", "point", "registry", "start", "arm"} : Dies(step)

Down ==
    \/ StartDown \/ UnsetSecret \/ DestroyProbe \/ DestroyDone \/ DestroyFails \/ Report
    \/ \E t \in Things : Destroy(t) \/ Ask(t)

Pipeline == Push \/ CheckAws \/ TestsFail \/ Build \/ DeploySucceeds \/ DeployFails

Next == Up \/ Down \/ Pipeline \/ Interrupt \/ CleanUpByHand \/ Connection

Spec == Init /\ [][Next]_vars

-----------------------------------------------------------------------------
(* A teardown that nobody interrupts ends in a verdict about what is left, also
   after a failed destroy (the postmortem of 2026-10-07); and where AWS answered
   every question, the verdict is right in both directions, also about what
   Terraform has lost sight of. *)
AnsweredVerdictIsRight ==
    [][pc' = "idle" /\ pc \in DownSteps /\ verdict' # "interrupted" =>
        /\ verdict' \in {"down", "left"}
        /\ ~blind => (verdict' = "down" <=> Live = {})]_vars

(* "An armed probe would spend the first fifteen minutes reporting an outage that
   is simply a build in progress" (terraform/modules/lambda/main.tf:111-115): it
   is armed only while a deploy that passed its smoke tests is on the server that
   Terraform manages. So "UP and verified" is true. Three things excuse it:
   the role's secret is missing, which preflight does not look for (a pipeline
   without it succeeds by skipping everything); two servers have the app's tag;
   a teardown has destroyed something and not the rule. *)
ArmedMeansDeployed == probe = "armed" => deployed \/ excused

(* EC2_INSTANCE_ID: "its presence means the stack is up". So no pipeline that
   starts in or after a teardown deploys, unless the secret could not be
   removed. *)
SecretMeansServer == secret => AppServer \in Live \/ kept
=============================================================================
