----------------------------- MODULE DeployProofs -----------------------------
(* What holds of Deploy for every set of releases and every choice of faults. *)
EXTENDS Deploy, TLAPS

(* The services that the forward deploy has already moved to run.tag. *)
Moved ==
    CASE pc \in {"poll_secureship", "up_statusservice"} -> {"secureship"}
      [] pc = "up_ragservice" -> {"secureship", "statusservice"}
      [] pc \in {"poll_ragservice", "check_kb", "up_autopilot"} -> NginxDeps
      [] pc \in {"up_nginx"} \cup SmokePcs -> Services
      [] OTHER -> {}

ForwardPcs == {"prune", "save", "pull", "env", "poll_secureship",
               "poll_ragservice", "check_kb"} \cup UpPcs \cup SmokePcs
AfterEnvPcs == ForwardPcs \ {"prune", "save", "pull", "env"}

(* Where a step of the script relies on what the steps before it did. *)
ForwardInv ==
    /\ pc \in ForwardPcs => run.tag \in Tags /\ ~run.byHand
    /\ pc \in AfterEnvPcs => env = run.tag
    /\ pc \in AfterEnvPcs \ ({"up_nginx"} \cup SmokePcs) => ~converged
    /\ \A s \in Moved : container[s].image = run.tag

RollbackInv ==
    /\ pc \in {"rb_env", "rb_up", "rb_poll"} => target # NoFile
    /\ pc \in {"rb_up", "rb_poll"} => env = target
    /\ pc = "rb_up" => ~converged
    /\ pc = "rb_poll" => converged

(* The image the last deploy recorded is the target that a rollback returns to. *)
SavedInv ==
    run.saved # NoImage => target = run.saved

(* What a container runs, and what the last deploy recorded, is on disk. *)
CacheInv ==
    /\ {RunningSecureship} \cap Tags \subseteq cached
    /\ {run.saved} \cap Tags \subseteq cached
    /\ pc \in AfterEnvPcs \cup {"env"} => run.tag \in cached
    /\ pc = "prune" => run.saved = NoImage
    /\ pc = "save" => run.saved = NoImage

(* A secureship container that serves has served. *)
ProvenInv == Up("secureship") => RunningSecureship \in provenUp

(* A service that has passed its smoke test serves, or has stopped since. *)
TestedInv == \A s \in SmokeTested : Up(s) \/ s \in gone

DeployInv ==
    /\ TypeOK
    /\ RollbackTargetWasHealthy
    /\ RunningIsWhatEnvNames
    /\ ForwardInv
    /\ RollbackInv
    /\ SavedInv
    /\ CacheInv
    /\ ProvenInv

-----------------------------------------------------------------------------
(* docker compose up leaves every service of S on the image, the others as
   they were, and a serving secureship on record. *)
LEMMA StartEffect ==
    ASSUME TypeOK, ProvenInv, NEW S \in SUBSET Services, NEW image \in Images,
           Start(S, image)
    PROVE  /\ container' \in [Services -> Container]
           /\ \A s \in S : container'[s].image = image
           /\ \A s \in Services \ S : container'[s] = container[s]
           /\ provenUp \subseteq provenUp' /\ provenUp' \subseteq Images
           /\ ProvenInv'
<1>1. PICK serving \in SUBSET S :
        /\ container' = [s \in Services |->
               IF s \in S
               THEN [image |-> image, health |-> IF s \in serving THEN "up" ELSE "down"]
               ELSE container[s]]
        /\ provenUp' = IF "secureship" \in serving THEN provenUp \cup {image} ELSE provenUp
  BY DEF Start
<1>2. container' \in [Services -> Container]
  BY <1>1 DEF TypeOK, Container
<1>3. \A s \in S : container'[s].image = image
  BY <1>1
<1>4. \A s \in Services \ S : container'[s] = container[s]
  BY <1>1
<1>5. provenUp \subseteq provenUp' /\ provenUp' \subseteq Images
  BY <1>1 DEF TypeOK
<1>6. ProvenInv'
  <2>1. CASE "secureship" \in serving
    BY <1>1, <2>1 DEF ProvenInv, RunningSecureship, Services
  <2>2. CASE "secureship" \in S \ serving
    BY <1>1, <2>2 DEF ProvenInv, Up, Services
  <2>3. CASE "secureship" \notin S
    BY <1>1, <2>3 DEF ProvenInv, Up, RunningSecureship, Services
  <2>4. QED
    BY <2>1, <2>2, <2>3
<1>7. QED
  BY <1>2, <1>3, <1>4, <1>5, <1>6

LEMMA ComposeUpEffect ==
    ASSUME TypeOK, ProvenInv, NEW S \in SUBSET Services, NEW image \in Images,
           ComposeUp(S, image)
    PROVE  /\ container' \in [Services -> Container]
           /\ \A s \in S : container'[s].image = image
           /\ \A s \in Services \ S : container'[s] = container[s]
           /\ provenUp \subseteq provenUp' /\ provenUp' \subseteq Images
           /\ ProvenInv'
<1>1. CASE Start(S, image)
  BY <1>1, StartEffect
<1>2. CASE Start({s \in S : container[s].image # image}, image)
  <2> DEFINE R == {s \in S : container[s].image # image}
  <2>1. R \in SUBSET Services
    OBVIOUS
  <2>2. /\ container' \in [Services -> Container]
        /\ \A s \in R : container'[s].image = image
        /\ \A s \in Services \ R : container'[s] = container[s]
        /\ provenUp \subseteq provenUp' /\ provenUp' \subseteq Images
        /\ ProvenInv'
    BY <1>2, <2>1, StartEffect
  <2>3. QED
    BY <2>2
<1>3. QED
  BY <1>1, <1>2 DEF ComposeUp

-----------------------------------------------------------------------------
LEMMA InitDeployInv == Init => DeployInv
<1> SUFFICES ASSUME Init PROVE DeployInv
  OBVIOUS
<1> USE ConstantsAssumption DEF Init
<1>1. TypeOK
  BY DEF TypeOK, Images, Container, Pcs, Outcomes
<1>2. RollbackTargetWasHealthy /\ RunningIsWhatEnvNames
  BY DEF RollbackTargetWasHealthy, RunningIsWhatEnvNames
<1>3. ForwardInv
  BY DEF ForwardInv, Moved, ForwardPcs, AfterEnvPcs, UpPcs, SmokePcs
<1>4. RollbackInv /\ SavedInv
  BY DEF RollbackInv, SavedInv
<1>5. CacheInv
  <2>1. RunningSecureship = NoImage
    BY DEF RunningSecureship, Services
  <2>2. QED
    BY <2>1 DEF CacheInv, AfterEnvPcs, ForwardPcs, UpPcs, SmokePcs
<1>6. ProvenInv
  BY DEF ProvenInv, Up, Services
<1>7. QED
  BY <1>1, <1>2, <1>3, <1>4, <1>5, <1>6 DEF DeployInv

LEMMA RollbackComposeEffect ==
    ASSUME DeployInv, pc = "rb_up", NEW S \in SUBSET Services, RollbackCompose(S)
    PROVE  /\ container' \in [Services -> Container]
           /\ \A s \in S : container'[s].image = Resolve(target)
           /\ \A s \in Services \ S : container'[s] = container[s]
           /\ provenUp \subseteq provenUp' /\ provenUp' \subseteq Images
           /\ cached \subseteq cached' /\ cached' \subseteq Tags
           /\ {RunningSecureship'} \cap Tags \subseteq cached'
           /\ ProvenInv'
<1>1. TypeOK /\ ProvenInv /\ Resolve(target) \in Images
  BY DEF DeployInv, RollbackInv, TypeOK, Resolve, Images
<1>2. /\ container' \in [Services -> Container]
      /\ \A s \in S : container'[s].image = Resolve(target)
      /\ \A s \in Services \ S : container'[s] = container[s]
      /\ provenUp \subseteq provenUp' /\ provenUp' \subseteq Images
      /\ ProvenInv'
  BY <1>1, ComposeUpEffect DEF RollbackCompose
<1>3. cached \subseteq cached' /\ cached' \subseteq Tags
  BY <1>1 DEF RollbackCompose, Fetch, TypeOK
<1>4. {RunningSecureship'} \cap Tags \subseteq cached'
  <2>1. CASE "secureship" \in S
    BY <1>2, <2>1 DEF RunningSecureship, RollbackCompose, Fetch
  <2>2. CASE "secureship" \notin S
    BY <1>2, <1>3, <2>2 DEF RunningSecureship, DeployInv, CacheInv, Services
  <2>3. QED
    BY <2>1, <2>2
<1>5. QED
  BY <1>2, <1>3, <1>4

(* A rollback that ends in the middle of docker compose up. *)
LEMMA RollbackComposeInterrupted ==
    ASSUME DeployInv, pc = "rb_up", NEW S \in SUBSET Services, RollbackCompose(S),
           pc' = "idle", outcome' \in Outcomes,
           UNCHANGED <<env, target, converged>>, gone' \in {gone, {}},
           run' = [run EXCEPT !.tag = NoImage, !.byHand = FALSE]
    PROVE  DeployInv'
<1>1. /\ container' \in [Services -> Container]
      /\ provenUp \subseteq provenUp' /\ provenUp' \subseteq Images
      /\ cached \subseteq cached' /\ cached' \subseteq Tags
      /\ {RunningSecureship'} \cap Tags \subseteq cached'
      /\ ProvenInv'
  BY RollbackComposeEffect
<1>2. TypeOK'
  BY <1>1 DEF DeployInv, TypeOK, Pcs
<1>3. RollbackTargetWasHealthy' /\ RunningIsWhatEnvNames'
  BY <1>1 DEF DeployInv, RollbackInv, RollbackTargetWasHealthy, RunningIsWhatEnvNames
<1>4. ForwardInv' /\ RollbackInv' /\ SavedInv'
  BY DEF DeployInv, TypeOK, ForwardInv, RollbackInv, SavedInv, Moved, ForwardPcs, AfterEnvPcs,
         UpPcs, SmokePcs
<1>5. CacheInv'
  BY <1>1 DEF DeployInv, TypeOK, CacheInv, ForwardPcs, AfterEnvPcs, UpPcs, SmokePcs
<1>6. QED
  BY <1>1, <1>2, <1>3, <1>4, <1>5 DEF DeployInv

(* A run that ends, or goes over to the rollback, and leaves the host as it is. *)
LEMMA EndKeepsDeployInv ==
    ASSUME DeployInv, UNCHANGED <<hostVars, recordVars>>, gone' \subseteq Services,
           \/ pc' = "rb_check" /\ UNCHANGED <<run, outcome>>
           \/ /\ pc' = "idle" /\ outcome' \in Outcomes
              /\ run' = [run EXCEPT !.tag = NoImage, !.byHand = FALSE]
    PROVE  DeployInv'
<1>1. pc' \in {"idle", "rb_check"} /\ outcome' \in Outcomes
  BY DEF DeployInv, TypeOK
<1>2. /\ run' \in [tag : Tags \cup {NoImage}, byHand : BOOLEAN, saved : Images \cup {NoImage}]
      /\ run'.saved = run.saved
  BY DEF DeployInv, TypeOK
<1>3. TypeOK'
  BY <1>1, <1>2 DEF DeployInv, TypeOK, Pcs, RollbackPcs, hostVars, recordVars
<1>4. RollbackTargetWasHealthy' /\ RunningIsWhatEnvNames' /\ ProvenInv'
  BY DEF DeployInv, RollbackTargetWasHealthy, RunningIsWhatEnvNames, ProvenInv, Up,
         RunningSecureship, hostVars, recordVars
<1>5. ForwardInv' /\ RollbackInv' /\ SavedInv'
  BY <1>1, <1>2 DEF DeployInv, ForwardInv, RollbackInv, SavedInv, Moved, ForwardPcs, AfterEnvPcs,
         UpPcs, SmokePcs, hostVars
<1>6. CacheInv'
  BY <1>1, <1>2 DEF DeployInv, CacheInv, RunningSecureship, ForwardPcs, AfterEnvPcs, UpPcs,
         SmokePcs, hostVars
<1> QED
  BY <1>3, <1>4, <1>5, <1>6 DEF DeployInv

(* systemd starts what .env resolves to. *)
LEMMA RebootEffect ==
    ASSUME DeployInv, Start(Services, Resolve(env))
    PROVE  /\ Resolve(env) \in Images
           /\ container' \in [Services -> Container]
           /\ \A s \in Services : container'[s].image = Resolve(env)
           /\ provenUp \subseteq provenUp' /\ provenUp' \subseteq Images
           /\ ProvenInv'
<1>1. Resolve(env) \in Images /\ Services \in SUBSET Services /\ TypeOK /\ ProvenInv
  BY DEF DeployInv, TypeOK, Resolve, Images
<1> QED
  BY <1>1, StartEffect

LEMMA UpServiceEffect ==
    ASSUME DeployInv, NEW s \in Services, UpService(s)
    PROVE  /\ container' \in [Services -> Container]
           /\ container'[s].image = run.tag
           /\ \A r \in Services \ {s} : container'[r] = container[r]
           /\ provenUp \subseteq provenUp' /\ provenUp' \subseteq Images
           /\ ProvenInv'
<1> DEFINE S == {s}
<1>1. TypeOK /\ ProvenInv /\ S \in SUBSET Services
  BY DEF DeployInv
<1>2. run.tag \in Images
  BY DEF DeployInv, ForwardInv, ForwardPcs, UpPcs, SmokePcs, UpService, UpStep, Services, Images
<1>3. ComposeUp(S, run.tag)
  BY DEF UpService
<1> HIDE DEF S
<1>4. /\ container' \in [Services -> Container]
      /\ \A r \in S : container'[r].image = run.tag
      /\ \A r \in Services \ S : container'[r] = container[r]
      /\ provenUp \subseteq provenUp' /\ provenUp' \subseteq Images
      /\ ProvenInv'
  BY <1>1, <1>2, <1>3, ComposeUpEffect
<1>5. QED
  BY <1>4 DEF S

LEMMA NextDeployInv == DeployInv /\ [Next]_vars => DeployInv'
<1> SUFFICES ASSUME DeployInv, [Next]_vars
             PROVE  DeployInv'
  OBVIOUS
<1> USE ConstantsAssumption
    DEF DeployInv, TypeOK, RollbackTargetWasHealthy, RunningIsWhatEnvNames,
         ForwardInv, RollbackInv, SavedInv, CacheInv, ProvenInv,
        Images, Pcs, Outcomes, RunningSecureship, Resolve, Moved,
        ForwardPcs, AfterEnvPcs, UpPcs, SmokePcs, RollbackPcs,
        hostVars, scriptVars, recordVars, historyVars
<1>1. CASE Prune
  BY <1>1 DEF Prune, PruneUnused, Goto, Up
<1>2. CASE PreCheckFails
  BY <1>2 DEF PreCheckFails, Exit, Up
<1>3. CASE SaveTarget
  BY <1>3 DEF SaveTarget, WorthReturningTo, Goto, Up
<1>4. CASE Pull
  BY <1>4 DEF Pull, Fetch, Services, Goto, Up
<1>5. CASE PullFails
  BY <1>5 DEF PullFails, Fetch, Exit, Up
<1>6. CASE WriteEnv
  <2>1. /\ pc = "env" /\ pc' = "up_secureship" /\ env' = run.tag /\ converged' = FALSE
        /\ UNCHANGED <<container, cached, target, run, outcome, provenUp, gone>>
    BY <1>6 DEF WriteEnv, RecordTag, Goto
  <2>2. run.tag \in Tags /\ run.tag \in cached
    BY <2>1
  <2>3. TypeOK'
    BY <2>1, <2>2
  <2>4. ForwardInv' /\ RollbackInv' /\ SavedInv'
    BY <2>1, <2>2
  <2>5. CacheInv' /\ ProvenInv' /\ RollbackTargetWasHealthy' /\ RunningIsWhatEnvNames'
    BY <2>1, <2>2 DEF Up
  <2>6. QED
    BY <2>3, <2>4, <2>5
<1>7. CASE CheckKnowledgeBase
  <2>1. CASE Goto("up_autopilot")
    BY <1>7, <2>1 DEF CheckKnowledgeBase, Goto, Up
  <2>2. CASE RollBackIfPossible
    BY <1>7, <2>2, EndKeepsDeployInv DEF CheckKnowledgeBase, RollBackIfPossible, Goto, Exit
  <2>3. QED
    BY <1>7, <2>1, <2>2 DEF CheckKnowledgeBase
<1>8. CASE UpNginx
  <2>1. CASE Goto("smoke_secureship")
    BY <1>8, <2>1 DEF UpNginx, Goto, Up
  <2>2. CASE Exit("unhealthy")
    BY <1>8, <2>2, EndKeepsDeployInv DEF UpNginx, Exit
  <2>3. QED
    BY <1>8, <2>1, <2>2 DEF UpNginx
<1>9. CASE SmokeVerdict
  BY <1>9, EndKeepsDeployInv DEF SmokeVerdict, Goto, Exit
<1>27. ASSUME NEW s \in Services, SmokeTest(s) PROVE DeployInv'
  BY <1>27 DEF SmokeTest, SmokeStep, Answers, Goto, Up, Services
<1>10. CASE UpFails
  BY <1>10, EndKeepsDeployInv DEF UpFails, Exit
<1>11. CASE StartRollback
  BY <1>11 DEF StartRollback, Up
<1>12. CASE RollbackRefused
  BY <1>12 DEF RollbackRefused, RollbackExit, Exit, Up
<1>13. CASE RollbackCheck
  BY <1>13 DEF RollbackCheck, Goto, HaveTarget, KeepTarget, KeepCache, Up
<1>14. CASE RollbackWriteEnv
  <2>1. /\ pc = "rb_env" /\ pc' = "rb_up" /\ env' = target /\ converged' = FALSE
        /\ UNCHANGED <<container, cached, target, run, outcome, provenUp, gone>>
    BY <1>14 DEF RollbackWriteEnv, Goto
  <2>2. target # NoFile /\ target \in Images \cup {Blank}
    BY <2>1
  <2>3. TypeOK'
    BY <2>1, <2>2
  <2>4. ForwardInv' /\ RollbackInv' /\ SavedInv'
    BY <2>1, <2>2
  <2>5. CacheInv' /\ ProvenInv' /\ RollbackTargetWasHealthy' /\ RunningIsWhatEnvNames'
    BY <2>1, <2>2 DEF Up
  <2>6. QED
    BY <2>3, <2>4, <2>5
<1>15. CASE RollbackPoll
  BY <1>15, EndKeepsDeployInv DEF RollbackPoll, Exit
<1>16. ASSUME NEW t \in Tags, StartDeploy(t) PROVE DeployInv'
  BY <1>16 DEF StartDeploy, Up
<1>17. ASSUME NEW s \in {"secureship", "ragservice"}, PollSucceeds(s) PROVE DeployInv'
  BY <1>17 DEF PollSucceeds, PollStep, Goto, Up, NginxDeps
<1>18. ASSUME NEW s \in {"secureship", "ragservice"}, PollTimesOut(s) PROVE DeployInv'
  BY <1>18, EndKeepsDeployInv DEF PollTimesOut, RollBackIfPossible, Goto, Exit
<1>19. ASSUME NEW s \in Services, UpService(s) PROVE DeployInv'
  <2>1. /\ container' \in [Services -> Container]
        /\ container'[s].image = run.tag
        /\ \A r \in Services \ {s} : container'[r] = container[r]
        /\ provenUp \subseteq provenUp' /\ provenUp' \subseteq Images
        /\ ProvenInv'
    BY <1>19, UpServiceEffect
  <2> HIDE DEF ProvenInv
  <2>2. UNCHANGED <<cached, env, target, run, outcome, gone>> /\ converged' = (s = "autopilot")
    BY <1>19 DEF UpService, Goto
  <2>3. TypeOK' /\ RollbackTargetWasHealthy' /\ SavedInv'
    BY <1>19, <2>1, <2>2 DEF UpService, UpStep, Goto, Services
  <2>4. CASE s = "secureship"
    <3>1. pc = "up_secureship" /\ pc' = "poll_secureship"
      BY <1>19, <2>4 DEF UpService, UpStep, Goto
    <3>2. QED
      BY <2>1, <2>2, <2>3, <2>4, <3>1
  <2>5. CASE s = "statusservice"
    <3>1. pc = "up_statusservice" /\ pc' = "up_ragservice"
      BY <1>19, <2>5 DEF UpService, UpStep, Goto
    <3>2. QED
      BY <2>1, <2>2, <2>3, <2>5, <3>1 DEF Services
  <2>6. CASE s = "ragservice"
    <3>1. pc = "up_ragservice" /\ pc' = "poll_ragservice"
      BY <1>19, <2>6 DEF UpService, UpStep, Goto
    <3>2. QED
      BY <2>1, <2>2, <2>3, <2>6, <3>1 DEF Services, NginxDeps
  <2>7. CASE s = "autopilot"
    <3>1. pc = "up_autopilot" /\ pc' = "up_nginx"
      BY <1>19, <2>7 DEF UpService, UpStep, Goto
    <3>2. QED
      BY <2>1, <2>2, <2>3, <2>7, <3>1 DEF Services, NginxDeps
  <2>8. QED
    BY <2>4, <2>5, <2>6, <2>7 DEF Services
<1>20. CASE RollbackUp
  <2>1. pc = "rb_up" /\ pc' = "rb_poll" /\ converged' = TRUE
        /\ UNCHANGED <<env, target, run, outcome, gone>>
        /\ RollbackCompose(Services)
    BY <1>20 DEF RollbackUp, Goto
  <2>2. /\ container' \in [Services -> Container]
        /\ \A r \in Services : container'[r].image = Resolve(target)
        /\ provenUp \subseteq provenUp' /\ provenUp' \subseteq Images
        /\ cached \subseteq cached' /\ cached' \subseteq Tags
        /\ {RunningSecureship'} \cap Tags \subseteq cached'
        /\ ProvenInv'
    BY <2>1, RollbackComposeEffect
  <2> HIDE DEF ProvenInv
  <2>3. QED
    BY <2>1, <2>2
<1>21. CASE RollbackUpFails
  <2>1. PICK S \in SUBSET Services : RollbackCompose(S)
    BY <1>21 DEF RollbackUpFails
  <2>2. pc = "rb_up" /\ pc' = "idle" /\ outcome' \in Outcomes
        /\ UNCHANGED <<env, target, converged, gone>>
        /\ run' = [run EXCEPT !.tag = NoImage, !.byHand = FALSE]
    BY <1>21 DEF RollbackUpFails, RollbackExit, Exit
  <2>3. QED
    BY <2>1, <2>2, RollbackComposeInterrupted
<1>22. ASSUME NEW s \in Services, Crash(s) PROVE DeployInv'
  BY <1>22 DEF Crash, Container, Up
<1>23. CASE Kill
  <2>1. /\ pc' = "idle" /\ outcome' = "killed" /\ gone' = {}
        /\ run' = [run EXCEPT !.tag = NoImage, !.byHand = FALSE]
    BY <1>23 DEF Kill, Exit
  <2>2. CASE UNCHANGED <<hostVars, recordVars>>
    BY <2>1, <2>2, EndKeepsDeployInv
  <2>8. CASE pc = "pull" /\ (\E pulled \in SUBSET Services : Fetch(pulled, run.tag))
             /\ UNCHANGED <<container, env, target, recordVars>>
    BY <2>1, <2>8 DEF Fetch, Up
  <2>3. CASE pc = "save" /\ WorthReturningTo /\ target' \in {target, Blank}
             /\ UNCHANGED <<container, cached, env, recordVars>>
    BY <2>1, <2>3 DEF Up
  <2>4. CASE pc = "env" /\ env' \in {Blank, run.tag} /\ converged' = FALSE
             /\ UNCHANGED <<container, cached, target, provenUp>>
    BY <2>1, <2>4 DEF Up
  <2>5. CASE pc = "rb_env" /\ env' \in {Blank, target} /\ converged' = FALSE
             /\ UNCHANGED <<container, cached, target, provenUp>>
    BY <2>1, <2>5 DEF Up
  <2>6. CASE pc = "rb_up" /\ (\E done \in SUBSET Services : RollbackCompose(done))
             /\ UNCHANGED <<env, target, converged>>
    BY <2>1, <2>6, RollbackComposeInterrupted
  <2>7. QED
    BY <1>23, <2>2, <2>3, <2>4, <2>5, <2>6, <2>8 DEF Kill, CutShort
<1>24. CASE Reboot
  <2>1. pc = "idle" /\ UNCHANGED <<env, target, pc, run, outcome>>
    BY <1>24 DEF Reboot
  <2>2. CASE /\ Start(Services, Resolve(env))
             /\ cached' = cached \cup ({Resolve(env)} \cap Tags)
             /\ converged' = TRUE /\ UNCHANGED gone
    <3>1. /\ Resolve(env) \in Images
          /\ container' \in [Services -> Container]
          /\ \A r \in Services : container'[r].image = Resolve(env)
          /\ provenUp \subseteq provenUp' /\ provenUp' \subseteq Images
          /\ ProvenInv'
      BY <2>2, RebootEffect
    <3> HIDE DEF ProvenInv
    <3>2. TypeOK' /\ RollbackTargetWasHealthy' /\ RunningIsWhatEnvNames'
      BY <2>1, <2>2, <3>1
    <3>3. ForwardInv' /\ RollbackInv' /\ SavedInv'
      BY <2>1, <2>2, <3>1
    <3>4. CacheInv'
      BY <2>1, <2>2, <3>1 DEF Services
    <3>5. QED
      BY <3>1, <3>2, <3>3, <3>4
  <2>3. CASE /\ container' = [s \in Services |-> [container[s] EXCEPT !.health = "down"]]
             /\ UNCHANGED <<cached, historyVars>>
    <3>1. /\ container' \in [Services -> Container]
          /\ \A r \in Services : container'[r].image = container[r].image
          /\ \A r \in Services : container'[r].health = "down"
      BY <2>3 DEF Container
    <3>2. QED
      BY <2>1, <2>3, <3>1 DEF Up, Services
  <2>4. QED
    BY <1>24, <2>2, <2>3 DEF Reboot, Fetch, Services
<1>25. CASE UNCHANGED vars
  BY <1>25 DEF vars, Up
<1>26. QED
  BY <1>1, <1>2, <1>3, <1>4, <1>5, <1>6, <1>7, <1>8, <1>9, <1>10, <1>11, <1>12,
     <1>13, <1>14, <1>15, <1>16, <1>17, <1>18, <1>19, <1>20, <1>21, <1>22, <1>23,
     <1>24, <1>25, <1>27
     DEF Next, Progress, Failure

(* A smoke test is passed by a service that serves, and what stops after it has
   passed is on record. *)
LEMMA NextTestedInv == DeployInv /\ TestedInv /\ [Next]_vars => TestedInv'
<1> SUFFICES ASSUME DeployInv, TestedInv, [Next]_vars PROVE TestedInv'
  OBVIOUS
<1>1. ASSUME NEW s \in Services, SmokeTest(s) PROVE TestedInv'
  <2>1. UNCHANGED container
    BY <1>1 DEF SmokeTest, hostVars
  <2>2. CASE Answers(s) /\ Goto(SmokeStep[s].to) /\ UNCHANGED gone
    <3>1. SmokeTested' = SmokeTested \cup {s}
      BY <1>1, <2>2 DEF SmokeTest, SmokeStep, SmokeTested, Goto, Services, NginxDeps
    <3> QED
      BY <2>1, <2>2, <3>1 DEF TestedInv, Answers, Up
  <2>3. CASE Goto("rb_check") /\ gone' = {}
    BY <2>3 DEF Goto, TestedInv, SmokeTested
  <2> QED
    BY <1>1, <2>2, <2>3 DEF SmokeTest
<1>2. ASSUME NEW s \in Services, Crash(s) PROVE TestedInv'
  <2>1. SmokeTested' = SmokeTested /\ gone' = gone \cup ({s} \cap SmokeTested)
    BY <1>2 DEF Crash, SmokeTested, scriptVars
  <2>2. \A r \in Services \ {s} : Up(r) => Up(r)'
    BY <1>2 DEF Crash, Up, DeployInv, TypeOK
  <2>3. SmokeTested \subseteq Services
    BY DEF SmokeTested, Services, NginxDeps
  <2> QED
    BY <2>1, <2>2, <2>3 DEF TestedInv
<1>3. CASE UNCHANGED <<container, gone>> /\ UNCHANGED pc
  BY <1>3 DEF TestedInv, SmokeTested, Up
<1>4. CASE pc' \notin SmokePcs \ {"smoke_secureship"}
  BY <1>4 DEF TestedInv, SmokeTested, SmokePcs
<1>5. ASSUME NEW s \in Services, UpService(s) PROVE pc' \notin SmokePcs
  BY <1>5 DEF UpService, UpStep, Goto, SmokePcs, Services
<1>6. ASSUME NEW s \in {"secureship", "ragservice"}, PollSucceeds(s) \/ PollTimesOut(s)
      PROVE  pc' \notin SmokePcs
  BY <1>6 DEF PollSucceeds, PollTimesOut, PollStep, RollBackIfPossible, Goto, Exit, SmokePcs
<1>7. \/ \E s \in Services : SmokeTest(s) \/ Crash(s)
      \/ UNCHANGED <<container, gone>> /\ UNCHANGED pc
      \/ pc' \notin SmokePcs \ {"smoke_secureship"}
  BY <1>5, <1>6 DEF Next, Progress, Failure, Prune, PreCheckFails, SaveTarget, Pull, PullFails,
     WriteEnv, UpFails, CheckKnowledgeBase, UpNginx, SmokeVerdict, StartDeploy, StartRollback,
     RollbackRefused, RollbackCheck, RollbackWriteEnv, RollbackUp, RollbackUpFails,
     RollbackPoll, Kill, Reboot, RollbackExit, RollBackIfPossible, Exit, Goto, SmokePcs,
     vars, hostVars, scriptVars, historyVars
<1> QED
  BY <1>1, <1>2, <1>3, <1>4, <1>7

LEMMA DeployInvariant == Spec => []DeployInv
<1>1. QED
  BY InitDeployInv, NextDeployInv, PTL DEF Spec

-----------------------------------------------------------------------------
(* Type correctness of the host, the script and the history, for any releases. *)
THEOREM DeployTypeOK == Spec => []TypeOK
<1>1. DeployInv => TypeOK
  BY DEF DeployInv
<1>2. QED
  BY <1>1, DeployInvariant, PTL

(* Whatever the order of deploys, rollbacks, kills and reboots, deploy.sh never
   keeps as its rollback target an image whose secureship has not served. *)
THEOREM RollbackTargetServed == Spec => []RollbackTargetWasHealthy
<1>1. DeployInv => RollbackTargetWasHealthy
  BY DEF DeployInv
<1>2. QED
  BY <1>1, DeployInvariant, PTL

(* A host on which no change was left half done runs what .env names, so a
   reboot brings back the version that was running. *)
THEOREM RebootKeepsVersion == Spec => []RunningIsWhatEnvNames
<1>1. DeployInv => RunningIsWhatEnvNames
  BY DEF DeployInv
<1>2. QED
  BY <1>1, DeployInvariant, PTL

(* What the last deploy recorded is the image that a rollback returns to, its own or
   one by hand, and is still on the host's disk. *)
THEOREM RollbackImageIsLocal == Spec => []RollbackNeedsNoPull
<1>1. DeployInv => RollbackNeedsNoPull
  BY DEF DeployInv, SavedInv, CacheInv, RollbackNeedsNoPull
<1>2. QED
  BY <1>1, DeployInvariant, PTL

(* The only way to success is through all the smoke tests, *)
LEMMA SuccessStep ==
    ASSUME DeployInv, Next, outcome' = "success", outcome # "success"
    PROVE  pc = "smoke_ready" /\ Up("secureship")
BY DEF Next, Progress, Failure, Prune, PreCheckFails, SaveTarget, Pull, PullFails,
   WriteEnv, UpService, UpFails, PollSucceeds, PollTimesOut, CheckKnowledgeBase,
   UpNginx, SmokeTest, SmokeVerdict, StartDeploy, StartRollback, RollbackRefused, RollbackCheck,
   RollbackWriteEnv, RollbackUp, RollbackUpFails, RollbackPoll, Crash, Kill, Reboot,
   RollbackExit, RollBackIfPossible, Exit, Goto, Answers, scriptVars

(* so a deploy that reports success leaves its four services on its image, all of
   which have answered their test. SecureShip still does; another one may have
   stopped since. *)
THEOREM SuccessIsServing == Spec => SuccessMeansServing
<1>1. DeployInv /\ TestedInv /\ [Next]_vars =>
        [outcome' = "success" /\ outcome # "success" =>
          \A s \in Services : /\ container[s].image = run.tag
                              /\ Up(s) \/ s \in gone \ {"secureship"}]_vars
  <2> SUFFICES ASSUME DeployInv, TestedInv, Next, outcome' = "success", outcome # "success"
               PROVE  \A s \in Services : /\ container[s].image = run.tag
                                          /\ Up(s) \/ s \in gone \ {"secureship"}
    BY DEF vars
  <2>1. pc = "smoke_ready" /\ Up("secureship")
    BY SuccessStep
  <2>2. \A s \in Services : container[s].image = run.tag
    BY <2>1 DEF DeployInv, ForwardInv, Moved, SmokePcs
  <2>3. \A s \in Services : Up(s) \/ s \in gone
    BY <2>1 DEF TestedInv, SmokeTested
  <2> QED
    BY <2>1, <2>2, <2>3
<1>2. Init => TestedInv
  BY DEF Init, TestedInv, SmokeTested
<1> QED
  BY <1>1, <1>2, NextTestedInv, DeployInvariant, PTL DEF Spec, SuccessMeansServing

(* A deploy that recorded the running version and reports that its rollback
   succeeded ends with every service on that version. *)
THEOREM RollbackUndoes == Spec => AutomaticRollbackUndoes
<1>1. DeployInv /\ [Next]_vars =>
        [outcome' = "rolledback" /\ outcome # "rolledback" /\ run.saved # NoImage =>
          \A s \in Services : container[s].image = run.saved]_vars
  <2> SUFFICES ASSUME DeployInv, Next, outcome' = "rolledback", outcome # "rolledback",
                      run.saved # NoImage
               PROVE  \A s \in Services : container[s].image = run.saved
    BY DEF vars
  <2>1. pc = "rb_poll"
    BY DEF Next, Progress, Failure, Prune, PreCheckFails, SaveTarget, Pull, PullFails,
       WriteEnv, UpService, UpFails, PollSucceeds, PollTimesOut, CheckKnowledgeBase,
       UpNginx, SmokeTest, SmokeVerdict, StartDeploy, StartRollback, RollbackRefused, RollbackCheck,
       RollbackWriteEnv, RollbackUp, RollbackUpFails, RollbackPoll, Crash, Kill, Reboot,
       RollbackExit, RollBackIfPossible, Exit, Goto, scriptVars
  <2>2. target = run.saved /\ env = target /\ converged
    BY <2>1 DEF DeployInv, RollbackInv, SavedInv
  <2>3. run.saved # Blank
    BY ConstantsAssumption DEF DeployInv, TypeOK, Images
  <2>4. QED
    BY <2>2, <2>3 DEF DeployInv, RunningIsWhatEnvNames, Resolve
<1>2. QED
  BY <1>1, DeployInvariant, PTL DEF Spec, AutomaticRollbackUndoes

-----------------------------------------------------------------------------
(* The refinement of Rollout. A step that only moves services to what .env
   names, *)
LEMMA MovesToNamed ==
    ASSUME UNCHANGED env, container' \in [Services -> Container],
           \A s \in Services : container'[s].image \in {container[s].image, Resolve(env)}
    PROVE  Versions!MoveSome
<1> DEFINE Runs(c) == [s \in Services |-> c[s].image]
<1>1. Runs(container') \in [Services -> Images \cup {NoImage}]
  BY DEF Container
<1>2. \A s \in Services : Runs(container')[s] \in {Runs(container)[s], Versions!Meant}
  BY DEF Versions!Meant, Resolve
<1> QED
  BY <1>1, <1>2 DEF Versions!MoveSome

(* and one that leaves what runs and what is named alone. *)
LEMMA MovesNothing ==
    ASSUME DeployInv, UNCHANGED env, container' = container
    PROVE  Versions!MoveSome /\ Versions!Keep
<1>1. container' \in [Services -> Container]
  BY DEF DeployInv, TypeOK
<1> QED
  BY <1>1, MovesToNamed DEF Versions!Keep

(* The steps before .env is written, and the way out without having done so. *)
LEMMA UntouchedRefines ==
    ASSUME DeployInv,
           \/ \E t \in Tags : StartDeploy(t)
           \/ StartRollback \/ Prune \/ PreCheckFails \/ SaveTarget \/ Pull \/ PullFails
    PROVE  [Versions!Next]_Versions!vars
<1>1. UNCHANGED env /\ container' = container
  BY DEF StartDeploy, StartRollback, Prune, PreCheckFails, SaveTarget, Pull, PullFails, hostVars
<1>2. Versions!Keep
  BY <1>1, MovesNothing
<1>3. CASE StartRollback \/ \E t \in Tags : StartDeploy(t)
  <2>1. StartRollback => run'.byHand
    BY DEF StartRollback, DeployInv, TypeOK
  <2>2. Phase = "rest" /\ Phase' = "untouched" /\ outcome' = "running"
    BY <1>3, <2>1 DEF StartDeploy, StartRollback, Phase
  <2> QED
    BY <1>2, <2>2 DEF Versions!Begin, Versions!Next
<1>4. CASE PreCheckFails \/ PullFails
  <2>1. Phase = "untouched" /\ Phase' = "rest" /\ outcome' = "refused"
    BY <1>4 DEF PreCheckFails, PullFails, Exit, Phase
  <2> QED
    BY <1>2, <2>1 DEF Versions!Refuse, Versions!EndWith, Versions!Next
<1>5. CASE Prune \/ SaveTarget \/ Pull
  <2>1. Phase = "untouched" /\ Phase' = "untouched" /\ outcome' = outcome
    BY <1>5 DEF Prune, SaveTarget, Pull, Goto, Phase
  <2> QED
    BY <1>2, <2>1 DEF Versions!Keep, Versions!vars
<1> QED
  BY <1>3, <1>4, <1>5

(* .env is written, by a deploy or by a rollback. *)
LEMMA NamingRefines ==
    ASSUME DeployInv, WriteEnv \/ RollbackWriteEnv PROVE [Versions!Next]_Versions!vars
<1>1. container' = container /\ UNCHANGED outcome /\ Phase # "rest" /\ Phase' = "changing"
  BY DEF WriteEnv, RollbackWriteEnv, Goto, Phase
<1>2. env' \in Images \cup {Blank}
  BY DEF WriteEnv, RecordTag, RollbackWriteEnv, DeployInv, TypeOK, ForwardInv, RollbackInv,
         ForwardPcs, Images
<1> QED
  BY <1>1, <1>2 DEF Versions!NameAnother, Versions!NameVersion, Versions!Next

(* Services are moved, by a deploy or by a rollback. *)
LEMMA MovingRefines ==
    ASSUME DeployInv, RollbackUp \/ \E s \in Services : UpService(s)
    PROVE  [Versions!Next]_Versions!vars
<1>1. UNCHANGED <<env, outcome>>
  BY DEF RollbackUp, UpService, Goto
<1>2. Versions!MoveSome
  <2>1. CASE RollbackUp
    <3>1. /\ pc = "rb_up" /\ RollbackCompose(Services) /\ env = target
          /\ Services \in SUBSET Services
      BY <2>1 DEF RollbackUp, DeployInv, RollbackInv
    <3>2. /\ container' \in [Services -> Container]
          /\ \A s \in Services : container'[s].image = Resolve(target)
      BY <3>1, RollbackComposeEffect
    <3> QED
      BY <1>1, <3>1, <3>2, MovesToNamed
  <2>2. ASSUME NEW s \in Services, UpService(s) PROVE Versions!MoveSome
    <3>1. /\ container' \in [Services -> Container] /\ container'[s].image = run.tag
          /\ \A r \in Services \ {s} : container'[r] = container[r]
      BY <2>2, UpServiceEffect
    <3>2. env = run.tag /\ run.tag \in Tags
      BY <2>2 DEF UpService, UpStep, DeployInv, ForwardInv, AfterEnvPcs, ForwardPcs, UpPcs, Services
    <3>3. Resolve(env) = run.tag
      BY <3>2, ConstantsAssumption DEF Resolve, Images
    <3> QED
      BY <1>1, <3>1, <3>3, MovesToNamed
  <2> QED
    BY <2>1, <2>2
<1>3. Phase = "changing" /\ Phase' = "changing"
  <2>1. CASE RollbackUp
    BY <2>1 DEF RollbackUp, Goto, Phase
  <2>2. ASSUME NEW s \in Services, UpService(s) PROVE Phase = "changing" /\ Phase' = "changing"
    BY <2>2 DEF UpService, UpStep, Goto, Phase, Services
  <2> QED
    BY <2>1, <2>2
<1> QED
  BY <1>1, <1>2, <1>3 DEF Versions!Bring, Versions!Next

(* The checks of a deploy: they go on, go over to the rollback, or give up. *)
LEMMA CheckingRefines ==
    ASSUME DeployInv,
           \/ \E s \in {"secureship", "ragservice"} : PollSucceeds(s) \/ PollTimesOut(s)
           \/ CheckKnowledgeBase \/ UpNginx \/ UpFails
    PROVE  [Versions!Next]_Versions!vars
<1>1. container' = container /\ UNCHANGED env
  BY DEF PollSucceeds, PollTimesOut, CheckKnowledgeBase, UpNginx, UpFails, hostVars
<1>2. Versions!MoveSome /\ Versions!Keep
  BY <1>1, MovesNothing
<1>3. pc \in AfterEnvPcs /\ ~run.byHand
  BY DEF PollSucceeds, PollTimesOut, CheckKnowledgeBase, UpNginx, UpFails, PollStep, UpPcs,
         DeployInv, ForwardInv, AfterEnvPcs, ForwardPcs
<1>4. \/ pc' \in AfterEnvPcs \cup {"rb_check"} /\ UNCHANGED <<run, outcome>>
      \/ pc' = "idle" /\ outcome' \in {"no_target", "aborted", "unhealthy"}
  BY DEF PollSucceeds, PollTimesOut, CheckKnowledgeBase, UpNginx, UpFails, RollBackIfPossible,
         Goto, Exit, PollStep, UpPcs, SmokePcs, AfterEnvPcs, ForwardPcs
<1>5. Phase = "changing"
  BY <1>3 DEF Phase, AfterEnvPcs, ForwardPcs, UpPcs, SmokePcs
<1>6. CASE pc' \in AfterEnvPcs \cup {"rb_check"} /\ UNCHANGED <<run, outcome>>
  <2>1. Phase' = "changing"
    BY <1>3, <1>6 DEF Phase, AfterEnvPcs, ForwardPcs, UpPcs, SmokePcs
  <2> QED
    BY <1>2, <1>5, <1>6, <2>1 DEF Versions!Keep, Versions!vars
<1>7. CASE pc' = "idle" /\ outcome' \in {"no_target", "aborted", "unhealthy"}
  <2>1. Phase' = "rest"
    BY <1>7 DEF Phase
  <2> QED
    BY <1>2, <1>5, <1>7, <2>1
       DEF Versions!GiveUp, Versions!GivenUp, Versions!EndWith, Versions!Next
<1> QED
  BY <1>4, <1>6, <1>7

(* Success is said of a release that runs everywhere. *)
LEMMA SmokeRefines ==
    ASSUME DeployInv, SmokeVerdict \/ \E s \in Services : SmokeTest(s)
    PROVE  [Versions!Next]_Versions!vars
<1>1. container' = container /\ UNCHANGED env /\ pc \in SmokePcs /\ Phase = "changing"
  BY DEF SmokeTest, SmokeStep, SmokeVerdict, SmokePcs, Services, hostVars, Phase
<1>2. Versions!Keep
  BY <1>1, MovesNothing
<1>3. CASE Exit("success")
  <2>1. /\ env = run.tag /\ run.tag \in Tags
        /\ \A s \in Services : container[s].image = run.tag
    BY <1>1 DEF DeployInv, ForwardInv, Moved, AfterEnvPcs, ForwardPcs, SmokePcs
  <2>2. \A s \in Services : container[s].image = Versions!Meant
    BY <2>1, ConstantsAssumption DEF Versions!Meant, Images
  <2>3. Phase' = "rest" /\ outcome' = "success"
    BY <1>3 DEF Exit, Phase
  <2> QED
    BY <1>1, <1>2, <2>2, <2>3 DEF Versions!Finish, Versions!Done, Versions!EndWith, Versions!Next
<1>4. CASE pc' \in SmokePcs \cup {"rb_check"} /\ UNCHANGED <<run, outcome>>
  <2>1. ~run.byHand
    BY <1>1 DEF DeployInv, ForwardInv, ForwardPcs
  <2>2. Phase' = "changing" /\ outcome' = outcome
    BY <1>4, <2>1 DEF SmokePcs, Phase
  <2> QED
    BY <1>1, <1>2, <2>2 DEF Versions!Keep, Versions!vars
<1>5. Exit("success") \/ (pc' \in SmokePcs \cup {"rb_check"} /\ UNCHANGED <<run, outcome>>)
  BY DEF SmokeVerdict, SmokeTest, SmokeStep, SmokePcs, Services, Goto
<1> QED
  BY <1>3, <1>4, <1>5

(* The rollback: by hand it may still be refused, and it says that it is done
   when all services are back. *)
LEMMA RollbackRefines ==
    ASSUME DeployInv, RollbackRefused \/ RollbackCheck \/ RollbackUpFails \/ RollbackPoll
    PROVE  [Versions!Next]_Versions!vars
<1>0. run.byHand \in BOOLEAN
  BY DEF DeployInv, TypeOK
<1>1. CASE RollbackRefused
  <2>1. container' = container /\ UNCHANGED env /\ pc = "rb_check" /\ Phase' = "rest"
    BY <1>1 DEF RollbackRefused, RollbackExit, Exit, hostVars, Phase
  <2>2. Versions!MoveSome /\ Versions!Keep
    BY <2>1, MovesNothing
  <2>3. CASE run.byHand
    <3>1. Phase = "untouched" /\ outcome' = "refused"
      BY <1>1, <2>1, <2>3 DEF RollbackRefused, RollbackExit, Exit, Phase
    <3> QED
      BY <2>1, <2>2, <3>1 DEF Versions!Refuse, Versions!EndWith, Versions!Next
  <2>4. CASE ~run.byHand
    <3>1. Phase = "changing" /\ outcome' = "manual"
      BY <1>1, <2>1, <2>4 DEF RollbackRefused, RollbackExit, Exit, Phase
    <3> QED
      BY <2>1, <2>2, <3>1 DEF Versions!GiveUp, Versions!GivenUp, Versions!EndWith, Versions!Next
  <2> QED
    BY <2>3, <2>4
<1>2. CASE RollbackCheck
  <2>1. container' = container /\ UNCHANGED <<env, outcome>> /\ Phase' = Phase
    BY <1>0, <1>2 DEF RollbackCheck, Goto, Phase
  <2>2. Versions!Keep
    BY <2>1, MovesNothing
  <2> QED
    BY <2>1, <2>2 DEF Versions!Keep, Versions!vars
<1>3. CASE RollbackUpFails
  <2>1. PICK S \in SUBSET Services : RollbackCompose(S)
    BY <1>3 DEF RollbackUpFails
  <2>2. /\ pc = "rb_up" /\ env = target /\ UNCHANGED env
        /\ Phase = "changing" /\ Phase' = "rest" /\ outcome' \in {"aborted", "manual"}
    BY <1>3 DEF RollbackUpFails, RollbackExit, Exit, Phase, DeployInv, RollbackInv
  <2>3. /\ container' \in [Services -> Container]
        /\ \A s \in S : container'[s].image = Resolve(target)
        /\ \A s \in Services \ S : container'[s] = container[s]
    BY <2>1, <2>2, RollbackComposeEffect
  <2>4. Versions!MoveSome
    BY <2>2, <2>3, MovesToNamed
  <2> QED
    BY <2>2, <2>4 DEF Versions!GiveUp, Versions!GivenUp, Versions!EndWith, Versions!Next
<1>4. CASE RollbackPoll
  <2>1. /\ container' = container /\ UNCHANGED env
        /\ Phase = "changing" /\ Phase' = "rest" /\ outcome' \in {"restored", "rolledback", "manual"}
    BY <1>4 DEF RollbackPoll, Exit, hostVars, Phase
  <2>2. Versions!MoveSome /\ Versions!Keep
    BY <2>1, MovesNothing
  <2>3. \A s \in Services : container[s].image = Versions!Meant
    BY <1>4 DEF RollbackPoll, DeployInv, RollbackInv, RunningIsWhatEnvNames, Resolve, Versions!Meant
  <2> QED
    BY <2>1, <2>2, <2>3
       DEF Versions!GiveUp, Versions!GivenUp, Versions!Finish, Versions!Done, Versions!EndWith,
           Versions!Next
<1> QED
  BY <1>1, <1>2, <1>3, <1>4

(* What may happen at any time. *)
LEMMA FaultsRefine ==
    ASSUME DeployInv, Kill \/ Reboot \/ \E s \in Services : Crash(s)
    PROVE  [Versions!Next]_Versions!vars
<1>1. CASE Kill
  <2>1. Phase # "rest" /\ Phase' = "rest" /\ outcome' = "killed"
    BY <1>1 DEF Kill, Exit, Phase
  <2>2. Versions!NameAnother \/ (Phase = "changing" /\ Versions!MoveSome)
    <3>1. CASE container' = container /\ env' \in Images \cup {Blank}
      BY <3>1 DEF Versions!NameAnother
    <3>2. CASE pc = "rb_up" /\ UNCHANGED env /\ \E done \in SUBSET Services : RollbackCompose(done)
      <4>1. PICK S \in SUBSET Services : RollbackCompose(S)
        BY <3>2
      <4>2. /\ container' \in [Services -> Container]
            /\ \A s \in S : container'[s].image = Resolve(target)
            /\ \A s \in Services \ S : container'[s] = container[s]
        BY <3>2, <4>1, RollbackComposeEffect
      <4>3. env = target /\ Phase = "changing"
        BY <3>2 DEF DeployInv, RollbackInv, Phase
      <4> QED
        BY <3>2, <4>2, <4>3, MovesToNamed
    <3>3. CASE UNCHANGED <<hostVars, recordVars>>
      BY <3>1, <3>3 DEF hostVars, DeployInv, TypeOK
    <3>4. CASE CutShort
      <4>1. \/ container' = container /\ env' \in {env, Blank}
            \/ container' = container /\ pc = "env" /\ env' = run.tag
            \/ container' = container /\ pc = "rb_env" /\ env' = target
            \/ pc = "rb_up" /\ UNCHANGED env /\ \E done \in SUBSET Services : RollbackCompose(done)
        BY <3>4 DEF CutShort, hostVars
      <4>2. /\ env \in Images \cup {Blank}
            /\ pc = "env" => run.tag \in Images
            /\ pc = "rb_env" => target \in Images \cup {Blank}
        BY DEF DeployInv, TypeOK, ForwardInv, RollbackInv, ForwardPcs, Images
      <4> QED
        BY <3>1, <3>2, <4>1, <4>2
    <3> QED
      BY <1>1, <3>3, <3>4 DEF Kill
  <2> QED
    BY <2>1, <2>2 DEF Versions!Killed, Versions!EndWith, Versions!Next
<1>2. CASE Reboot
  <2>1. UNCHANGED <<env, outcome>> /\ Phase = "rest" /\ Phase' = "rest"
    BY <1>2 DEF Reboot, scriptVars, Phase
  <2>2. CASE Start(Services, Resolve(env))
    <3>1. \A s \in Services : container'[s].image = Resolve(env)
      BY <2>2, RebootEffect
    <3>2. [s \in Services |-> container'[s].image] = [s \in Services |-> Versions!Meant]
      BY <3>1 DEF Versions!Meant, Resolve
    <3> QED
      BY <2>1, <3>2 DEF Versions!Reboot, Versions!Next
  <2>3. CASE container' = [s \in Services |-> [container[s] EXCEPT !.health = "down"]]
    <3>1. \A s \in Services : container'[s].image = container[s].image
      BY <2>3 DEF DeployInv, TypeOK, Container
    <3> QED
      BY <2>1, <3>1 DEF Versions!vars
  <2> QED
    BY <1>2, <2>2, <2>3 DEF Reboot
<1>3. ASSUME NEW s \in Services, Crash(s) PROVE UNCHANGED Versions!vars
  <2>1. UNCHANGED <<env, outcome, pc, run>>
    BY <1>3 DEF Crash, scriptVars
  <2>2. \A r \in Services : container'[r].image = container[r].image
    BY <1>3 DEF Crash, DeployInv, TypeOK, Container
  <2> QED
    BY <2>1, <2>2 DEF Phase, Versions!vars
<1> QED
  BY <1>1, <1>2, <1>3

(* deploy.sh keeps what Rollout promises: nothing but what .env names is ever
   started, a run that reports success, or a rollback, has started it everywhere,
   and a run that is refused has changed neither .env nor a container. *)
THEOREM DeployImplementsRollout == Spec => Versions!Spec
<1>1. Init => Versions!Init
  <2> SUFFICES ASSUME Init PROVE Versions!Init
    OBVIOUS
  <2>1. [s \in Services |-> container[s].image] = [s \in Services |-> NoImage]
    BY DEF Init
  <2> QED
    BY <2>1 DEF Init, Phase, Versions!Init
<1>2. DeployInv /\ [Next]_vars => [Versions!Next]_Versions!vars
  <2> SUFFICES ASSUME DeployInv, [Next]_vars PROVE [Versions!Next]_Versions!vars
    OBVIOUS
  <2>1. CASE UNCHANGED vars
    BY <2>1 DEF vars, hostVars, scriptVars, Phase, Versions!vars
  <2>2. CASE Next
    BY <2>2, UntouchedRefines, NamingRefines, MovingRefines, CheckingRefines, SmokeRefines,
       RollbackRefines, FaultsRefine DEF Next, Progress, Failure
  <2> QED
    BY <2>1, <2>2
<1> QED
  BY <1>1, <1>2, DeployInvariant, PTL DEF Spec, Versions!Spec
=============================================================================
