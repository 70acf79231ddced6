------------------------------ MODULE InfraProofs ------------------------------
(* What holds of InfraLifecycle whatever Terraform manages. *)
EXTENDS InfraLifecycle, TLAPS

(* infra-up.sh gets past `terraform apply` only when everything is there. *)
Applied == UpSteps \ {"apply"}
AppliedInv == pc \in Applied => managed = Things

(* The secret is set when the server is there and removed, or kept, before the
   server goes. *)
SecretInv ==
    /\ pc \in {"registry", "start", "watch", "arm"} => secret
    /\ pc \in {"start", "watch", "arm"} => registry
    /\ pc = "destroy" /\ secret => kept
    /\ secret => AppServer \in managed \/ kept

(* What a good conclusion of the pipeline is worth: it was configured when it
   ran, so it has deployed, unless one of the excuses holds. *)
Excused == ~role \/ AppServer \in orphans
ArmedInv ==
    /\ pc = "watch" /\ upRun = "success" => deployed \/ Excused
    /\ pc = "arm" => deployed \/ Excused
    /\ probe = "armed" => deployed \/ excused

(* The teardown counts what it has asked about so far. *)
Asked == Things \ tocheck
CheckInv ==
    /\ pc \in {"unset", "destroy"} => ~left /\ ~blind
    /\ pc = "check" /\ ~blind => (left <=> Asked \cap Live # {})

ScriptInv == AppliedInv /\ SecretInv /\ ArmedInv /\ CheckInv
InfraInv == TypeOK /\ ScriptInv

-----------------------------------------------------------------------------
(* What the queue of the pipeline's runs can be, and stays. *)
LEMMA NoPipelineType ==
    NoPipeline \in Pipelines /\ NoPipeline.by = "none" /\ NoPipeline.job = "none"
BY DEF NoPipeline, Pipelines, Starters

LEMMA EnqueueType ==
    ASSUME TypeOK, NEW who \in Starters
    PROVE  /\ Enqueue(who) \in Pipelines
           /\ Enqueue(who).by = "none" <=> Enqueue(who).job = "none"
BY DEF TypeOK, Enqueue, Pipelines, Starters

LEMMA ConcludedType ==
    ASSUME TypeOK, NEW how \in {"success", "failure"}, Concluded(how)
    PROVE  /\ pipeline' \in Pipelines
           /\ pipeline'.by = "none" <=> pipeline'.job = "none"
           /\ upRun' \in {"none", "open", "success", "failure"}
BY DEF TypeOK, Concluded, NoPipeline, Pipelines, Starters

LEMMA NextJobType ==
    ASSUME TypeOK, pipeline.job # "none", NEW job \in {"build", "deploy"}, NextJob(job)
    PROVE  /\ pipeline' \in Pipelines
           /\ pipeline'.by = "none" <=> pipeline'.job = "none"
           /\ upRun' \in {"none", "open", "success", "failure"}
BY DEF TypeOK, NextJob, Pipelines, Starters

LEMMA InfraInit == Init => InfraInv
BY InfraAssumption, NoPipelineType DEF Init, InfraInv, ScriptInv, TypeOK, AppliedInv, Applied, SecretInv, ArmedInv,
    CheckInv, NoPipeline, UpSteps, DownSteps

LEMMA NextTypeOK ==
    ASSUME TypeOK, [Next]_vars
    PROVE  TypeOK'
<1> USE InfraAssumption DEF TypeOK, Starters, aws, github, check, arming, UpSteps, DownSteps
<1>1. CASE StartUp
  BY <1>1 DEF StartUp, Begin
<1>2. CASE CreateProbe
  BY <1>2 DEF CreateProbe
<1>3. CASE ApplyFails
  BY <1>3 DEF ApplyFails, End
<1>4. CASE ApplyDone
  BY <1>4 DEF ApplyDone, Goto
<1>5. CASE Booted
  BY <1>5 DEF Booted, Goto
<1>6. CASE PointGitHub
  BY <1>6 DEF PointGitHub, Goto
<1>7. CASE NameRegistry
  BY <1>7 DEF NameRegistry, Goto
<1>8. CASE StartPipeline
  BY <1>8, EnqueueType DEF StartPipeline, Goto
<1>9. CASE Watch
  BY <1>9 DEF Watch, Goto, End, GoodConclusion
<1>10. CASE ArmProbe
  BY <1>10 DEF ArmProbe, End
<1>11. CASE StartDown
  BY <1>11 DEF StartDown, Begin, FirstStep
<1>12. CASE UnsetSecret
  BY <1>12 DEF UnsetSecret, Goto
<1>13. CASE DestroyProbe
  BY <1>13 DEF DestroyProbe
<1>14. CASE DestroyDone
  BY <1>14 DEF DestroyDone, Goto
<1>15. CASE DestroyFails
  BY <1>15 DEF DestroyFails, Goto, CheckAnyway
<1>16. CASE Report
  BY <1>16 DEF Report, End
<1>17. CASE Push
  BY <1>17, EnqueueType DEF Push, Superseded
<1>18. CASE CheckAws
  BY <1>18, ConcludedType, NextJobType DEF CheckAws
<1>19. CASE TestsFail
  BY <1>19, ConcludedType DEF TestsFail
<1>20. CASE Build
  BY <1>20, ConcludedType, NextJobType DEF Build
<1>21. CASE DeploySucceeds
  <2>1. (deployed' = TRUE /\ AppServer \in managed) \/ deployed' = deployed
    BY <1>21 DEF DeploySucceeds
  <2>2. CASE deployed' = TRUE /\ AppServer \in managed
    BY <1>21, <2>2, ConcludedType DEF DeploySucceeds
  <2>3. CASE deployed' = deployed
    BY <1>21, <2>3, ConcludedType DEF DeploySucceeds
  <2> QED
    BY <1>21, <2>1, <2>2, <2>3
<1>22. CASE DeployFails
  BY <1>22, ConcludedType DEF DeployFails
<1>23. CASE Interrupt
  BY <1>23 DEF Interrupt, End
<1>24. CASE CleanUpByHand
  BY <1>24 DEF CleanUpByHand
<1>25. CASE Connection
  BY <1>25 DEF Connection
<1>26. ASSUME NEW t \in Things, Create(t)
       PROVE  TypeOK'
  BY <1>26 DEF Create
<1>27. ASSUME NEW t \in Things, Destroy(t)
       PROVE  TypeOK'
  BY <1>27 DEF Destroy, StillDeployed
<1>28. ASSUME NEW t \in Things, Ask(t)
       PROVE  TypeOK'
  BY <1>28 DEF Ask, Exists
<1>29. ASSUME NEW step \in {"boot", "point", "registry", "start", "arm"}, Dies(step)
       PROVE  TypeOK'
  BY <1>29 DEF Dies, End
<1>30. CASE UNCHANGED vars
  BY <1>30 DEF vars
<1> QED
  BY <1>1, <1>2, <1>3, <1>4, <1>5, <1>6, <1>7, <1>8, <1>9, <1>10, <1>11, <1>12,
     <1>13, <1>14, <1>15, <1>16, <1>17, <1>18, <1>19, <1>20, <1>21, <1>22, <1>23, <1>24,
     <1>25, <1>26, <1>27, <1>28, <1>29, <1>30
  DEF Next, Up, Down, Pipeline

LEMMA NextScriptInv ==
    ASSUME InfraInv, [Next]_vars
    PROVE  ScriptInv'
<1> USE InfraAssumption DEF InfraInv, ScriptInv, TypeOK, AppliedInv, Applied, SecretInv,
        ArmedInv, Excused, CheckInv, Asked, Live, aws, github, check, arming, UpSteps, DownSteps
<1>1. CASE StartUp
  BY <1>1 DEF StartUp, Begin
<1>2. CASE CreateProbe
  BY <1>2 DEF CreateProbe
<1>3. CASE ApplyFails
  BY <1>3 DEF ApplyFails, End
<1>4. CASE ApplyDone
  BY <1>4 DEF ApplyDone, Goto
<1>5. CASE Booted
  BY <1>5 DEF Booted, Goto
<1>6. CASE PointGitHub
  BY <1>6 DEF PointGitHub, Goto
<1>7. CASE NameRegistry
  BY <1>7 DEF NameRegistry, Goto
<1>8. CASE StartPipeline
  BY <1>8 DEF StartPipeline, Goto, Enqueue
<1>9. CASE Watch
  BY <1>9 DEF Watch, Goto, End, GoodConclusion
<1>10. CASE ArmProbe
  BY <1>10 DEF ArmProbe, End
<1>11. CASE StartDown
  BY <1>11 DEF StartDown, Begin, FirstStep
<1>12. CASE UnsetSecret
  BY <1>12 DEF UnsetSecret, Goto
<1>13. CASE DestroyProbe
  BY <1>13 DEF DestroyProbe
<1>14. CASE DestroyDone
  BY <1>14 DEF DestroyDone, Goto
<1>15. CASE DestroyFails
  BY <1>15 DEF DestroyFails, Goto, CheckAnyway
<1>16. CASE Report
  BY <1>16 DEF Report, End
<1>17. CASE Push
  BY <1>17 DEF Push, Enqueue, Superseded
<1>18. CASE CheckAws
  BY <1>18 DEF CheckAws, Configured, NextJob, Concluded, NoPipeline
<1>19. CASE TestsFail
  BY <1>19 DEF TestsFail, Concluded, NoPipeline
<1>20. CASE Build
  BY <1>20 DEF Build, NextJob, Concluded, NoPipeline
<1>21. CASE DeploySucceeds
  BY <1>21 DEF DeploySucceeds, Concluded, NoPipeline
<1>22. CASE DeployFails
  BY <1>22 DEF DeployFails, Concluded, NoPipeline
<1>23. CASE Interrupt
  BY <1>23 DEF Interrupt, End
<1>24. CASE CleanUpByHand
  BY <1>24 DEF CleanUpByHand
<1>25. CASE Connection
  BY <1>25 DEF Connection
<1>26. ASSUME NEW t \in Things, Create(t)
       PROVE  ScriptInv'
  BY <1>26 DEF Create
<1>27. ASSUME NEW t \in Things, Destroy(t)
       PROVE  ScriptInv'
  BY <1>27 DEF Destroy, StillDeployed
<1>28. ASSUME NEW t \in Things, Ask(t)
       PROVE  ScriptInv'
  BY <1>28 DEF Ask, Exists
<1>29. ASSUME NEW step \in {"boot", "point", "registry", "start", "arm"}, Dies(step)
       PROVE  ScriptInv'
  BY <1>29 DEF Dies, End
<1>30. CASE UNCHANGED vars
  BY <1>30 DEF vars
<1> QED
  BY <1>1, <1>2, <1>3, <1>4, <1>5, <1>6, <1>7, <1>8, <1>9, <1>10, <1>11, <1>12,
     <1>13, <1>14, <1>15, <1>16, <1>17, <1>18, <1>19, <1>20, <1>21, <1>22, <1>23, <1>24,
     <1>25, <1>26, <1>27, <1>28, <1>29, <1>30
  DEF Next, Up, Down, Pipeline

(* The invariant that the theorems below rest on. *)
THEOREM InfraInvariant == Spec => []InfraInv
<1>1. InfraInv /\ [Next]_vars => InfraInv'
  BY NextTypeOK, NextScriptInv DEF InfraInv
<1> QED
  BY <1>1, InfraInit, PTL DEF Spec

-----------------------------------------------------------------------------
(* The state of both scripts, of the pipeline and of what they share is typed. *)
THEOREM InfraTypeOK == Spec => []TypeOK
BY InfraInvariant, PTL DEF InfraInv

(* While the secret EC2_INSTANCE_ID is set, the server it names exists
   (infra-up.sh, infra-down.sh), unless it could not be removed. *)
THEOREM SecretNamesAServer == Spec => []SecretMeansServer
<1>1. InfraInv => SecretMeansServer
  BY DEF InfraInv, ScriptInv, SecretInv, SecretMeansServer, Live
<1> QED
  BY <1>1, InfraInvariant, PTL

(* The outside-in probe is armed only over a site that was deployed
   (infra-up.sh, terraform/modules/lambda), or with one of the three excuses. *)
THEOREM ArmedOverASite == Spec => []ArmedMeansDeployed
<1>1. InfraInv => ArmedMeansDeployed
  BY DEF InfraInv, ScriptInv, ArmedInv, ArmedMeansDeployed
<1> QED
  BY <1>1, InfraInvariant, PTL

(* What infra-down.sh says about what is left, where AWS answered. *)
THEOREM VerdictIsRight == Spec => AnsweredVerdictIsRight
<1> DEFINE Ends == pc' = "idle" /\ pc \in DownSteps /\ verdict' # "interrupted" =>
                       /\ verdict' \in {"down", "left"}
                       /\ ~blind => (verdict' = "down" <=> Live = {})
<1>1. ASSUME InfraInv, [Next]_vars PROVE [Ends]_vars
  <2> USE <1>1 DEF aws, github, check, arming, UpSteps, DownSteps
  (* infra-up.sh is not under way, the pipeline does not end a script. *)
  <2>1. CASE Up
    BY <2>1 DEF Up, StartUp, Create, CreateProbe, ApplyFails, ApplyDone, Booted, PointGitHub,
        NameRegistry, StartPipeline, Watch, ArmProbe, Dies, Begin
  <2>2. CASE Pipeline
    BY <2>2 DEF Pipeline, Push, CheckAws, TestsFail, Build, DeploySucceeds, DeployFails
  <2>3. CASE Report
    BY <2>3 DEF Report, End, InfraInv, ScriptInv, TypeOK, CheckInv, Asked, Live
  <2>4. CASE Down /\ ~Report
    BY <2>4 DEF Down, StartDown, UnsetSecret, Destroy, DestroyProbe, DestroyDone, DestroyFails,
        CheckAnyway, Ask, Begin, FirstStep, Goto
  <2>5. CASE Interrupt
    BY <2>5 DEF Interrupt, End
  <2>6. CASE CleanUpByHand \/ Connection \/ UNCHANGED vars
    BY <2>6 DEF CleanUpByHand, Connection, vars
  <2> QED
    BY <2>1, <2>2, <2>3, <2>4, <2>5, <2>6 DEF Next
<1> QED
  BY <1>1, InfraInvariant, PTL DEF Spec, AnsweredVerdictIsRight
================================================================================
