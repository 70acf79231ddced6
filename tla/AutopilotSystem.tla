--------------------------- MODULE AutopilotSystem ---------------------------
(***************************************************************************)
(* AlertManager, deploy.sh and Prometheus around one autopilot process.    *)
(* Deploys recreate the process under the webhooks it is serving, and wait *)
(* behind webhooks to register themselves.                                 *)
(***************************************************************************)
EXTENDS AlertDelivery, DeployEvents

vars == <<process, alertmanager, script>>

TypeOK == ProcessTypeOK /\ DeliveryTypeOK /\ ScriptTypeOK

Init == ProcessInit /\ DeliveryInit /\ ScriptInit

(* Steps of the process that nobody else takes part in. *)
Handle == TakeWebhook \/ \E a \in Alerts : Diagnose(a)

Notify == Flush \/ Send

RunScript ==
    \/ UpAutopilot \/ ChecksPass \/ SkipDuplicate \/ PostEvent \/ PostFails
    \/ Annotate \/ Mark \/ AppendLog

EndProcess ==
    \/ RecreateAutopilot \/ CrashAutopilot
    \/ \E c \in Commits : RollBack(c)

Next ==
    \/ Handle /\ UNCHANGED <<alertmanager, script>>
    \/ Acknowledged /\ UNCHANGED script
    \/ (Notify \/ GiveUp) /\ UNCHANGED script
    \/ \E a \in Alerts : (AlertFires(a) \/ AlertResolves(a)) /\ UNCHANGED script
    \/ (StartRun \/ RunScript \/ EventHandled \/ Kill \/ Scrape) /\ UNCHANGED alertmanager
    \/ EndProcess /\ ConnectionReset

Spec == Init /\ [][Next]_vars

(* The event loop runs, AlertManager flushes and sends, the script goes on.
   Alerts, deploys, crashes and deadlines come as they like; a process that is
   ended again and again may never finish a webhook, so crashes are excluded
   from what may happen for ever. *)
Fairness ==
    /\ WF_vars(Handle /\ UNCHANGED <<alertmanager, script>>)
    /\ WF_vars(Acknowledged /\ UNCHANGED script)
    /\ WF_vars(Notify /\ UNCHANGED script)
    /\ WF_vars((RunScript \/ EventHandled) /\ UNCHANGED alertmanager)
    /\ WF_vars(RecreateAutopilot /\ ConnectionReset)

FairSpec == Spec /\ Fairness

-----------------------------------------------------------------------------
(* AlertManager counts the group as notified only when the autopilot has been
   through every firing alert of the notification, to a diagnosis or to
   autopilot_diagnosis_errors_total, and has observed the MTTR of every recovery
   that _record_mttr accepts, one within a day: not when a deploy ended the process
   half way, or when one diagnosis raised. *)
NotifiedMeansAttempted ==
    [][log' # log =>
        /\ flight.snapshot.firing \subseteq attempted
        /\ Observed(flight.snapshot) \subseteq recorded]_vars

(* "A CI retry re-running this script for the same commit would otherwise
   double-count": a commit is counted again before another one is registered
   only when an earlier run of it was killed short of its marker. *)
NoDoubleCount ==
    [][events' # events => Head(inbox).commit \notin registered \ cut]_vars

(* Every deploy of another commit replaces the container that keeps the history,
   so the context given to the LLM never names an earlier deploy, and never a
   version that has been rolled back. *)
HistoryIsOfRunningImage == \A i \in DOMAIN recent : recent[i] = running

(* The dashboard shows sum(increase(deployments_total[7d])) as the number of
   deployments. Allowing for the first sample of a series, which increase()
   cannot count, it is the number of events, where each of them has been scraped
   before the next. *)
DashboardCountsDeployments == prom.seen = "all" => prom.increase + 1 >= events

(* A run of deploy.sh ends, though its POST has no time limit and the loop that
   must answer it may be busy with a queue of diagnoses. *)
DeployEnds == pc # "idle" ~> pc = "idle"

(* An alert that keeps firing is diagnosed, or its failure counted, in the end,
   although deliveries time out, pile up and are dropped by deploys. *)
FiringIsAttempted ==
    \A a \in Alerts : alert[a] = "firing" /\ a \notin log.firing ~>
        a \in attempted \/ alert[a] # "firing"

(* "send_resolved MUST be true. The autopilot computes MTTR from resolved
   notifications": the MTTR of an alert that had been notified and recovers within
   a day is observed, unless it fires again first. A longer outage never is, and one
   that begins and ends while such a recovery is being notified is not notified at
   all: AlertManager then has no firing alert on record. *)
RecoveryIsRecorded ==
    \A a \in Alerts :
        alert[a] = "resolved" /\ a \in log.firing /\ a \notin flight.snapshot.long ~>
        a \in recorded \/ alert[a] = "firing"
=============================================================================
