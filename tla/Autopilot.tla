------------------------------ MODULE Autopilot ------------------------------
(***************************************************************************)
(* The LLM Alert Autopilot process. Its two POST handlers are `async def`  *)
(* and make blocking calls, so one request is served at a time and         *)
(* everything else that arrives waits: inbox, in order of arrival. The     *)
(* deploy history and the counters live in memory and end with the         *)
(* process. What sends the requests is in AlertDelivery and DeployEvents.  *)
(*                                                                         *)
(* A diagnosis (Loki, Groq, Slack) is one step that succeeds or fails:     *)
(* nothing else runs in the process meanwhile, and the client, a deploy or *)
(* a crash may come before or after it.                                    *)
(***************************************************************************)
EXTENDS Naturals, Sequences, FiniteSets

CONSTANTS
    Alerts,      \* the alerts of one AlertManager group
    Commits,     \* what is deployed
    None,        \* no request, no commit, no sample
    KeepDeploys  \* the length of the deploy history: 10

ASSUME AutopilotAssumption ==
    /\ None \notin Commits
    /\ KeepDeploys \in Nat \ {0}

VARIABLES
    inbox,      \* requests that wait for the event loop
    serving,    \* the webhook being handled, or None
    todo,       \* its firing alerts still to be diagnosed
    recent,     \* _recent_deploys, newest first
    counted,    \* deployments_total; 0: the series does not exist
    attempted,  \* history: alerts diagnosed, or counted as an error, since the last flush
    recorded    \* history: alerts whose MTTR was observed since the last flush

process == <<inbox, serving, todo, recent, counted, attempted, recorded>>

(* long: those of the resolved alerts that had been firing for a day or more. The
   timestamps themselves always parse: AlertManager writes RFC 3339 (timeutil.py). *)
Webhooks ==
    [kind : {"webhook"}, firing : SUBSET Alerts, resolved : SUBSET Alerts,
     long : SUBSET Alerts, live : BOOLEAN]
DeployEvents == [kind : {"deploy-event"}, commit : Commits, live : BOOLEAN]

ProcessTypeOK ==
    /\ inbox \in Seq(Webhooks \cup DeployEvents)
    /\ serving \in Webhooks \cup {None}
    /\ todo \in SUBSET Alerts
    /\ recent \in Seq(Commits) /\ Len(recent) <= KeepDeploys
    /\ counted \in Nat
    /\ attempted \in SUBSET Alerts /\ recorded \in SUBSET Alerts

ProcessInit ==
    /\ inbox = <<>> /\ serving = None /\ todo = {}
    /\ recent = <<>> /\ counted = 0
    /\ attempted = {} /\ recorded = {}

-----------------------------------------------------------------------------
Idle == serving = None
Next1(kind) == Idle /\ inbox # <<>> /\ Head(inbox).kind = kind

(* A client that hangs up leaves its request behind: the handler is not
   cancelled, only nobody reads the answer. *)
Abandon(kind) ==
    /\ inbox' = [i \in DOMAIN inbox |->
           IF inbox[i].kind = kind THEN [inbox[i] EXCEPT !.live = FALSE] ELSE inbox[i]]
    /\ serving' = IF Idle \/ kind # "webhook" THEN serving ELSE [serving EXCEPT !.live = FALSE]

(* The container is recreated, or crashes and is started again. *)
ProcessEnds ==
    /\ inbox' = <<>> /\ serving' = None /\ todo' = {}
    /\ recent' = <<>> /\ counted' = 0
    /\ UNCHANGED <<attempted, recorded>>

(* _record_mttr: 0 < endsAt - startsAt < 86400, or nothing is observed. *)
Observed(request) == request.resolved \ request.long

(* webhook: the MTTR of resolved alerts is observed before anything is diagnosed. *)
TakeWebhook ==
    /\ Next1("webhook")
    /\ serving' = Head(inbox) /\ inbox' = Tail(inbox)
    /\ recorded' = recorded \cup Observed(Head(inbox))
    /\ todo' = Head(inbox).firing
    /\ UNCHANGED <<recent, counted, attempted>>

(* The try/except is inside the loop: a diagnosis that raises (Groq, an unusable
   answer, Slack) is counted and the next alert is taken. *)
LeaveLoopOnError(a, ok) == IF ok THEN todo \ {a} ELSE {}
NeverAdvance(a, ok) == todo
StayInLoop(a, ok) == todo \ {a}

Diagnose(a) ==
    /\ ~Idle /\ a \in todo
    /\ \E ok \in BOOLEAN : todo' = StayInLoop(a, ok)
    /\ attempted' = attempted \cup {a}
    /\ UNCHANGED <<inbox, serving, recent, counted, recorded>>

(* 200, whatever became of the diagnoses. *)
AnswerWebhook ==
    /\ ~Idle /\ todo = {}
    /\ serving' = None /\ todo' = {}
    /\ UNCHANGED <<inbox, recent, counted, attempted, recorded>>

(* deploy_event: insert at the front, del _recent_deploys[10:], count. *)
Untrimmed(list) == list
Trim(list) == SubSeq(list, 1, IF Len(list) < KeepDeploys THEN Len(list) ELSE KeepDeploys)

HandleDeployEvent ==
    /\ Next1("deploy-event")
    /\ inbox' = Tail(inbox)
    /\ recent' = Trim(<<Head(inbox).commit>> \o recent)
    /\ counted' = counted + 1
    /\ UNCHANGED <<serving, todo, attempted, recorded>>
=============================================================================
