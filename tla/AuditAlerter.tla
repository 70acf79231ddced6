---------------------------- MODULE AuditAlerter ----------------------------
(***************************************************************************)
(* apps/lambda/audit_alerter with the EventBridge rule, the asynchronous   *)
(* invocation and the dead-letter queue of terraform/modules/lambda: calls *)
(* to AWS that nobody made through Terraform are reported to Slack.        *)
(* EventBridge may deliver a call more than once; the parameter store and  *)
(* Slack may fail, or act and not be heard.                                *)
(***************************************************************************)
EXTENDS Integers

CONSTANTS
    Calls,         \* AWS API calls
    EventName,     \* per call: its eventName
    ByTerraform,   \* the calls whose user agent is that of Terraform's provider
    Unseen,        \* the calls recorded in another region: those to IAM
    RulePattern,   \* the eventNames of the EventBridge rule
    WatchedEvents, \* those of the handler
    Copies,        \* how often EventBridge delivers a call at most
    Attempts       \* how often Lambda tries an asynchronous invocation

ASSUME AuditAssumption ==
    /\ Copies \in Nat \ {0} /\ Attempts \in Nat \ {0}
    /\ ByTerraform \subseteq Calls /\ Unseen \subseteq Calls
    /\ RulePattern \subseteq WatchedEvents

VARIABLES
    made,       \* the calls made so far
    invocation, \* per delivery: where it is and how often it has failed
    told,       \* the calls with a message in Slack
    parked      \* the calls in the dead-letter queue

audit == <<made, invocation, told, parked>>

Deliveries == Calls \X (1 .. Copies)
Places == {"absent", "queued", "webhook", "slack", "done"}
At(place, n) == [at |-> place, failed |-> n]

AuditTypeOK ==
    /\ made \subseteq Calls /\ told \subseteq Calls /\ parked \subseteq Calls
    /\ invocation \in [Deliveries -> [at : Places, failed : 0 .. Attempts]]

AuditInit ==
    /\ made = {} /\ told = {} /\ parked = {}
    /\ invocation = [d \in Deliveries |-> At("absent", 0)]

(* The event pattern. *)
NameMatches(c) == EventName[c] \in RulePattern
Matches(c) == NameMatches(c) /\ c \notin ByTerraform \cup Unseen

Move(d, place) == invocation' = [invocation EXCEPT ![d].at = place]

(* A call is made; EventBridge hands every match to Lambda, n times. *)
Call(c) ==
    /\ c \notin made
    /\ made' = made \cup {c}
    /\ \E n \in 1 .. Copies :
           invocation' = [d \in Deliveries |->
               IF d[1] = c /\ Matches(c) /\ d[2] <= n THEN At("queued", 0) ELSE invocation[d]]
    /\ UNCHANGED <<told, parked>>

(* An invocation returned normally, whatever became of the message. *)
Swallowed(d) == Move(d, "done") /\ UNCHANGED parked

(* Raised without a last attempt. *)
TriedForEver(d) ==
    /\ invocation' = [invocation EXCEPT ![d] = At("queued", invocation[d].failed + 1)]
    /\ UNCHANGED parked

(* It raised, or ran into its time limit: Lambda tries again, then parks it. *)
Raised(d) ==
    LET n == invocation[d].failed + 1 IN
    /\ invocation' = [invocation EXCEPT ![d] = At(IF n = Attempts THEN "done" ELSE "queued", n)]
    /\ parked' = IF n = Attempts THEN parked \cup {d[1]} ELSE parked

(* lambda_handler: an event it does not watch is ignored. *)
Handle(d) ==
    /\ invocation[d].at = "queued"
    /\ Move(d, IF EventName[d[1]] \in WatchedEvents THEN "webhook" ELSE "done")
    /\ UNCHANGED <<made, told, parked>>

GetWebhook(d) ==
    /\ invocation[d].at = "webhook"
    /\ \/ Move(d, "slack") /\ UNCHANGED parked
       \/ Raised(d)
    /\ UNCHANGED <<made, told>>

(* Slack posts it and answers; posts it and is not heard; or does neither. *)
Post(d) ==
    /\ invocation[d].at = "slack"
    /\ \/ told' = told \cup {d[1]} /\ Move(d, "done") /\ UNCHANGED parked
       \/ told' = told \cup {d[1]} /\ Raised(d)
       \/ told' = told /\ Raised(d)
    /\ UNCHANGED made

Invocation(d) == Handle(d) \/ GetWebhook(d) \/ Post(d)

AuditNext == (\E c \in Calls : Call(c)) \/ (\E d \in Deliveries : Invocation(d))

AuditSpec == AuditInit /\ [][AuditNext]_audit

(* Lambda goes on with what it has accepted. *)
AuditFairness == \A d \in Deliveries : WF_audit(Invocation(d))

-----------------------------------------------------------------------------
(* What is to be reported: the listed calls, less Terraform's own and those that
   this region does not see. *)
Accepted == {c \in made : EventName[c] \in RulePattern} \ (ByTerraform \cup Unseen)

Alerts == INSTANCE AtLeastOnce WITH Events <- Calls, accepted <- Accepted

(* "Calls made by Terraform's AWS provider are excluded" and "if the function
   fails (Slack down, parameter missing) the event is kept here for 14 days
   instead of being dropped" (terraform/modules/lambda/main.tf:160-164, 184):
   Slack and the queue hear of nothing else, and every other listed call is in
   one of them in the end, whatever fails, is not heard or comes twice. *)
ReportedAtLeastOnce == Alerts!Spec
=============================================================================
