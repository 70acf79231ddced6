------------------------------ MODULE Watchers ------------------------------
(***************************************************************************)
(* The two Lambda functions that watch from outside, AuditAlerter and      *)
(* ExternalProbe. They share the webhook's parameter and no state, so a    *)
(* behaviour exercises one of them.                                        *)
(***************************************************************************)
EXTENDS AuditAlerter, ExternalProbe

VARIABLE function \* the one this behaviour is about

vars == <<audit, probe, function>>

TypeOK == AuditTypeOK /\ ProbeTypeOK /\ function \in {"audit", "probe"}

Init == AuditInit /\ ProbeInit /\ function \in {"audit", "probe"}

Next ==
    \/ function = "audit" /\ AuditNext /\ UNCHANGED <<probe, function>>
    \/ function = "probe" /\ ProbeNext /\ UNCHANGED <<audit, function>>

(* Lambda goes on with the invocations it has accepted. *)
FairSpec ==
    /\ Init /\ [][Next]_vars
    /\ \A d \in Deliveries : WF_vars(function = "audit" /\ Invocation(d) /\ UNCHANGED <<probe, function>>)
=============================================================================
