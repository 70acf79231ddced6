------------------------------ MODULE SecureShip ------------------------------
(***************************************************************************)
(* SecureShip: the ships API (ShipRegistry) and its readiness (Readiness). *)
(* A failing call of one says nothing of the calls of the other, and they  *)
(* share no state, so a behaviour exercises one of them. On the dictionary *)
(* /ready answers "ready" at once, which is not modelled.                  *)
(***************************************************************************)
EXTENDS ShipRegistry, Readiness

VARIABLE endpoints \* those that this behaviour is about

vars == <<registry, readiness, endpoints>>

TypeOK ==
    /\ RegistryTypeOK /\ ReadyTypeOK
    /\ endpoints \in {"ships", "ready"}

Init ==
    /\ RegistryInit /\ ReadyInit
    /\ endpoints \in {"ships", "ready"}

Next ==
    \/ endpoints = "ships" /\ RegistryNext /\ UNCHANGED <<readiness, endpoints>>
    \/ endpoints = "ready" /\ ReadyNext /\ UNCHANGED <<registry, endpoints>>

(* A call to the datastore returns or times out, so a thread that serves a
   request goes on; nothing makes a client send one. *)
FairSpec ==
    /\ Init /\ [][Next]_vars
    /\ \A r \in Requests : WF_req(endpoints = "ships" /\ Serve(r))
=============================================================================
