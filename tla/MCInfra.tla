------------------------------- MODULE MCInfra -------------------------------
(* InfraLifecycle with the app server and one other thing that bills. *)
EXTENDS InfraLifecycle
=============================================================================
