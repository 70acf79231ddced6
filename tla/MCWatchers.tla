----------------------------- MODULE MCWatchers -----------------------------
(* Watchers with one tick for five seconds, and four calls: one that is
   reported, one of Terraform's, one to IAM, one that nobody watches. *)
EXTENDS Watchers

MCCalls == {"byHand", "byTerraform", "toIam", "harmless"}

MCEventName ==
    [byHand |-> "DeleteTable", byTerraform |-> "DeleteTable", toIam |-> "CreateRole", harmless |-> "ListTables"]
=============================================================================
