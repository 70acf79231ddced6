------------------------------ MODULE MCSecureShip ------------------------------
(* SecureShip with one ship of two fields, and two clients that both write: one
   creates, updates and deletes, the other reads, updates another field, and
   deletes. *)
EXTENDS SecureShip, TLC
CONSTANTS r1, r2, v1, v2
TwoClients ==
    r1 :> {"list", "get", "update", "delete"} @@ r2 :> {"create", "delete"}
NewShip == [f \in Fields |-> v1]
MCCreated == {NewShip}
MCUpdates == {[f \in Fields |-> IF f = "cargo" THEN v2 ELSE Keep]}
SameSample == [s \in Ships |-> NewShip]
=============================================================================
