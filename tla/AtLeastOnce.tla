----------------------------- MODULE AtLeastOnce -----------------------------
(***************************************************************************)
(* What a notifier promises of the events it has accepted: each is told at *)
(* least once, or parked where an operator finds it, and nothing is told   *)
(* that was not accepted.                                                  *)
(***************************************************************************)
CONSTANT Events

VARIABLES accepted, told, parked

vars == <<accepted, told, parked>>

Init == accepted = {} /\ told = {} /\ parked = {}

Accept(e) == accepted' = accepted \cup {e} /\ UNCHANGED <<told, parked>>

Tell(e) == e \in accepted /\ told' = told \cup {e} /\ UNCHANGED <<accepted, parked>>

Park(e) == e \in accepted /\ parked' = parked \cup {e} /\ UNCHANGED <<accepted, told>>

(* An event may be told and parked: the telling succeeded and its answer was
   lost. Told after it was parked, when a copy of it is on its way. *)
TellAndPark(e) ==
    /\ e \in accepted
    /\ told' = told \cup {e} /\ parked' = parked \cup {e}
    /\ UNCHANGED accepted

Next == \E e \in Events : Accept(e) \/ Tell(e) \/ Park(e) \/ TellAndPark(e)

Safety == Init /\ [][Next]_vars

(* Every accepted event is told or parked in the end. *)
Liveness == \A e \in Events : e \in accepted ~> e \in told \cup parked

Spec == Safety /\ Liveness
=============================================================================
