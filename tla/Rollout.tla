-------------------------------- MODULE Rollout --------------------------------
(***************************************************************************)
(* What deploy.sh promises the operator who reads its verdict, and systemd *)
(* that reads .env at the next boot. A run that is refused has changed     *)
(* nothing. Otherwise it first names the version, and services are moved   *)
(* to what is named and to nothing else; a run that says that it is done   *)
(* has moved them all. One that gives up, or is killed, may leave some.    *)
(***************************************************************************)
CONSTANTS Services, Images, NoImage, Blank, Local

VARIABLES
    phase,  \* "rest", or a run that has left everything "untouched", or is "changing" it
    images, \* per service: what it runs
    named,  \* what .env names
    report  \* the verdict of the last run

vars == <<phase, images, named, report>>

Done == {"success", "rolledback", "restored"}
GivenUp == {"no_target", "manual", "aborted", "unhealthy"}

Init ==
    /\ phase = "rest" /\ report = "none"
    /\ images = [s \in Services |-> NoImage] /\ named = Blank

Meant == IF named = Blank THEN Local ELSE named

Keep == UNCHANGED <<images, named>>

NameAnother == named' \in Images \cup {Blank} /\ UNCHANGED images

(* Some services, perhaps none or all, go to the version that is named. *)
MoveSome ==
    /\ images' \in [Services -> Images \cup {NoImage}]
    /\ \A s \in Services : images'[s] \in {images[s], Meant}
    /\ UNCHANGED named

EndWith(verdict) == phase' = "rest" /\ report' = verdict

Begin == phase = "rest" /\ phase' = "untouched" /\ report' = "running" /\ Keep

Refuse == phase = "untouched" /\ EndWith("refused") /\ Keep

NameVersion ==
    /\ phase # "rest" /\ phase' = "changing" /\ UNCHANGED report
    /\ NameAnother

Bring == phase = "changing" /\ MoveSome /\ UNCHANGED <<phase, report>>

Finish ==
    /\ phase = "changing" /\ (\A s \in Services : images[s] = Meant)
    /\ \E verdict \in Done : EndWith(verdict)
    /\ Keep

GiveUp ==
    /\ phase = "changing"
    /\ \E verdict \in GivenUp : EndWith(verdict)
    /\ MoveSome

Killed ==
    /\ phase # "rest" /\ EndWith("killed")
    /\ NameAnother \/ (phase = "changing" /\ MoveSome)

Reboot ==
    /\ phase = "rest" /\ UNCHANGED <<phase, named, report>>
    /\ images' = [s \in Services |-> Meant]

Next == Begin \/ Refuse \/ NameVersion \/ Bring \/ Finish \/ GiveUp \/ Killed \/ Reboot

Spec == Init /\ [][Next]_vars
=============================================================================
