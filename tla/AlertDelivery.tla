---------------------------- MODULE AlertDelivery ----------------------------
(***************************************************************************)
(* How AlertManager notifies the autopilot of one alert group, as          *)
(* alertmanager.yml configures it: a flush takes a snapshot of the group,  *)
(* sends it, tries again while the connection fails, and gives up after    *)
(* group_interval, to flush again later. Only a 2xx answer is remembered   *)
(* in the notification log. AlertManager itself is external.               *)
(***************************************************************************)
EXTENDS Autopilot

CONSTANTS
    Lasting,  \* the alerts that may fire for a day or longer
    MaxInbox  \* bound: how many requests the model lets pile up

VARIABLES
    alert,   \* what AlertManager holds of each alert
    log,     \* the notification log of the group
    flight   \* the flush under way: its snapshot, those of its recoveries that are
             \* still the last word on their alert, and whether the request is out

alertmanager == <<alert, log, flight>>

(* An alert that has resolved had been firing for less than a day, or for longer. *)
Resolved == {"resolved", "resolved_late"}
Recoveries(a) == IF a \in Lasting THEN Resolved ELSE {"resolved"}

Nothing == [firing |-> {}, resolved |-> {}, long |-> {}]
Snapshots == [firing : SUBSET Alerts, resolved : SUBSET Alerts, long : SUBSET Alerts]
Flights ==
    [snapshot : Snapshots, settled : SUBSET Alerts, conn : {"none", "to_send", "open"}]
NoFlight == [snapshot |-> Nothing, settled |-> {}, conn |-> "none"]

DeliveryTypeOK ==
    /\ alert \in [Alerts -> {"absent", "firing"} \cup Resolved]
    /\ log \in Snapshots
    /\ flight \in Flights

DeliveryInit ==
    /\ alert = [a \in Alerts |-> "absent"]
    /\ log = Nothing
    /\ flight = NoFlight

-----------------------------------------------------------------------------
Group == [firing |-> {a \in Alerts : alert[a] = "firing"},
          resolved |-> {a \in Alerts : alert[a] \in Resolved},
          long |-> {a \in Alerts : alert[a] = "resolved_late"}]

AlertFires(a) ==
    /\ alert[a] # "firing"
    /\ alert' = [alert EXCEPT ![a] = "firing"]
    /\ flight' = [flight EXCEPT !.settled = @ \ {a}]
    /\ UNCHANGED <<log, process>>

AlertResolves(a) ==
    /\ alert[a] = "firing"
    /\ \E how \in Recoveries(a) : alert' = [alert EXCEPT ![a] = how]
    /\ UNCHANGED <<log, flight, process>>

(* There is something to say while an alert of the group fires (new, or after
   repeat_interval), and once more when the last one has been resolved. *)
FiringOnly == FALSE
SendResolved == log.firing # {}

Flush ==
    /\ flight.conn = "none"
    /\ Group.firing # {} \/ SendResolved
    /\ flight' = [snapshot |-> Group, settled |-> Group.resolved, conn |-> "to_send"]
    /\ attempted' = {} /\ recorded' = {}
    /\ UNCHANGED <<alert, log, inbox, serving, todo, recent, counted>>

Send ==
    /\ flight.conn = "to_send" /\ Len(inbox) < MaxInbox
    /\ inbox' = Append(inbox, [kind |-> "webhook", firing |-> flight.snapshot.firing,
                               resolved |-> flight.snapshot.resolved,
                               long |-> flight.snapshot.long, live |-> TRUE])
    /\ flight' = [flight EXCEPT !.conn = "open"]
    /\ UNCHANGED <<alert, log, serving, todo, recent, counted, attempted, recorded>>

(* The notification's deadline passes while the event loop is busy. *)
GiveUp ==
    /\ flight.conn = "open"
    /\ flight' = NoFlight
    /\ Abandon("webhook")
    /\ UNCHANGED <<alert, log, todo, recent, counted, attempted, recorded>>

(* The process ended: the connection is reset, and AlertManager tries again. *)
ConnectionReset ==
    /\ flight' = [flight EXCEPT !.conn = IF @ = "open" THEN "to_send" ELSE @]
    /\ UNCHANGED <<alert, log>>

(* The 200 arrives: the flush is in the log, and alerts that it reported
   resolved leave the group, unless they have fired since. *)
Acknowledged ==
    /\ AnswerWebhook
    /\ IF serving.live
       THEN /\ log' = flight.snapshot
            /\ alert' = [a \in Alerts |->
                   IF a \in flight.settled THEN "absent" ELSE alert[a]]
            /\ flight' = NoFlight
       ELSE UNCHANGED alertmanager
=============================================================================
