---------------------------- MODULE AutopilotProofs ----------------------------
(* What holds of AutopilotSystem for any alerts, any commits, any length of the
   deploy history and any bounds. *)
EXTENDS AutopilotSystem, TLAPS

Requests == Webhooks \cup DeployEvents
Hook(i) == i \in DOMAIN inbox /\ inbox[i].kind = "webhook"
Event(i) == i \in DOMAIN inbox /\ inbox[i].kind = "deploy-event"

(* Whatever waits, or is remembered, is a deploy of the image that runs. *)
ImageInv ==
    /\ \A i \in DOMAIN inbox : Event(i) => inbox[i].commit = running
    /\ \A i \in DOMAIN recent : recent[i] = running
    /\ pc \notin {"idle", "up"} => commit = running
    /\ pc # "idle" => commit \in Commits

(* One run of deploy.sh waits for one event, behind what killed runs have left;
   an event that nobody waits for belongs to a run that was cut short. *)
WaitInv ==
    /\ \A i \in DOMAIN inbox : Event(i) /\ inbox[i].live =>
          pc = "wait" /\ \A j \in DOMAIN inbox : Event(j) => j <= i
    /\ \A i \in DOMAIN inbox : Event(i) /\ ~inbox[i].live => inbox[i].commit \in cut
    /\ pc \in {"annotate", "mark"} => \A i \in DOMAIN inbox : ~Event(i)

(* What is registered and not cut short has its marker, or is about to get it. *)
MarkerInv ==
    /\ pc = "wait" => marker # commit
    /\ registered \ cut \subseteq {marker} \cup (IF pc \in {"annotate", "mark"} THEN {commit} ELSE {})

(* The request for whose answer AlertManager waits is the only one, carries the
   snapshot of the flush, and what has been done about it is in the histories. *)
FlightInv ==
    /\ \A i \in DOMAIN inbox : Hook(i) /\ inbox[i].live =>
          /\ flight.conn = "open"
          /\ inbox[i].firing = flight.snapshot.firing
          /\ inbox[i].resolved = flight.snapshot.resolved
          /\ inbox[i].long = flight.snapshot.long
          /\ \A j \in DOMAIN inbox : Hook(j) /\ inbox[j].live => j = i
          /\ serving # None => ~serving.live
    /\ serving # None /\ serving.live =>
          /\ flight.conn = "open"
          /\ flight.snapshot.firing \subseteq todo \cup attempted
          /\ Observed(flight.snapshot) \subseteq recorded

SystemInv == TypeOK /\ ImageInv /\ WaitInv /\ MarkerInv /\ FlightInv

-----------------------------------------------------------------------------
(* A request that leaves the head of the queue moves the others up. *)
LEMMA TailFacts ==
    ASSUME NEW S, NEW s \in Seq(S), s # <<>>
    PROVE  /\ 1 \in DOMAIN s /\ Head(s) = s[1] /\ Head(s) \in S
           /\ Tail(s) \in Seq(S)
           /\ \A i \in DOMAIN Tail(s) : i + 1 \in DOMAIN s /\ Tail(s)[i] = s[i + 1]
OBVIOUS

(* A request that is sent goes to the end of the queue. *)
LEMMA AppendFacts ==
    ASSUME NEW S, NEW s \in Seq(S), NEW r \in S
    PROVE  /\ Append(s, r) \in Seq(S)
           /\ DOMAIN Append(s, r) = DOMAIN s \cup {Len(s) + 1}
           /\ \A i \in DOMAIN s : i <= Len(s) /\ i # Len(s) + 1 /\ Append(s, r)[i] = s[i]
           /\ Append(s, r)[Len(s) + 1] = r
OBVIOUS

(* What has the domain and the elements of a sequence is one. *)
LEMMA IsSequence ==
    ASSUME NEW S, NEW n \in Nat, NEW s, s = [i \in 1 .. n |-> s[i]],
           \A i \in 1 .. n : s[i] \in S
    PROVE  s \in Seq(S)
OBVIOUS

(* The history gets one entry at its front and is not longer than it may be. *)
LEMMA TrimFacts ==
    ASSUME NEW s \in Seq(Commits), NEW c \in Commits
    PROVE  /\ Trim(<<c>> \o s) \in Seq(Commits)
           /\ Len(Trim(<<c>> \o s)) <= KeepDeploys
           /\ \A i \in DOMAIN Trim(<<c>> \o s) :
                 \/ Trim(<<c>> \o s)[i] = c
                 \/ \E j \in DOMAIN s : Trim(<<c>> \o s)[i] = s[j]
<1> DEFINE long == <<c>> \o s
<1>1. long \in Seq(Commits) /\ Len(long) = Len(s) + 1
  OBVIOUS
<1>2. \A i \in 1 .. Len(long) : long[i] = c \/ \E j \in DOMAIN s : long[i] = s[j]
  <2> SUFFICES ASSUME NEW i \in 1 .. Len(long) PROVE long[i] = c \/ \E j \in DOMAIN s : long[i] = s[j]
    OBVIOUS
  <2>1. CASE i = 1
    BY <2>1
  <2>2. CASE i # 1
    <3>1. i - 1 \in DOMAIN s /\ long[i] = s[i - 1]
      BY <2>2
    <3> QED
      BY <3>1
  <2> QED
    BY <2>1, <2>2
<1>3. PICK n \in 0 .. Len(long) : n <= KeepDeploys /\ Trim(long) = SubSeq(long, 1, n)
  BY <1>1, AutopilotAssumption DEF Trim
<1> HIDE DEF long
<1>4. Trim(long) \in Seq(Commits) /\ Len(Trim(long)) = n
      /\ \A i \in 1 .. n : Trim(long)[i] = long[i]
  BY <1>1, <1>3
<1>5. DOMAIN Trim(long) = 1 .. n
  BY <1>4
<1> QED
  BY <1>1, <1>2, <1>3, <1>4, <1>5 DEF long

(* The two kinds of request, and what they carry. *)
LEMMA RequestFacts ==
    ASSUME NEW r \in Requests
    PROVE  /\ r.kind \in {"webhook", "deploy-event"} /\ r.live \in BOOLEAN
           /\ r.kind = "webhook" => /\ r \in Webhooks
                                   /\ r.firing \in SUBSET Alerts /\ r.resolved \in SUBSET Alerts
                                   /\ r.long \in SUBSET Alerts
           /\ r.kind = "deploy-event" => r.commit \in Commits
BY DEF Requests, Webhooks, DeployEvents

(* A request that nobody waits for is the same request. *)
LEMMA OrphanFacts ==
    ASSUME NEW r \in Requests, NEW o, o = [r EXCEPT !.live = FALSE]
    PROVE  /\ o \in Requests /\ o.kind = r.kind /\ o.live = FALSE
           /\ r.kind = "deploy-event" => o.commit = r.commit
           /\ r \in Webhooks => o \in Webhooks
<1>1. CASE r \in Webhooks
  <2>1. o.kind = "webhook" /\ r.kind = "webhook"
    BY <1>1 DEF Webhooks
  <2> QED
    BY <1>1, <2>1 DEF Requests, Webhooks
<1>2. CASE r \in DeployEvents
  <2>1. o \in DeployEvents /\ o.kind = "deploy-event" /\ r.kind = "deploy-event"
    BY <1>2 DEF DeployEvents
  <2>2. r \notin Webhooks
    BY <2>1 DEF Webhooks
  <2> QED
    BY <1>2, <2>1, <2>2 DEF Requests, DeployEvents
<1> QED
  BY <1>1, <1>2 DEF Requests

(* What Abandon leaves of the queue. *)
LEMMA AbandonFacts ==
    ASSUME TypeOK, NEW kind \in {"webhook", "deploy-event"}, Abandon(kind)
    PROVE  /\ inbox' \in Seq(Requests) /\ serving' \in Webhooks \cup {None}
           /\ DOMAIN inbox' = DOMAIN inbox
           /\ \A i \in DOMAIN inbox :
                 /\ inbox[i].kind = kind =>
                       /\ inbox'[i].kind = kind /\ inbox'[i].live = FALSE
                       /\ kind = "deploy-event" => inbox'[i].commit = inbox[i].commit
                 /\ inbox[i].kind # kind => inbox'[i] = inbox[i]
<1>1. inbox \in Seq(Requests) /\ serving \in Webhooks \cup {None}
  BY DEF TypeOK, ProcessTypeOK, Requests
<1>2. \A i \in DOMAIN inbox : inbox[i] \in Requests
  BY <1>1
<1>3. DOMAIN inbox' = DOMAIN inbox
      /\ \A i \in DOMAIN inbox : inbox'[i] = IF inbox[i].kind = kind
                                             THEN [inbox[i] EXCEPT !.live = FALSE] ELSE inbox[i]
  BY DEF Abandon
<1>4. ASSUME NEW i \in DOMAIN inbox
      PROVE  /\ inbox[i].kind = kind =>
                   /\ inbox'[i].kind = kind /\ inbox'[i].live = FALSE
                   /\ kind = "deploy-event" => inbox'[i].commit = inbox[i].commit
             /\ inbox[i].kind # kind => inbox'[i] = inbox[i]
             /\ inbox'[i] \in Requests
  <2>1. CASE inbox[i].kind = kind
    <3>1. inbox[i] \in Requests /\ inbox'[i] = [inbox[i] EXCEPT !.live = FALSE]
      BY <1>2, <1>3, <2>1
    <3> QED
      BY <2>1, <3>1, OrphanFacts
  <2>2. CASE inbox[i].kind # kind
    BY <1>2, <1>3, <2>2
  <2> QED
    BY <2>1, <2>2
<1>5. inbox' \in Seq(Requests)
  <2>1. DOMAIN inbox = 1 .. Len(inbox) /\ Len(inbox) \in Nat
    BY <1>1
  <2>2. inbox' = [i \in 1 .. Len(inbox) |-> inbox'[i]]
    BY <2>1 DEF Abandon
  <2>3. \A i \in 1 .. Len(inbox) : inbox'[i] \in Requests
    BY <1>4, <2>1
  <2> QED
    BY <2>1, <2>2, <2>3, IsSequence
<1>6. serving' \in Webhooks \cup {None}
  <2>1. CASE Idle \/ kind # "webhook"
    BY <1>1, <2>1 DEF Abandon
  <2>2. CASE ~Idle /\ kind = "webhook"
    <3>1. serving \in Webhooks /\ serving' = [serving EXCEPT !.live = FALSE]
      BY <1>1, <2>2 DEF Abandon, Idle
    <3> QED
      BY <3>1, OrphanFacts DEF Requests
  <2> QED
    BY <2>1, <2>2
<1> QED
  BY <1>3, <1>4, <1>5, <1>6

-----------------------------------------------------------------------------
(* The first state. *)
LEMMA InitInv == Init => SystemInv
<1> SUFFICES ASSUME Init PROVE SystemInv
  OBVIOUS
<1> USE DEF Init, ProcessInit, DeliveryInit, ScriptInit
<1>1. TypeOK
  <2>1. NoFlight \in Flights
        /\ Nothing \in Snapshots
    BY DEF NoFlight, Nothing, Snapshots, Flights
  <2> QED
    BY <2>1, AutopilotAssumption, EventsAssumption
       DEF TypeOK, ProcessTypeOK, DeliveryTypeOK, ScriptTypeOK, Steps
<1> QED
  BY <1>1 DEF SystemInv, ImageInv, WaitInv, MarkerInv, FlightInv, Event, Hook

(* Every step keeps the types. *)
LEMMA TypeStep ==
    ASSUME TypeOK, ImageInv, [Next]_vars PROVE TypeOK'
<1> USE DEF TypeOK, ProcessTypeOK, DeliveryTypeOK, ScriptTypeOK, Steps
<1>1. inbox \in Seq(Requests) /\ serving \in Webhooks \cup {None}
  BY DEF Requests
<1>2. ASSUME Next1("webhook") \/ Next1("deploy-event")
      PROVE  /\ Head(inbox) \in Requests /\ Tail(inbox) \in Seq(Requests)
             /\ Next1("webhook") => Head(inbox) \in Webhooks
             /\ Next1("deploy-event") => Head(inbox).commit \in Commits
  BY <1>1, <1>2, TailFacts, RequestFacts DEF Next1
<1>3. CASE TakeWebhook /\ UNCHANGED <<alertmanager, script>>
  <2>1. Head(inbox).firing \in SUBSET Alerts /\ Head(inbox).resolved \in SUBSET Alerts
    BY <1>2, <1>3, RequestFacts DEF TakeWebhook, Next1
  <2> QED
    BY <1>2, <1>3, <2>1 DEF TakeWebhook, Observed, alertmanager, script, Requests
<1>4. CASE (\E a \in Alerts : Diagnose(a)) /\ UNCHANGED <<alertmanager, script>>
  BY <1>4 DEF Diagnose, StayInLoop, alertmanager, script
<1>5. CASE Acknowledged /\ UNCHANGED script
  <2>1. NoFlight \in Flights
    BY DEF NoFlight, Nothing, Snapshots, Flights
  <2>2. CASE serving.live
    <3>1. log' = flight.snapshot /\ flight' = NoFlight
          /\ alert' \in [Alerts -> {"absent", "firing"} \cup Resolved]
      BY <1>5, <2>2 DEF Acknowledged
    <3>2. log' \in Snapshots
      BY <3>1 DEF Flights
    <3> QED
      BY <1>5, <2>1, <3>1, <3>2 DEF Acknowledged, AnswerWebhook, script
  <2>3. CASE ~serving.live
    BY <1>5, <2>3 DEF Acknowledged, AnswerWebhook, script, alertmanager
  <2> QED
    BY <2>2, <2>3
<1>6. CASE Flush /\ UNCHANGED script
  <2>1. Group \in Snapshots /\ Group.resolved \in SUBSET Alerts
    BY DEF Group, Snapshots
  <2>2. flight' \in Flights
    BY <1>6, <2>1 DEF Flush, Flights
  <2> QED
    BY <1>6, <2>2 DEF Flush, script
<1>7. CASE Send /\ UNCHANGED script
  <2> DEFINE r == [kind |-> "webhook", firing |-> flight.snapshot.firing,
                   resolved |-> flight.snapshot.resolved,
                 long |-> flight.snapshot.long, live |-> TRUE]
  <2>1. r \in Requests
    BY DEF Requests, Webhooks, Snapshots, Flights
  <2>2. Append(inbox, r) \in Seq(Requests)
    BY <1>1, <2>1, AppendFacts
  <2>3. flight' \in Flights
    BY <1>7 DEF Send, Flights
  <2> QED
    BY <1>7, <2>2, <2>3 DEF Send, script, Requests
<1>8. CASE GiveUp /\ UNCHANGED script
  <2>1. NoFlight \in Flights
    BY DEF NoFlight, Nothing, Snapshots, Flights
  <2>2. inbox' \in Seq(Requests) /\ serving' \in Webhooks \cup {None}
    BY <1>8, AbandonFacts DEF GiveUp
  <2> QED
    BY <1>8, <2>1, <2>2 DEF GiveUp, script, Requests
<1>9. CASE (\E a \in Alerts : AlertFires(a) \/ AlertResolves(a)) /\ UNCHANGED script
  <2>1. alert' \in [Alerts -> {"absent", "firing"} \cup Resolved]
    BY <1>9 DEF AlertFires, AlertResolves, Recoveries, Resolved
  <2>2. flight' \in Flights
    BY <1>9 DEF AlertFires, AlertResolves, Flights
  <2> QED
    BY <1>9, <2>1, <2>2 DEF AlertFires, AlertResolves, process, script
<1>10. CASE StartRun /\ UNCHANGED alertmanager
  BY <1>10, EventsAssumption DEF StartRun, Goto, process, alertmanager
<1>11. CASE (UpAutopilot \/ ChecksPass \/ SkipDuplicate \/ PostFails \/ Annotate \/ AppendLog)
            /\ UNCHANGED alertmanager
  BY <1>11 DEF UpAutopilot, ChecksPass, SkipDuplicate, PostFails, Annotate, AppendLog, Goto,
               process, alertmanager
<1>12. CASE Mark /\ UNCHANGED alertmanager
  BY <1>12 DEF Mark, Goto, process, alertmanager
<1>13. CASE PostEvent /\ UNCHANGED alertmanager
  <2> DEFINE r == [kind |-> "deploy-event", commit |-> commit, live |-> TRUE]
  <2>1. r \in Requests
    BY <1>13 DEF Requests, DeployEvents, ImageInv, PostEvent, Goto
  <2>2. Append(inbox, r) \in Seq(Requests)
    BY <1>1, <2>1, AppendFacts
  <2> QED
    BY <1>13, <2>2 DEF PostEvent, Goto, alertmanager, Requests
<1>14. CASE EventHandled /\ UNCHANGED alertmanager
  <2> DEFINE new == Trim(<<Head(inbox).commit>> \o recent)
  <2>1. new \in Seq(Commits) /\ Len(new) <= KeepDeploys
    BY <1>2, <1>14, TrimFacts DEF EventHandled, HandleDeployEvent
  <2>2. prom' \in [last : Nat, increase : Nat, seen : {"all", "behind", "missed"}]
    BY <1>14 DEF EventHandled
  <2>3. pc' \in Steps
    BY <1>14 DEF EventHandled, Goto
  <2>4. /\ inbox' \in Seq(Requests) /\ recent' = new /\ counted' \in Nat
        /\ UNCHANGED <<serving, todo, attempted, recorded>>
    BY <1>2, <1>14 DEF EventHandled, HandleDeployEvent
  <2>5. ProcessTypeOK'
    BY <2>1, <2>4 DEF Requests
  <2> HIDE DEF new
  <2>6. registered' \in SUBSET Commits
    <3>1. registered' = registered \cup {Head(inbox).commit} /\ Next1("deploy-event")
      BY <1>14 DEF EventHandled, HandleDeployEvent
    <3> QED
      BY <1>2, <3>1
  <2>7. events' \in Nat /\ UNCHANGED <<commit, runs, crashes, running, marker, cut>>
    BY <1>14 DEF EventHandled
  <2>8. ScriptTypeOK'
    BY <2>2, <2>3, <2>6, <2>7
  <2> QED
    BY <1>14, <2>5, <2>8 DEF alertmanager
<1>15. CASE Kill /\ UNCHANGED alertmanager
  <2>1. inbox' \in Seq(Requests) /\ serving' \in Webhooks \cup {None}
    BY <1>15, AbandonFacts DEF Kill
  <2>2. cut' \in SUBSET Commits
    BY <1>15 DEF Kill, ImageInv
  <2> QED
    BY <1>15, <2>1, <2>2 DEF Kill, alertmanager, Requests
<1>16. CASE Scrape /\ UNCHANGED alertmanager
  <2>1. Grown(prom.last, counted) \in Nat
    BY DEF Grown
  <2>2. prom' \in [last : Nat, increase : Nat, seen : {"all", "behind", "missed"}]
    <3>1. CASE counted = 0
      BY <1>16, <3>1 DEF Scrape
    <3>2. CASE counted # 0
      BY <1>16, <2>1, <3>2 DEF Scrape
    <3> QED
      BY <3>1, <3>2
  <2> QED
    BY <1>16, <2>2 DEF Scrape, process, alertmanager
<1>17. CASE EndProcess /\ ConnectionReset
  <2>1. ProcessEnds
    BY <1>17 DEF EndProcess, RecreateAutopilot, CrashAutopilot, RollBack
  <2>2. ProcessTypeOK'
    <3>1. inbox' = <<>> /\ recent' = <<>> /\ inbox' \in Seq(Webhooks \cup DeployEvents)
      BY <2>1 DEF ProcessEnds
    <3>2. recent' \in Seq(Commits) /\ Len(recent') <= KeepDeploys
      BY <3>1, AutopilotAssumption
    <3> QED
      BY <2>1, <3>1, <3>2 DEF ProcessEnds
  <2>3. DeliveryTypeOK'
    BY <1>17 DEF ConnectionReset, Flights
  <2>4. ScriptTypeOK'
    <3>1. CASE RecreateAutopilot
      BY <3>1 DEF RecreateAutopilot, Goto
    <3>2. CASE CrashAutopilot
      BY <3>2, EventsAssumption DEF CrashAutopilot
    <3>3. ASSUME NEW c \in Commits, RollBack(c) PROVE ScriptTypeOK'
      BY <3>3, EventsAssumption DEF RollBack
    <3> QED
      BY <1>17, <3>1, <3>2, <3>3 DEF EndProcess
  <2> QED
    BY <2>2, <2>3, <2>4
<1>18. CASE UNCHANGED vars
  BY <1>18 DEF vars, process, alertmanager, script
<1> QED
  BY <1>3, <1>4, <1>5, <1>6, <1>7, <1>8, <1>9, <1>10, <1>11, <1>12, <1>13, <1>14, <1>15, <1>16,
     <1>17, <1>18
     DEF Next, Handle, Notify, RunScript

-----------------------------------------------------------------------------
(* The requests behind the one that is taken. *)
LEMMA Taken ==
    ASSUME TypeOK, inbox # <<>>, inbox' = Tail(inbox)
    PROVE  /\ 1 \in DOMAIN inbox /\ Head(inbox) = inbox[1] /\ Head(inbox) \in Requests
           /\ \A i \in DOMAIN inbox' : i \in Nat \ {0} /\ i + 1 \in DOMAIN inbox /\ inbox'[i] = inbox[i + 1]
<1>1. inbox \in Seq(Requests)
  BY DEF TypeOK, ProcessTypeOK, Requests
<1>2. \A i \in DOMAIN Tail(inbox) : i \in Nat \ {0}
  BY <1>1
<1> QED
  BY <1>1, <1>2, TailFacts

(* The requests before the one that is sent. *)
LEMMA Sent ==
    ASSUME TypeOK, NEW r \in Requests, inbox' = Append(inbox, r)
    PROVE  /\ Len(inbox) + 1 \in DOMAIN inbox' /\ inbox'[Len(inbox) + 1] = r
           /\ DOMAIN inbox' = DOMAIN inbox \cup {Len(inbox) + 1}
           /\ \A i \in DOMAIN inbox : i \in Nat /\ i <= Len(inbox) /\ i # Len(inbox) + 1 /\ inbox'[i] = inbox[i]
<1>1. inbox \in Seq(Requests)
  BY DEF TypeOK, ProcessTypeOK, Requests
<1>2. \A i \in DOMAIN inbox : i \in Nat
  BY <1>1
<1> QED
  BY <1>1, <1>2, AppendFacts

(* The requests that AlertManager and deploy.sh send. *)
LEMMA SentByFlight ==
    ASSUME TypeOK, Send
    PROVE  \E r \in Requests : /\ inbox' = Append(inbox, r)
                              /\ r.kind = "webhook" /\ r.live = TRUE
                              /\ r.firing = flight.snapshot.firing
                              /\ r.resolved = flight.snapshot.resolved
                              /\ r.long = flight.snapshot.long
<1> DEFINE r == [kind |-> "webhook", firing |-> flight.snapshot.firing,
                 resolved |-> flight.snapshot.resolved,
                 long |-> flight.snapshot.long, live |-> TRUE]
<1>1. r \in Requests
  BY DEF Requests, Webhooks, Snapshots, Flights, TypeOK, DeliveryTypeOK
<1> QED
  BY <1>1 DEF Send

LEMMA SentByScript ==
    ASSUME TypeOK, ImageInv, PostEvent
    PROVE  \E r \in Requests : /\ inbox' = Append(inbox, r)
                              /\ r.kind = "deploy-event" /\ r.live = TRUE /\ r.commit = commit
<1> DEFINE r == [kind |-> "deploy-event", commit |-> commit, live |-> TRUE]
<1>1. r \in Requests
  BY DEF Requests, DeployEvents, ImageInv, PostEvent, Goto
<1> QED
  BY <1>1 DEF PostEvent

(* Another image comes only with another container, whose memory is empty. *)
LEMMA ImageStep ==
    ASSUME TypeOK, ImageInv, [Next]_vars PROVE ImageInv'
<1> USE DEF Event
<1>1. CASE TakeWebhook /\ UNCHANGED <<alertmanager, script>>
  <2>1. inbox # <<>> /\ inbox' = Tail(inbox) /\ UNCHANGED <<recent, pc, commit, running>>
    BY <1>1 DEF TakeWebhook, Next1, script
  <2> QED
    BY <2>1, Taken DEF ImageInv
<1>2. CASE UNCHANGED <<inbox, recent, pc, commit, running>>
  BY <1>2 DEF ImageInv
<1>3. CASE Send /\ UNCHANGED script
  <2>1. UNCHANGED <<recent, pc, commit, running>>
    BY <1>3 DEF Send, script
  <2>2. PICK r \in Requests : inbox' = Append(inbox, r) /\ r.kind = "webhook"
    BY <1>3, SentByFlight
  <2> QED
    BY <2>1, <2>2, Sent DEF ImageInv
<1>4. CASE GiveUp /\ UNCHANGED script
  BY <1>4, AbandonFacts DEF GiveUp, script, ImageInv
<1>5. CASE StartRun /\ UNCHANGED alertmanager
  BY <1>5 DEF StartRun, Goto, process, ImageInv
<1>6. CASE UpAutopilot /\ UNCHANGED alertmanager
  BY <1>6 DEF UpAutopilot, Recreates, Goto, process, ImageInv
<1>7. CASE (ChecksPass \/ SkipDuplicate \/ PostFails \/ Annotate \/ AppendLog \/ Mark)
           /\ UNCHANGED alertmanager
  BY <1>7 DEF ChecksPass, SkipDuplicate, PostFails, Annotate, AppendLog, Mark, Goto, process, ImageInv
<1>8. CASE PostEvent /\ UNCHANGED alertmanager
  <2>1. UNCHANGED <<recent, commit, running>> /\ pc = "register" /\ pc' = "wait"
    BY <1>8 DEF PostEvent, Goto
  <2>2. PICK r \in Requests : inbox' = Append(inbox, r) /\ r.commit = commit
    BY <1>8, SentByScript
  <2> QED
    BY <2>1, <2>2, Sent DEF ImageInv
<1>9. CASE EventHandled /\ UNCHANGED alertmanager
  <2>1. /\ inbox # <<>> /\ inbox' = Tail(inbox) /\ Head(inbox).kind = "deploy-event"
        /\ recent' = Trim(<<Head(inbox).commit>> \o recent) /\ UNCHANGED <<commit, running>>
    BY <1>9 DEF EventHandled, HandleDeployEvent, Next1
  <2>2. pc' = pc \/ (pc = "wait" /\ pc' = "annotate")
    BY <1>9 DEF EventHandled, Goto
  <2>3. Head(inbox).commit = running /\ Head(inbox).commit \in Commits
    BY <2>1, Taken, RequestFacts DEF ImageInv
  <2>4. \A i \in DOMAIN recent' : recent'[i] = running
    BY <2>1, <2>3, TrimFacts DEF ImageInv, TypeOK, ProcessTypeOK
  <2> QED
    BY <2>1, <2>2, <2>4, Taken DEF ImageInv
<1>10. CASE Kill /\ UNCHANGED alertmanager
  BY <1>10, AbandonFacts DEF Kill, ImageInv
<1>11. CASE EndProcess /\ ConnectionReset
  <2>1. inbox' = <<>> /\ recent' = <<>>
    BY <1>11 DEF EndProcess, RecreateAutopilot, CrashAutopilot, RollBack, ProcessEnds
  <2>2. /\ pc' \notin {"idle", "up"} => commit' = running'
        /\ pc' # "idle" => commit' \in Commits
    BY <1>11 DEF EndProcess, RecreateAutopilot, CrashAutopilot, RollBack, Goto, ImageInv
  <2> QED
    BY <2>1, <2>2 DEF ImageInv
<1>12. CASE Acknowledged /\ UNCHANGED script
  BY <1>2, <1>12 DEF Acknowledged, AnswerWebhook, script
<1>13. CASE \/ (\E a \in Alerts : Diagnose(a)) /\ UNCHANGED <<alertmanager, script>>
            \/ Flush /\ UNCHANGED script
            \/ (\E a \in Alerts : AlertFires(a) \/ AlertResolves(a)) /\ UNCHANGED script
            \/ Scrape /\ UNCHANGED alertmanager
            \/ UNCHANGED vars
  BY <1>2, <1>13 DEF Diagnose, Flush, AlertFires, AlertResolves, Scrape, vars, process, script
<1> QED
  BY <1>1, <1>3, <1>4, <1>5, <1>6, <1>7, <1>8, <1>9, <1>10, <1>11, <1>12, <1>13
     DEF Next, Handle, Notify, RunScript

(* A kill leaves an event behind and cuts its commit; everything else keeps the order. *)
LEMMA WaitStep ==
    ASSUME TypeOK, ImageInv, WaitInv, [Next]_vars PROVE WaitInv'
<1> USE DEF Event
<1>0. \A i \in DOMAIN inbox : i \in Nat /\ inbox[i].live \in BOOLEAN
                           /\ inbox[i].kind \in {"webhook", "deploy-event"}
  <2>1. inbox \in Seq(Requests)
    BY DEF TypeOK, ProcessTypeOK, Requests
  <2>2. \A i \in DOMAIN inbox : i \in Nat /\ inbox[i] \in Requests
    BY <2>1
  <2> QED
    BY <2>2, RequestFacts
<1>1. CASE TakeWebhook /\ UNCHANGED <<alertmanager, script>>
  <2>1. inbox # <<>> /\ inbox' = Tail(inbox) /\ UNCHANGED <<pc, cut>>
    BY <1>1 DEF TakeWebhook, Next1, script
  <2> QED
    BY <2>1, Taken DEF WaitInv
<1>2. CASE UNCHANGED <<inbox, pc, cut>>
  BY <1>2 DEF WaitInv
<1>3. CASE Send /\ UNCHANGED script
  <2>1. UNCHANGED <<pc, cut>>
    BY <1>3 DEF Send, script
  <2>2. PICK r \in Requests : inbox' = Append(inbox, r) /\ r.kind = "webhook"
    BY <1>3, SentByFlight
  <2> QED
    BY <2>1, <2>2, Sent DEF WaitInv
<1>4. CASE GiveUp /\ UNCHANGED script
  <2>1. /\ DOMAIN inbox' = DOMAIN inbox
        /\ \A i \in DOMAIN inbox : Event(i)' => Event(i) /\ inbox'[i] = inbox[i]
    BY <1>0, <1>4, AbandonFacts DEF GiveUp
  <2>2. UNCHANGED <<pc, cut>>
    BY <1>4 DEF script
  <2> QED
    BY <2>1, <2>2 DEF WaitInv
<1>5. CASE (StartRun \/ UpAutopilot \/ ChecksPass \/ SkipDuplicate \/ AppendLog)
           /\ UNCHANGED alertmanager
  BY <1>5 DEF StartRun, UpAutopilot, ChecksPass, SkipDuplicate, AppendLog, Goto, process, WaitInv
<1>6. CASE PostFails /\ UNCHANGED alertmanager
  BY <1>6 DEF PostFails, Goto, process, WaitInv
<1>7. CASE (Annotate \/ Mark) /\ UNCHANGED alertmanager
  BY <1>7 DEF Annotate, Mark, Goto, process, WaitInv
<1>8. CASE PostEvent /\ UNCHANGED alertmanager
  <2>1. UNCHANGED cut /\ pc = "register" /\ pc' = "wait"
    BY <1>8 DEF PostEvent, Goto
  <2>2. PICK r \in Requests : inbox' = Append(inbox, r) /\ r.live = TRUE
    BY <1>8, SentByScript
  <2>3. \A i \in DOMAIN inbox : Event(i) => ~inbox[i].live
    BY <2>1 DEF WaitInv
  <2> QED
    BY <2>1, <2>2, <2>3, Sent DEF WaitInv
<1>9. CASE EventHandled /\ UNCHANGED alertmanager
  <2>1. /\ inbox # <<>> /\ inbox' = Tail(inbox) /\ Head(inbox).kind = "deploy-event"
        /\ UNCHANGED cut
    BY <1>9 DEF EventHandled, HandleDeployEvent, Next1
  <2>2. CASE Head(inbox).live
    <3>1. pc' = "annotate"
      BY <1>9, <2>2 DEF EventHandled, Goto
    <3>2. \A j \in DOMAIN inbox : Event(j) => j <= 1
      BY <2>1, <2>2, Taken DEF WaitInv
    <3>3. \A i \in DOMAIN inbox' : ~Event(i)'
      BY <2>1, <3>2, Taken
    <3> QED
      BY <3>1, <3>3 DEF WaitInv
  <2>3. CASE ~Head(inbox).live
    <3>1. pc' = pc
      BY <1>9, <2>3 DEF EventHandled
    <3> QED
      BY <2>1, <3>1, Taken DEF WaitInv
  <2> QED
    BY <2>2, <2>3
<1>10. CASE Kill /\ UNCHANGED alertmanager
  <2>1. /\ DOMAIN inbox' = DOMAIN inbox
        /\ \A i \in DOMAIN inbox : Event(i)' =>
              Event(i) /\ inbox'[i].live = FALSE /\ inbox'[i].commit = inbox[i].commit
    BY <1>0, <1>10, AbandonFacts DEF Kill
  <2>2. cut \subseteq cut' /\ pc' = "idle" /\ (pc = "wait" => running \in cut')
    BY <1>10 DEF Kill, ImageInv
  <2>3. \A i \in DOMAIN inbox : Event(i) => inbox[i].commit \in cut'
    BY <1>0, <2>2 DEF WaitInv, ImageInv
  <2> QED
    BY <2>1, <2>2, <2>3 DEF WaitInv
<1>11. CASE EndProcess /\ ConnectionReset
  <2>1. inbox' = <<>>
    BY <1>11 DEF EndProcess, RecreateAutopilot, CrashAutopilot, RollBack, ProcessEnds
  <2> QED
    BY <2>1 DEF WaitInv
<1>12. CASE Acknowledged /\ UNCHANGED script
  BY <1>2, <1>12 DEF Acknowledged, AnswerWebhook, script
<1>13. CASE \/ (\E a \in Alerts : Diagnose(a)) /\ UNCHANGED <<alertmanager, script>>
            \/ Flush /\ UNCHANGED script
            \/ (\E a \in Alerts : AlertFires(a) \/ AlertResolves(a)) /\ UNCHANGED script
            \/ Scrape /\ UNCHANGED alertmanager
            \/ UNCHANGED vars
  BY <1>2, <1>13 DEF Diagnose, Flush, AlertFires, AlertResolves, Scrape, vars, process, script
<1> QED
  BY <1>1, <1>3, <1>4, <1>5, <1>6, <1>7, <1>8, <1>9, <1>10, <1>11, <1>12, <1>13
     DEF Next, Handle, Notify, RunScript

(* The marker is written behind the event, and the next commit is posted behind the marker. *)
LEMMA MarkerStep ==
    ASSUME TypeOK, ImageInv, WaitInv, MarkerInv, [Next]_vars PROVE MarkerInv'
<1> USE DEF Event
<1>1. CASE UNCHANGED script
  BY <1>1 DEF script, MarkerInv
<1>2. CASE (StartRun \/ UpAutopilot \/ ChecksPass \/ SkipDuplicate \/ AppendLog \/ Scrape)
           /\ UNCHANGED alertmanager
  BY <1>2 DEF StartRun, UpAutopilot, ChecksPass, SkipDuplicate, AppendLog, Scrape, Goto, MarkerInv
<1>3. CASE (PostEvent \/ PostFails) /\ UNCHANGED alertmanager
  BY <1>3 DEF PostEvent, PostFails, Goto, AlreadyRegistered, MarkerInv
<1>4. CASE (Annotate \/ Mark) /\ UNCHANGED alertmanager
  BY <1>4 DEF Annotate, Mark, Goto, MarkerInv
<1>5. CASE EventHandled /\ UNCHANGED alertmanager
  <2>1. /\ inbox # <<>> /\ inbox' = Tail(inbox) /\ Head(inbox).kind = "deploy-event"
        /\ registered' = registered \cup {Head(inbox).commit}
        /\ UNCHANGED <<commit, marker, cut>>
    BY <1>5 DEF EventHandled, HandleDeployEvent, Next1
  <2>2. 1 \in DOMAIN inbox /\ inbox[1] = Head(inbox) /\ Event(1)
    BY <2>1, Taken
  <2>3. CASE Head(inbox).live
    <3>1. pc = "wait" /\ pc' = "annotate" /\ Head(inbox).commit = commit
      BY <1>5, <2>2, <2>3 DEF EventHandled, Goto, WaitInv, ImageInv
    <3> QED
      BY <2>1, <3>1 DEF MarkerInv
  <2>4. CASE ~Head(inbox).live
    <3>1. pc' = pc /\ Head(inbox).commit \in cut
      BY <1>5, <2>2, <2>4 DEF EventHandled, WaitInv
    <3> QED
      BY <2>1, <3>1 DEF MarkerInv
  <2> QED
    BY <2>3, <2>4
<1>6. CASE Kill /\ UNCHANGED alertmanager
  BY <1>6 DEF Kill, MarkerInv
<1>7. CASE EndProcess /\ ConnectionReset
  BY <1>7 DEF EndProcess, RecreateAutopilot, CrashAutopilot, RollBack, Goto, MarkerInv
<1>8. CASE UNCHANGED vars
  BY <1>1, <1>8 DEF vars
<1> QED
  BY <1>1, <1>2, <1>3, <1>4, <1>5, <1>6, <1>7, <1>8 DEF Next, RunScript

(* A flush is sent when no request waits for an answer any more. *)
LEMMA FlightStep ==
    ASSUME TypeOK, ImageInv, FlightInv, [Next]_vars PROVE FlightInv'
<1> USE DEF Hook
<1>0. /\ \A i \in DOMAIN inbox : i \in Nat /\ inbox[i].live \in BOOLEAN
                              /\ inbox[i].kind \in {"webhook", "deploy-event"}
      /\ serving # None => serving \in Webhooks /\ serving.live \in BOOLEAN
  <2>1. inbox \in Seq(Requests) /\ serving \in Webhooks \cup {None}
    BY DEF TypeOK, ProcessTypeOK, Requests
  <2>2. \A i \in DOMAIN inbox : i \in Nat /\ inbox[i] \in Requests
    BY <2>1
  <2> QED
    BY <2>1, <2>2, RequestFacts DEF Requests
<1>1. CASE TakeWebhook /\ UNCHANGED <<alertmanager, script>>
  <2>1. /\ inbox # <<>> /\ inbox' = Tail(inbox) /\ Head(inbox).kind = "webhook"
        /\ serving = None /\ serving' = Head(inbox) /\ todo' = Head(inbox).firing
        /\ recorded' = recorded \cup Observed(Head(inbox))
        /\ UNCHANGED <<flight, attempted>>
    BY <1>1 DEF TakeWebhook, Next1, Idle, alertmanager
  <2>2. 1 \in DOMAIN inbox /\ inbox[1] = Head(inbox) /\ Hook(1)
    BY <2>1, Taken
  <2>3. ASSUME Head(inbox).live
        PROVE  /\ flight.conn = "open"
               /\ Head(inbox).firing = flight.snapshot.firing
               /\ Head(inbox).resolved = flight.snapshot.resolved
               /\ Head(inbox).long = flight.snapshot.long
               /\ \A j \in DOMAIN inbox : Hook(j) /\ inbox[j].live => j = 1
    BY <2>2, <2>3 DEF FlightInv
  <2>4. \A i \in DOMAIN inbox' : Head(inbox).live => ~(Hook(i)' /\ inbox'[i].live)
    BY <2>1, <2>3, Taken
  <2>5. ASSUME NEW i \in DOMAIN inbox', Hook(i)', inbox'[i].live
        PROVE  /\ flight.conn = "open"
               /\ inbox'[i].firing = flight.snapshot.firing
               /\ inbox'[i].resolved = flight.snapshot.resolved
               /\ inbox'[i].long = flight.snapshot.long
               /\ \A j \in DOMAIN inbox' : Hook(j)' /\ inbox'[j].live => j = i
    BY <2>1, <2>5, Taken DEF FlightInv
  <2>6. Head(inbox).live =>
           Observed(flight.snapshot) \subseteq recorded' /\ flight.snapshot.firing \subseteq todo'
    BY <2>1, <2>3 DEF Observed
  <2> QED
    BY <2>1, <2>3, <2>4, <2>5, <2>6 DEF FlightInv, Observed
<1>2. CASE (\E a \in Alerts : Diagnose(a)) /\ UNCHANGED <<alertmanager, script>>
  BY <1>2 DEF Diagnose, StayInLoop, alertmanager, FlightInv
<1>3. CASE Acknowledged /\ UNCHANGED script
  <2>1. serving # None /\ serving' = None /\ UNCHANGED inbox
    BY <1>3 DEF Acknowledged, AnswerWebhook, Idle
  <2>2. CASE serving.live
    BY <1>0, <2>1, <2>2 DEF FlightInv
  <2>3. CASE ~serving.live
    BY <1>3, <2>1, <2>3 DEF Acknowledged, alertmanager, FlightInv
  <2> QED
    BY <2>2, <2>3
<1>4. CASE Flush /\ UNCHANGED script
  <2>1. flight.conn = "none" /\ UNCHANGED <<inbox, serving>>
    BY <1>4 DEF Flush
  <2> QED
    BY <2>1 DEF FlightInv
<1>5. CASE Send /\ UNCHANGED script
  <2>1. /\ flight.conn = "to_send" /\ flight'.conn = "open" /\ flight'.snapshot = flight.snapshot
        /\ UNCHANGED serving
    BY <1>5 DEF Send, TypeOK, DeliveryTypeOK
  <2>2. PICK r \in Requests : /\ inbox' = Append(inbox, r)
                             /\ r.firing = flight.snapshot.firing
                             /\ r.resolved = flight.snapshot.resolved
                             /\ r.long = flight.snapshot.long
    BY <1>5, SentByFlight
  <2>3. \A i \in DOMAIN inbox : ~(Hook(i) /\ inbox[i].live)
    BY <2>1 DEF FlightInv
  <2>4. serving # None => ~serving.live
    BY <2>1 DEF FlightInv
  <2> QED
    BY <2>1, <2>2, <2>3, <2>4, Sent DEF FlightInv
<1>6. CASE GiveUp /\ UNCHANGED script
  <2>1. /\ DOMAIN inbox' = DOMAIN inbox
        /\ \A i \in DOMAIN inbox : Hook(i)' => inbox'[i].live = FALSE
    BY <1>0, <1>6, AbandonFacts DEF GiveUp
  <2>2. serving' # None => serving'.live = FALSE
    <3>1. CASE Idle
      BY <1>6, <3>1 DEF GiveUp, Abandon, Idle
    <3>2. CASE ~Idle
      <4>1. serving' = [serving EXCEPT !.live = FALSE] /\ serving \in Webhooks
        BY <1>0, <1>6, <3>2 DEF GiveUp, Abandon, Idle
      <4> QED
        BY <4>1, OrphanFacts DEF Requests
    <3> QED
      BY <3>1, <3>2
  <2> QED
    BY <2>1, <2>2 DEF FlightInv
<1>7. CASE (\E a \in Alerts : AlertFires(a) \/ AlertResolves(a)) /\ UNCHANGED script
  <2>1. flight \in Flights
    BY DEF TypeOK, DeliveryTypeOK
  <2>2. UNCHANGED process /\ flight'.snapshot = flight.snapshot /\ flight'.conn = flight.conn
    BY <1>7, <2>1 DEF AlertFires, AlertResolves, Flights
  <2> QED
    BY <2>2 DEF process, Observed, FlightInv
<1>8. CASE UNCHANGED <<process, flight>>
  BY <1>8 DEF process, FlightInv
<1>9. CASE (\/ StartRun \/ UpAutopilot \/ ChecksPass \/ SkipDuplicate \/ PostFails
            \/ Annotate \/ Mark \/ AppendLog \/ Scrape) /\ UNCHANGED alertmanager
  BY <1>8, <1>9 DEF StartRun, UpAutopilot, ChecksPass, SkipDuplicate, PostFails, Annotate, Mark,
                    AppendLog, Scrape, alertmanager
<1>10. CASE PostEvent /\ UNCHANGED alertmanager
  <2>1. UNCHANGED <<flight, serving, todo, attempted, recorded>>
    BY <1>10 DEF PostEvent, alertmanager
  <2>2. PICK r \in Requests : inbox' = Append(inbox, r) /\ r.kind = "deploy-event"
    BY <1>10, SentByScript
  <2> QED
    BY <2>1, <2>2, Sent DEF FlightInv
<1>11. CASE EventHandled /\ UNCHANGED alertmanager
  <2>1. /\ inbox # <<>> /\ inbox' = Tail(inbox)
        /\ UNCHANGED <<flight, serving, todo, attempted, recorded>>
    BY <1>11 DEF EventHandled, HandleDeployEvent, Next1, alertmanager
  <2>2. ASSUME NEW i \in DOMAIN inbox', Hook(i)', inbox'[i].live
        PROVE  /\ flight.conn = "open"
               /\ inbox'[i].firing = flight.snapshot.firing
               /\ inbox'[i].resolved = flight.snapshot.resolved
               /\ inbox'[i].long = flight.snapshot.long
               /\ \A j \in DOMAIN inbox' : Hook(j)' /\ inbox'[j].live => j = i
               /\ serving # None => ~serving.live
    BY <2>1, <2>2, Taken DEF FlightInv
  <2> QED
    BY <2>1, <2>2 DEF FlightInv
<1>12. CASE Kill /\ UNCHANGED alertmanager
  <2>1. /\ DOMAIN inbox' = DOMAIN inbox
        /\ \A i \in DOMAIN inbox : Hook(i)' => Hook(i) /\ inbox'[i] = inbox[i]
    BY <1>0, <1>12, AbandonFacts DEF Kill
  <2>2. UNCHANGED <<flight, serving, todo, attempted, recorded>>
    BY <1>12 DEF Kill, Abandon, alertmanager
  <2> QED
    BY <2>1, <2>2 DEF FlightInv
<1>13. CASE EndProcess /\ ConnectionReset
  <2>1. inbox' = <<>> /\ serving' = None
    BY <1>13 DEF EndProcess, RecreateAutopilot, CrashAutopilot, RollBack, ProcessEnds
  <2> QED
    BY <2>1 DEF FlightInv
<1>14. CASE UNCHANGED vars
  BY <1>8, <1>14 DEF vars, alertmanager
<1> QED
  BY <1>1, <1>2, <1>3, <1>4, <1>5, <1>6, <1>7, <1>9, <1>10, <1>11, <1>12, <1>13, <1>14
     DEF Next, Handle, Notify, RunScript

-----------------------------------------------------------------------------
(* The parts together are inductive. *)
THEOREM SystemInvariant == Spec => []SystemInv
<1>1. SystemInv /\ [Next]_vars => SystemInv'
  BY TypeStep, ImageStep, WaitStep, MarkerStep, FlightStep DEF SystemInv
<1> QED
  BY <1>1, InitInv, PTL DEF Spec

(* The process, AlertManager's group and deploy.sh keep their types, and the
   deploy history its length. *)
THEOREM AutopilotTypeOK == Spec => []TypeOK
BY SystemInvariant, PTL DEF SystemInv

(* The deploy context of a diagnosis (main.py, _recent_deploys) names no version
   but the one that runs. *)
THEOREM HistoryNamesTheRunningImage == Spec => []HistoryIsOfRunningImage
<1>1. SystemInv => HistoryIsOfRunningImage
  BY DEF SystemInv, ImageInv, HistoryIsOfRunningImage
<1> QED
  BY <1>1, SystemInvariant, PTL

(* deploy.sh's marker: a commit is not registered again before another one,
   unless a run that registered it was killed before it wrote the marker. *)
THEOREM RegisteredOnce == Spec => NoDoubleCount
<1> DEFINE Once == events' # events => Head(inbox).commit \notin registered \ cut
<1>1. ASSUME SystemInv, [Next]_vars PROVE [Once]_vars
  <2> SUFFICES ASSUME events' # events PROVE Head(inbox).commit \notin registered \ cut
    OBVIOUS
  <2>1. EventHandled
    BY <1>1
       DEF Next, Handle, Notify, RunScript, EndProcess, vars, script, StartRun, UpAutopilot,
           ChecksPass, SkipDuplicate, PostEvent, PostFails, Annotate, Mark, AppendLog, Kill,
           Scrape, RecreateAutopilot, CrashAutopilot, RollBack
  <2>2. /\ inbox # <<>> /\ Head(inbox).kind = "deploy-event"
        /\ 1 \in DOMAIN inbox /\ inbox[1] = Head(inbox)
    BY <1>1, <2>1, Taken DEF EventHandled, HandleDeployEvent, Next1, SystemInv
  <2>3. CASE Head(inbox).live
    <3>1. pc = "wait" /\ Head(inbox).commit = commit /\ marker # commit
      BY <1>1, <2>2, <2>3 DEF SystemInv, WaitInv, ImageInv, MarkerInv, Event
    <3> QED
      BY <1>1, <3>1 DEF SystemInv, MarkerInv
  <2>4. CASE ~Head(inbox).live
    BY <1>1, <2>2, <2>4 DEF SystemInv, WaitInv, Event
  <2> QED
    BY <2>3, <2>4
<1> QED
  BY <1>1, SystemInvariant, PTL DEF Spec, NoDoubleCount

(* What AlertManager's notification log says was delivered, the autopilot has
   worked through: no crash, deploy, deadline or failed diagnosis in between
   makes it forget an alert (main.py, webhook). *)
THEOREM NotifiedIsAttempted == Spec => NotifiedMeansAttempted
<1> DEFINE Done == log' # log => /\ flight.snapshot.firing \subseteq attempted
                                 /\ Observed(flight.snapshot) \subseteq recorded
<1>1. ASSUME SystemInv, [Next]_vars PROVE [Done]_vars
  <2> SUFFICES ASSUME log' # log
               PROVE  /\ flight.snapshot.firing \subseteq attempted
                      /\ Observed(flight.snapshot) \subseteq recorded
    OBVIOUS
  <2>1. Acknowledged
    BY <1>1
       DEF Next, Handle, Notify, vars, alertmanager, Flush, Send, GiveUp, AlertFires,
           AlertResolves, ConnectionReset
  <2>2. serving # None /\ serving.live /\ todo = {}
    BY <2>1 DEF Acknowledged, AnswerWebhook, Idle, alertmanager
  <2> QED
    BY <1>1, <2>2 DEF SystemInv, FlightInv
<1> QED
  BY <1>1, SystemInvariant, PTL DEF Spec, NotifiedMeansAttempted
=============================================================================
