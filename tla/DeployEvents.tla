----------------------------- MODULE DeployEvents -----------------------------
(***************************************************************************)
(* The last part of deploy.sh, which registers a deploy with the autopilot *)
(* that the same run has just recreated: an event, a Grafana annotation, a *)
(* marker file against registering it twice, a line in the local log. And  *)
(* Prometheus, whose samples of deployments_total feed the DORA dashboard. *)
(* The deploy itself is module Deploy; here it succeeds or is rolled back. *)
(***************************************************************************)
EXTENDS Autopilot

CONSTANTS
    MaxRuns,    \* bound: how many times deploy.sh is started
    MaxCrashes  \* bound: how many times the container crashes

ASSUME EventsAssumption == MaxRuns \in Nat /\ MaxCrashes \in Nat

VARIABLES
    pc, commit,  \* the run of deploy.sh, and its IMAGE_TAG
    runs,        \* runs started
    crashes,     \* crashes of the autopilot
    running,     \* the image that the autopilot's container runs
    marker,      \* .last-registered-deploy
    prom,        \* Prometheus: last sample of deployments_total, its increase(), and
                 \* (history) whether every event has had a scrape after it
    events,      \* history: deploy events handled
    registered,  \* history: commits with an event since the marker was last written
    cut          \* history: commits whose run was killed before it wrote the marker

script == <<pc, commit, runs, crashes, running, marker, prom, events, registered, cut>>

Steps == {"idle", "up", "check", "register", "wait", "annotate", "mark", "log"}

ScriptTypeOK ==
    /\ pc \in Steps
    /\ commit \in Commits \cup {None}
    /\ runs \in 0 .. MaxRuns /\ crashes \in 0 .. MaxCrashes
    /\ running \in Commits \cup {None}
    /\ marker \in Commits \cup {None}
    /\ prom \in [last : Nat, increase : Nat, seen : {"all", "behind", "missed"}]
    /\ events \in Nat
    /\ registered \in SUBSET Commits /\ cut \in SUBSET Commits

ScriptInit ==
    /\ pc = "idle" /\ commit = None /\ runs = 0 /\ crashes = 0
    /\ running = None /\ marker = None
    /\ prom = [last |-> 0, increase |-> 0, seen |-> "all"]
    /\ events = 0 /\ registered = {} /\ cut = {}

-----------------------------------------------------------------------------
Goto(from, to) == pc = from /\ pc' = to

StartRun ==
    /\ Goto("idle", "up") /\ runs < MaxRuns
    /\ runs' = runs + 1
    /\ commit' \in Commits
    /\ UNCHANGED <<crashes, running, marker, prom, events, registered, cut, process>>

(* docker compose up -d llm-alert-autopilot: another image is another container. *)
KeepsContainer(c) == FALSE
Recreates(c) == running # c

UpAutopilot ==
    /\ Goto("up", "check") /\ ~Recreates(commit)
    /\ UNCHANGED <<commit, runs, crashes, running, marker, prom, events, registered, cut, process>>

RecreateAutopilot ==
    /\ Goto("up", "check") /\ Recreates(commit)
    /\ running' = commit
    /\ ProcessEnds
    /\ UNCHANGED <<commit, runs, crashes, marker, prom, events, registered, cut>>

(* The checks fail, now or later by hand: another image comes back, with a new
   container, and the run registers nothing. *)
RollBack(c) ==
    /\ pc \in {"idle", "check"} /\ pc' = "idle"
    /\ pc = "idle" => runs < MaxRuns
    /\ runs' = IF pc = "idle" THEN runs + 1 ELSE runs
    /\ Recreates(c) /\ running # None
    /\ running' = c
    /\ ProcessEnds
    /\ UNCHANGED <<commit, crashes, marker, prom, events, registered, cut>>

ChecksPass ==
    /\ Goto("check", "register")
    /\ UNCHANGED <<commit, runs, crashes, running, marker, prom, events, registered, cut, process>>

NeverRegistered == FALSE
AlreadyRegistered == marker = commit

SkipDuplicate ==
    /\ Goto("register", "log") /\ AlreadyRegistered
    /\ UNCHANGED <<commit, runs, crashes, running, marker, prom, events, registered, cut, process>>

(* curl -sf -X POST, without a time limit: it waits for the event loop. *)
PostEvent ==
    /\ Goto("register", "wait") /\ ~AlreadyRegistered
    /\ inbox' = Append(inbox, [kind |-> "deploy-event", commit |-> commit, live |-> TRUE])
    /\ UNCHANGED <<commit, runs, crashes, running, marker, prom, events, registered, cut,
                   serving, todo, recent, counted, attempted, recorded>>

(* || true: the container is down at this moment, so no other request waits in it. *)
PostFails ==
    /\ Goto("register", "annotate") /\ ~AlreadyRegistered
    /\ Idle /\ inbox = <<>>
    /\ UNCHANGED <<commit, runs, crashes, running, marker, prom, events, registered, cut, process>>

EventHandled ==
    /\ HandleDeployEvent
    /\ events' = events + 1
    /\ registered' = registered \cup {Head(inbox).commit}
    /\ prom' = [prom EXCEPT !.seen = IF @ = "all" THEN "behind" ELSE "missed"]
    /\ IF Head(inbox).live THEN Goto("wait", "annotate") ELSE UNCHANGED pc
    /\ UNCHANGED <<commit, runs, crashes, running, marker, cut>>

(* The Grafana annotation: best effort, ten seconds. *)
Annotate ==
    /\ Goto("annotate", "mark")
    /\ UNCHANGED <<commit, runs, crashes, running, marker, prom, events, registered, cut, process>>

Mark ==
    /\ Goto("mark", "log")
    /\ marker' = commit
    /\ registered' = {commit} \cap registered
    /\ cut' = cut \ {commit}
    /\ UNCHANGED <<commit, runs, crashes, running, prom, events, process>>

AppendLog ==
    /\ Goto("log", "idle")
    /\ UNCHANGED <<commit, runs, crashes, running, marker, prom, events, registered, cut, process>>

(* The SSM command's time limit, or a reboot. *)
Kill ==
    /\ pc # "idle" /\ pc' = "idle"
    /\ cut' = IF pc \in {"wait", "annotate", "mark"} THEN cut \cup {commit} ELSE cut
    /\ Abandon("deploy-event")
    /\ UNCHANGED <<commit, runs, crashes, running, marker, prom, events, registered,
                   todo, recent, counted, attempted, recorded>>

(* The process crashes and Docker starts it again: curl sees a reset. *)
CrashAutopilot ==
    /\ crashes < MaxCrashes /\ crashes' = crashes + 1
    /\ ProcessEnds
    /\ pc' = IF pc = "wait" THEN "annotate" ELSE pc
    /\ UNCHANGED <<commit, runs, running, marker, prom, events, registered, cut>>

(* Prometheus scrapes, when the event loop is free to answer. increase() adds up
   the differences between samples; a smaller sample is a restart from zero. A
   series that does not exist gives no sample. *)
Grown(last, now) == IF last = 0 THEN 0 ELSE IF now < last THEN now ELSE now - last

Scrape ==
    /\ Idle
    /\ prom' = IF counted = 0
               THEN [prom EXCEPT !.seen = IF @ = "all" THEN "all" ELSE "missed"]
               ELSE [last |-> counted,
                     increase |-> prom.increase + Grown(prom.last, counted),
                     seen |-> IF prom.seen = "missed" THEN "missed" ELSE "all"]
    /\ prom' # prom
    /\ UNCHANGED <<pc, commit, runs, crashes, running, marker, events, registered, cut, process>>
=============================================================================
