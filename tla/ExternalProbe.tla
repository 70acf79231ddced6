---------------------------- MODULE ExternalProbe ----------------------------
(***************************************************************************)
(* apps/lambda/external_probe, one invocation after the other, in discrete *)
(* time. A request gets through the first `reach` layers in front of and   *)
(* behind the load balancer; the checks are ordered from the outside in.   *)
(***************************************************************************)
EXTENDS Integers

CONSTANTS
    Checks,     \* how many CHECKS
    CheckTicks, \* TIMEOUT_SECONDS, in ticks: of one socket operation, not of a check
    Pause,      \* RETRY_AFTER_SECONDS
    SlackTicks, \* the time limit of the message
    Limit       \* the function's time limit

ASSUME ProbeAssumption ==
    /\ Checks \in Nat \ {0} /\ {CheckTicks, Pause, SlackTicks, Limit} \subseteq Nat
    /\ CheckTicks < Pause /\ SlackTicks <= Pause

(* "Worst case is three checks timing out twice with a pause between: (3 x 5 s) +
   20 s + (3 x 5 s) = 50 s", and the limit is 60 s (main.tf:86-88). *)
ASSUME LimitAssumption == 2 * (Checks * CheckTicks) + Pause < Limit

VARIABLES
    reach,   \* how many of the paths answer 200
    pc,
    t,       \* ticks since the invocation began
    spent,   \* ticks spent in the current step
    path,    \* the next to be checked
    round,
    failed,  \* the paths that failed in this round or, after it, in the last
    (* History, read by the properties only: since the invocation began and as
       long as it asks, *)
    outages, \* per path: how often it has been down, up to two
    down,    \* per path: the ticks of its last outage, up to Pause
    best,    \* the largest reach
    slow     \* a check took longer than its timeout

history == <<outages, down, best, slow>>
probe == <<reach, history, pc, t, spent, path, round, failed>>

Paths == 1 .. Checks
Least(a, b) == IF a < b THEN a ELSE b

ProbeTypeOK ==
    /\ reach \in 0 .. Checks
    /\ pc \in {"idle", "check", "sleep", "webhook", "slack"}
    /\ t \in 0 .. Limit /\ spent \in 0 .. Pause
    /\ path \in 1 .. Checks + 1 /\ round \in 1 .. 2
    /\ failed \subseteq Paths
    /\ down \in [Paths -> 0 .. Pause]
    /\ outages \in [Paths -> 0 .. 2] /\ best \in 0 .. Checks /\ slow \in BOOLEAN

Quiet ==
    /\ pc = "idle" /\ t = 0 /\ spent = 0 /\ path = 1 /\ round = 1
    /\ failed = {}

ProbeInit ==
    /\ reach = Checks /\ best = reach /\ Quiet
    /\ down = [p \in Paths |-> 0] /\ outages = down /\ slow = FALSE

-----------------------------------------------------------------------------
Goto(step) == pc' = step /\ spent' = 0

Watch ==
    /\ outages' = [p \in Paths |-> IF reach < p THEN 1 ELSE 0]
    /\ down' = [p \in Paths |-> 0]
    /\ best' = reach /\ slow' = FALSE

Forget ==
    /\ outages' = [p \in Paths |-> 0]
    /\ down' = outages' /\ best' = Checks /\ slow' = FALSE

(* EventBridge invokes it every five minutes. *)
Invoke ==
    /\ pc = "idle"
    /\ Goto("check")
    /\ Watch
    /\ UNCHANGED <<reach, t, path, round, failed>>

(* check(): the answer, or the error after which it gives up. In the second round
   only the paths that failed are asked again. *)
Due == path \in Paths /\ (round = 1 \/ path \in failed)
Asked(p) == IF reach < p THEN failed \cup {p} ELSE failed \ {p}

Check ==
    /\ pc = "check" /\ Due
    /\ failed' = Asked(path)
    /\ path' = path + 1 /\ spent' = 0
    /\ UNCHANGED <<reach, history, pc, t, round>>

Skip ==
    /\ pc = "check" /\ path \in Paths /\ ~Due
    /\ path' = path + 1
    /\ UNCHANGED <<reach, history, pc, t, spent, round, failed>>

End ==
    /\ pc' = "idle" /\ t' = 0 /\ spent' = 0 /\ path' = 1 /\ round' = 1
    /\ failed' = {}
    /\ Forget /\ UNCHANGED reach

(* Back to where the invocation is counted as a success: all answered. *)
Succeed ==
    /\ pc = "check" /\ path > Checks /\ failed = {}
    /\ End

RetryLeft(n) == n < 2

Sleep ==
    /\ pc = "check" /\ path > Checks /\ failed # {} /\ RetryLeft(round)
    /\ Goto("sleep")
    /\ UNCHANGED <<reach, history, t, path, round, failed>>

AtOnce == TRUE
PauseOver == spent = Pause

Retry ==
    /\ pc = "sleep" /\ PauseOver
    /\ Goto("check") /\ path' = 1 /\ round' = 2
    /\ UNCHANGED <<reach, history, t, failed>>

(* notify_slack(); whatever becomes of the message, the handler then raises. *)
Notify ==
    /\ pc = "check" /\ path > Checks /\ failed # {} /\ ~RetryLeft(round)
    /\ Goto("webhook") /\ Forget
    /\ UNCHANGED <<reach, t, path, round, failed>>

Webhook ==
    /\ pc = "webhook"
    /\ Goto("slack")
    /\ UNCHANGED <<reach, history, t, path, round, failed>>

Raise ==
    /\ pc \in {"webhook", "slack"}
    /\ End

(* Lambda ends it at its time limit, and counts that as an error as well. *)
TimedOut ==
    /\ pc # "idle" /\ t = Limit
    /\ End

-----------------------------------------------------------------------------
Asking == pc \in {"check", "sleep"}

(* A layer goes or comes back. *)
Changes(r) ==
    /\ reach' = r
    /\ IF Asking
       THEN /\ outages' = [p \in Paths |->
                    IF r < p /\ p <= reach THEN Least(2, outages[p] + 1) ELSE outages[p]]
            /\ down' = [p \in Paths |-> IF r < p /\ p <= reach THEN 0 ELSE down[p]]
            /\ best' = IF r > best THEN r ELSE best
            /\ UNCHANGED slow
       ELSE UNCHANGED history
    /\ UNCHANGED <<pc, t, spent, path, round, failed>>

(* How long a step may last. urlopen's timeout is that of each connection, one per
   address the name has, and of each read, and the name is looked up without one:
   nothing bounds a check. boto3's own limits are longer than the function's. *)
MayLast ==
    CASE pc = "idle" -> 0
      [] pc = "check" -> IF Due THEN Limit ELSE 0
      [] pc = "sleep" -> Pause
      [] pc = "webhook" -> Limit
      [] pc = "slack" -> SlackTicks

TimePasses ==
    /\ IF pc = "idle" THEN UNCHANGED <<t, spent>>
       ELSE t < Limit /\ spent < MayLast /\ t' = t + 1 /\ spent' = Least(Pause, spent + 1)
    /\ down' = [p \in Paths |->
           IF Asking /\ reach < p THEN Least(Pause, down[p] + 1) ELSE down[p]]
    /\ slow' = (slow \/ (pc = "check" /\ spent >= CheckTicks))
    /\ UNCHANGED <<reach, outages, best, pc, path, round, failed>>

ProbeNext ==
    \/ Invoke \/ Check \/ Skip \/ Succeed \/ Sleep \/ Retry \/ Notify \/ Webhook
    \/ Raise \/ TimedOut \/ TimePasses
    \/ \E r \in 0 .. Checks : Changes(r)

-----------------------------------------------------------------------------
(* "One retry after a pause, so the few seconds nginx is recreated during a
   deploy do not page anyone" (handler.py:16-17): a probe that sends its message
   found each failed path down for the whole pause or down twice; one that
   succeeds saw every path answer, in whichever round; and Lambda cuts the asking
   short, with an error and no message, only where a check outlasted its timeout:
   the "worst case" of main.tf:86-88 is one of checks that do not. *)
ErrorsMeanOutage ==
    [][Asking =>
        /\ pc' = "idle" =>
               \/ path > Checks /\ failed = {} /\ best = Checks
               \/ t = Limit /\ slow
        /\ pc' = "webhook" => \A p \in failed : down[p] >= Pause \/ outages[p] >= 2]_probe
=============================================================================
