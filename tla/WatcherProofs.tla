----------------------------- MODULE WatcherProofs -----------------------------
(* What holds of the two watchers: of AuditAlerter for any calls, any number of
   copies and of attempts; of ExternalProbe for any number of paths and any
   durations within the function's limit. *)
EXTENDS Watchers, TLAPS

WatchersSpec == Init /\ [][Next]_vars

-----------------------------------------------------------------------------
(* AuditAlerter. *)

Invocations == [at : Places, failed : 0 .. Attempts]

(* Lambda is invoked for calls that were made and match, for nothing else. *)
DeliveredInv ==
    \A d \in Deliveries : invocation[d].at # "absent" => d[1] \in made /\ Matches(d[1])

(* An invocation that is not over has an attempt left. *)
AttemptInv ==
    \A d \in Deliveries : invocation[d].at # "done" => invocation[d].failed < Attempts

AuditInv == AuditTypeOK /\ DeliveredInv /\ AttemptInv

LEMMA DeliveryFacts ==
    \A d \in Deliveries : d[1] \in Calls
BY DEF Deliveries

LEMMA AuditInitInv == AuditInit => AuditInv
<1>1. 0 \in 0 .. Attempts /\ 0 < Attempts
  BY AuditAssumption
<1> QED
  BY <1>1 DEF AuditInit, AuditInv, AuditTypeOK, DeliveredInv, AttemptInv, At, Places

LEMMA MadeIsAccepted ==
    ASSUME AuditInv, NEW d \in Deliveries, invocation[d].at # "absent"
    PROVE  d[1] \in Accepted /\ d[1] \in Calls
BY DeliveryFacts DEF AuditInv, DeliveredInv, Matches, NameMatches, Accepted

(* A step of one invocation: it moves on, or it raises. *)
LEMMA MoveInv ==
    ASSUME AuditInv, NEW d \in Deliveries, NEW place \in Places \ {"absent"},
           invocation[d].at \notin {"absent", "done"}, Move(d, place), made' = made
    PROVE  /\ invocation' \in [Deliveries -> Invocations]
           /\ DeliveredInv' /\ AttemptInv'
<1>1. invocation \in [Deliveries -> Invocations] /\ invocation[d] \in Invocations
  BY DEF AuditInv, AuditTypeOK, Invocations
<1>2. PICK i \in Invocations : i = [invocation[d] EXCEPT !.at = place]
  BY <1>1 DEF Invocations
<1>3. invocation' = [invocation EXCEPT ![d] = i]
  BY <1>2, <1>1 DEF Move
<1>4. i.at = place /\ i.failed = invocation[d].failed
  BY <1>1, <1>2 DEF Invocations
<1>5. invocation[d].failed < Attempts /\ d[1] \in made /\ Matches(d[1])
  BY DEF AuditInv, AttemptInv, DeliveredInv
<1>6. /\ invocation' \in [Deliveries -> Invocations] /\ invocation'[d] = i
      /\ \A e \in Deliveries \ {d} : invocation'[e] = invocation[e]
  BY <1>1, <1>3
<1>7. \A c : Matches(c)' = Matches(c)
  BY DEF Matches, NameMatches
<1>8. DeliveredInv'
  BY <1>5, <1>6, <1>7 DEF AuditInv, DeliveredInv
<1>9. AttemptInv'
  BY <1>4, <1>5, <1>6 DEF AuditInv, AttemptInv
<1> QED
  BY <1>6, <1>8, <1>9

LEMMA RaisedInv ==
    ASSUME AuditInv, NEW d \in Deliveries,
           invocation[d].at \notin {"absent", "done"}, Raised(d), made' = made
    PROVE  /\ invocation' \in [Deliveries -> Invocations]
           /\ DeliveredInv' /\ AttemptInv'
           /\ parked' \in {parked, parked \cup {d[1]}}
<1>1. invocation \in [Deliveries -> Invocations] /\ invocation[d] \in Invocations
  BY DEF AuditInv, AuditTypeOK, Invocations
<1>2. invocation[d].failed \in Nat /\ invocation[d].failed < Attempts
  BY <1>1 DEF AuditInv, AttemptInv, Invocations
<1>3. PICK n \in 0 .. Attempts : n = invocation[d].failed + 1
  BY <1>2, AuditAssumption
<1>4. PICK i \in Invocations : i = At(IF n = Attempts THEN "done" ELSE "queued", n)
  <2>1. PICK place \in Places : place = IF n = Attempts THEN "done" ELSE "queued"
    BY DEF Places
  <2>2. At(place, n) \in Invocations
    BY <1>3 DEF At, Invocations
  <2> QED
    BY <2>1, <2>2
<1>5. /\ invocation' = [invocation EXCEPT ![d] = i]
      /\ parked' \in {parked, parked \cup {d[1]}}
  BY <1>3, <1>4 DEF Raised
<1>6. i.at \in {"done", "queued"} /\ (i.at # "done" => i.failed < Attempts)
  BY <1>3, <1>4, AuditAssumption DEF At
<1>7. d[1] \in made /\ Matches(d[1])
  BY DEF AuditInv, DeliveredInv
<1>8. /\ invocation' \in [Deliveries -> Invocations] /\ invocation'[d] = i
      /\ \A e \in Deliveries \ {d} : invocation'[e] = invocation[e]
  BY <1>1, <1>5
<1>9. \A c : Matches(c)' = Matches(c)
  BY DEF Matches, NameMatches
<1>10. DeliveredInv'
  BY <1>7, <1>8, <1>9 DEF AuditInv, DeliveredInv
<1>11. AttemptInv'
  BY <1>6, <1>8 DEF AuditInv, AttemptInv
<1> QED
  BY <1>5, <1>8, <1>10, <1>11

(* A call: whatever happens next is about calls made before, or about this one. *)
LEMMA CallInv ==
    ASSUME AuditInv, NEW c \in Calls, Call(c)
    PROVE  /\ AuditInv'
           /\ Accepted' \in {Accepted, Accepted \cup {c}}
<1>1. PICK n \in 1 .. Copies :
        invocation' = [d \in Deliveries |->
            IF d[1] = c /\ Matches(c) /\ d[2] <= n THEN At("queued", 0) ELSE invocation[d]]
  BY DEF Call
<1>2. At("queued", 0) \in Invocations /\ At("queued", 0).at = "queued" /\ At("queued", 0).failed = 0
      /\ 0 < Attempts
  BY AuditAssumption DEF At, Invocations, Places
<1>3. invocation \in [Deliveries -> Invocations]
  BY DEF AuditInv, AuditTypeOK, Invocations
<1>4. PICK q \in Invocations : q = At("queued", 0)
  BY <1>2
<1>5. \A d \in Deliveries :
        \/ d[1] = c /\ Matches(c) /\ invocation'[d] = q
        \/ invocation'[d] = invocation[d]
  BY <1>1, <1>4
<1>6. invocation' \in [Deliveries -> Invocations]
  BY <1>1, <1>3, <1>4
<1>7. made' = made \cup {c} /\ told' = told /\ parked' = parked
  BY DEF Call
<1>8. AuditTypeOK'
  BY <1>6, <1>7 DEF AuditInv, AuditTypeOK, Invocations
<1>9. \A x : Matches(x)' = Matches(x)
  BY DEF Matches, NameMatches
<1>10. DeliveredInv'
  BY <1>5, <1>7, <1>9 DEF AuditInv, DeliveredInv
<1>11. AttemptInv'
  BY <1>2, <1>4, <1>5 DEF AuditInv, AttemptInv
<1>12. Accepted' \in {Accepted, Accepted \cup {c}}
  <2>1. CASE EventName[c] \in RulePattern /\ c \notin ByTerraform \cup Unseen
    BY <1>7, <2>1 DEF Accepted
  <2>2. CASE ~(EventName[c] \in RulePattern /\ c \notin ByTerraform \cup Unseen)
    BY <1>7, <2>2 DEF Accepted
  <2> QED
    BY <2>1, <2>2
<1> QED
  BY <1>8, <1>10, <1>11, <1>12 DEF AuditInv

(* What a step of an invocation does to Slack and to the queue. *)
LEMMA InvocationInv ==
    ASSUME AuditInv, NEW d \in Deliveries, Invocation(d)
    PROVE  /\ AuditInv'
           /\ Accepted' = Accepted /\ d[1] \in Accepted /\ d[1] \in Calls
           /\ told' \in {told, told \cup {d[1]}}
           /\ parked' \in {parked, parked \cup {d[1]}}
<1>0. made' = made /\ invocation[d].at \notin {"absent", "done"}
  BY DEF Invocation, Handle, GetWebhook, Post
<1>1. d[1] \in Accepted /\ d[1] \in Calls /\ Accepted' = Accepted
  BY <1>0, MadeIsAccepted DEF Accepted
<1>2. /\ told' \in {told, told \cup {d[1]}}
      /\ \/ Raised(d)
         \/ parked' = parked /\ \E place \in Places \ {"absent"} : Move(d, place)
  BY DEF Invocation, Handle, GetWebhook, Post, Places
<1>3. /\ invocation' \in [Deliveries -> Invocations] /\ DeliveredInv' /\ AttemptInv'
      /\ parked' \in {parked, parked \cup {d[1]}}
  BY <1>0, <1>2, MoveInv, RaisedInv
<1>4. AuditTypeOK'
  BY <1>0, <1>1, <1>2, <1>3 DEF AuditInv, AuditTypeOK, Invocations
<1> QED
  BY <1>1, <1>2, <1>3, <1>4 DEF AuditInv

LEMMA AuditNextInv == AuditInv /\ [AuditNext]_audit => AuditInv' /\ [Alerts!Next]_Alerts!vars
<1> SUFFICES ASSUME AuditInv, [AuditNext]_audit PROVE AuditInv' /\ [Alerts!Next]_Alerts!vars
  OBVIOUS
<1>1. ASSUME NEW c \in Calls, Call(c) PROVE AuditInv' /\ [Alerts!Next]_Alerts!vars
  <2>1. AuditInv' /\ Accepted' \in {Accepted, Accepted \cup {c}} /\ told' = told /\ parked' = parked
    BY <1>1, CallInv DEF Call
  <2>2. Alerts!Accept(c) \/ UNCHANGED Alerts!vars
    BY <2>1 DEF Alerts!Accept, Alerts!vars
  <2> QED
    BY <2>1, <2>2 DEF Alerts!Next
<1>2. ASSUME NEW d \in Deliveries, Invocation(d) PROVE AuditInv' /\ [Alerts!Next]_Alerts!vars
  <2>1. /\ AuditInv'
        /\ Accepted' = Accepted /\ d[1] \in Accepted /\ d[1] \in Calls
        /\ told' \in {told, told \cup {d[1]}}
        /\ parked' \in {parked, parked \cup {d[1]}}
    BY <1>2, InvocationInv
  <2>2. \/ Alerts!Tell(d[1]) \/ Alerts!Park(d[1]) \/ Alerts!TellAndPark(d[1])
        \/ UNCHANGED Alerts!vars
    BY <2>1 DEF Alerts!Tell, Alerts!Park, Alerts!TellAndPark, Alerts!vars
  <2> QED
    BY <2>1, <2>2 DEF Alerts!Next
<1>3. ASSUME UNCHANGED audit PROVE AuditInv' /\ [Alerts!Next]_Alerts!vars
  <2>1. AuditInv'
    BY <1>3 DEF audit, AuditInv, AuditTypeOK, DeliveredInv, AttemptInv, Matches, NameMatches
  <2>2. UNCHANGED Alerts!vars
    BY <1>3 DEF audit, Alerts!vars, Accepted
  <2> QED
    BY <2>1, <2>2
<1> QED
  BY <1>1, <1>2, <1>3 DEF AuditNext

-----------------------------------------------------------------------------
(* ExternalProbe. A step that cannot last has not lasted; and while it asks, the
   clock is within what the steps so far may take, or some check was slow. *)
ChecksTake(n) == n * CheckTicks

TimeInv ==
    /\ pc = "check" /\ ~Due => spent = 0
    /\ pc = "sleep" => round = 1
    /\ ~slow /\ pc = "check" =>
          /\ spent <= CheckTicks
          /\ round = 1 => t <= ChecksTake(path - 1) + spent
          /\ round = 2 => t <= ChecksTake(Checks) + Pause + ChecksTake(path - 1) + spent
    /\ ~slow /\ pc = "sleep" => t <= ChecksTake(Checks) + spent

IdleInv == pc = "idle" => t = 0 /\ spent = 0 /\ path = 1 /\ round = 1 /\ failed = {}

(* What has answered once was within reach once. *)
BestInv ==
    Asking =>
        /\ reach <= best
        /\ \A p \in Paths \ failed : p < path \/ pc = "sleep" \/ round = 2 => p <= best

(* What failed went down, and has stayed down since or went down again. *)
OutageInv ==
    Asking =>
        /\ \A p \in Paths : reach < p => outages[p] >= 1
        /\ \A p \in failed : outages[p] >= 1
        /\ pc = "sleep" =>
              \A p \in failed : reach < p => outages[p] >= 2 \/ down[p] >= spent
        /\ round = 2 =>
              \A p \in failed :
                  outages[p] >= 2 \/ down[p] >= Pause \/ (p <= reach /\ path <= p)

ProbeInv == ProbeTypeOK /\ TimeInv /\ IdleInv /\ BestInv /\ OutageInv

LEMMA ChecksTakeFacts ==
    /\ \A n \in Nat : ChecksTake(n) \in Nat /\ ChecksTake(n + 1) = ChecksTake(n) + CheckTicks
    /\ \A n \in 0 .. Checks : ChecksTake(n) <= ChecksTake(Checks)
    /\ ChecksTake(0) = 0
    /\ 2 * ChecksTake(Checks) + Pause < Limit
<1> USE ProbeAssumption DEF ChecksTake
<1>1. \A n \in Nat : n * CheckTicks \in Nat /\ (n + 1) * CheckTicks = n * CheckTicks + CheckTicks
  OBVIOUS
<1>2. ASSUME NEW n \in 0 .. Checks PROVE n * CheckTicks <= Checks * CheckTicks
  <2>1. PICK m \in Nat : Checks = n + m
    <3>1. Checks - n \in Nat /\ Checks = n + (Checks - n)
      OBVIOUS
    <3> QED
      BY <3>1
  <2>2. (n + m) * CheckTicks = n * CheckTicks + m * CheckTicks
    OBVIOUS
  <2>3. m * CheckTicks \in Nat /\ n * CheckTicks \in Nat
    OBVIOUS
  <2> QED
    BY <2>1, <2>2, <2>3
<1> QED
  BY <1>1, <1>2, LimitAssumption

LEMMA ProbeFacts ==
    ASSUME ProbeTypeOK
    PROVE  /\ Checks \in Nat /\ CheckTicks \in Nat /\ Pause \in Nat /\ Limit \in Nat
           /\ CheckTicks < Pause
           /\ reach \in Nat /\ best \in Nat /\ t \in Nat /\ spent \in Nat
           /\ path \in Nat /\ path >= 1 /\ round \in {1, 2}
           /\ \A p \in Paths : p \in Nat /\ down[p] \in Nat /\ outages[p] \in Nat
<1>1. Checks \in Nat /\ CheckTicks \in Nat /\ Pause \in Nat /\ Limit \in Nat /\ CheckTicks < Pause
  BY ProbeAssumption
<1>2. /\ reach \in Nat /\ best \in Nat /\ t \in Nat /\ spent \in Nat
      /\ path \in Nat /\ path >= 1 /\ round \in {1, 2}
  BY <1>1 DEF ProbeTypeOK
<1>3. \A p \in Paths : p \in Nat /\ down[p] \in 0 .. Pause /\ outages[p] \in 0 .. 2
  BY <1>1 DEF ProbeTypeOK, Paths
<1> QED
  BY <1>1, <1>2, <1>3

LEMMA ProbeInitInv == ProbeInit => ProbeInv
<1> SUFFICES ASSUME ProbeInit PROVE ProbeInv
  OBVIOUS
<1>1. down = [p \in Paths |-> 0] /\ 0 \in 0 .. Pause /\ 0 \in 0 .. Limit /\ 1 \in 1 .. Checks + 1
  BY ProbeAssumption DEF ProbeInit
<1>s. slow \in BOOLEAN
  BY Zenon DEF ProbeInit
<1>2. ProbeTypeOK
  BY <1>s, <1>1, ProbeAssumption DEF ProbeInit, Quiet, ProbeTypeOK
<1> QED
  BY <1>2 DEF ProbeInit, Quiet, ProbeInv, TimeInv, IdleInv, BestInv, OutageInv, Asking

(* The invocation begins, ends, or has asked all it asks. *)
LEMMA QuietInv ==
    ASSUME ProbeInv, Invoke \/ Succeed \/ Notify \/ Webhook \/ Raise \/ TimedOut
    PROVE  ProbeInv'
<1>0. /\ 0 \in 0 .. Pause /\ 0 \in 0 .. Limit /\ 1 \in 1 .. Checks + 1 /\ Checks \in 0 .. Checks
      /\ ProbeTypeOK /\ 0 <= CheckTicks
  BY ProbeAssumption DEF ProbeInv
<1>1. ASSUME Forget PROVE /\ outages' \in [Paths -> 0 .. 2] /\ down' \in [Paths -> 0 .. Pause]
                          /\ best' \in 0 .. Checks /\ slow' \in BOOLEAN
  <2>1. slow' \in BOOLEAN
    BY <1>1, Zenon DEF Forget
  <2> QED
    BY <1>0, <1>1, <2>1 DEF Forget
<1>2. CASE Invoke
  <2>1. /\ outages' = [p \in Paths |-> IF reach < p THEN 1 ELSE 0]
        /\ down' = [p \in Paths |-> 0] /\ best' = reach /\ slow' = FALSE
        /\ pc' = "check" /\ spent' = 0 /\ UNCHANGED <<reach, t, path, round, failed>>
    BY <1>2 DEF Invoke, Watch, Goto
  <2>s. slow' \in BOOLEAN
    BY <2>1, Zenon
  <2>2. ProbeTypeOK'
    BY <1>0, <2>1, <2>s DEF ProbeTypeOK
  <2>3. t = 0 /\ path = 1 /\ round = 1 /\ failed = {}
    BY <1>2 DEF Invoke, ProbeInv, IdleInv
  <2>4. TimeInv'
    BY <1>0, <2>1, <2>3, ChecksTakeFacts DEF TimeInv, Due
  <2>5. BestInv'
    BY <2>1, <2>3, ProbeFacts, <1>0 DEF BestInv
  <2>6. OutageInv' /\ IdleInv'
    BY <2>1, <2>3 DEF OutageInv, IdleInv
  <2> QED
    BY <2>2, <2>4, <2>5, <2>6 DEF ProbeInv
<1>3. CASE Succeed \/ Raise \/ TimedOut
  <2>1. End
    BY <1>3 DEF Succeed, Raise, TimedOut
  <2>2. ProbeTypeOK'
    BY <1>0, <1>1, <2>1 DEF End, ProbeTypeOK
  <2> QED
    BY <2>1, <2>2 DEF End, ProbeInv, TimeInv, BestInv, OutageInv, IdleInv, Asking
<1>4. CASE Notify \/ Webhook
  <2>1. /\ pc' \in {"webhook", "slack"} /\ spent' = 0
        /\ UNCHANGED <<reach, t, path, round, failed>>
        /\ Forget \/ UNCHANGED history
    BY <1>4 DEF Notify, Webhook, Goto
  <2>2. ProbeTypeOK'
    BY <1>0, <1>1, <2>1 DEF history, ProbeTypeOK
  <2> QED
    BY <2>1, <2>2 DEF ProbeInv, TimeInv, BestInv, OutageInv, IdleInv, Asking
<1> QED
  BY <1>2, <1>3, <1>4

(* One path is asked, or passed over. *)
LEMMA AskInv == ASSUME ProbeInv, Check \/ Skip PROVE ProbeInv'
<1>t. /\ ProbeTypeOK /\ path \in Paths /\ pc = "check" /\ pc' = "check" /\ path' = path + 1
      /\ spent' = 0 /\ UNCHANGED <<reach, outages, down, best, slow, t, round>>
  BY DEF Check, Skip, Due, ProbeInv, TimeInv, history
<1>0. 0 \in 0 .. Pause /\ path + 1 \in 1 .. Checks + 1 /\ path - 1 \in Nat /\ path - 1 + 1 = path
      /\ path + 1 - 1 = path /\ path \in 0 .. Checks
  BY <1>t, ProbeFacts DEF Paths
<1>1. failed' \in SUBSET Paths
  BY <1>t DEF Check, Skip, Asked, ProbeTypeOK
<1>2. ProbeTypeOK'
  BY <1>t, <1>0, <1>1 DEF ProbeTypeOK
<1>3. TimeInv'
  <2>1. ChecksTake(path) = ChecksTake(path - 1) + CheckTicks /\ ChecksTake(path - 1) \in Nat
    BY <1>0, ChecksTakeFacts
  <2>2. ~slow => spent <= CheckTicks
    BY <1>t, ProbeFacts DEF ProbeInv, TimeInv
  <2>3. ~slow /\ round = 1 => t <= ChecksTake(path)
    BY <1>t, <2>1, <2>2, ProbeFacts DEF ProbeInv, TimeInv
  <2>4. ~slow /\ round = 2 => t <= ChecksTake(Checks) + Pause + ChecksTake(path)
    <3>1. ChecksTake(Checks) \in Nat
      BY ChecksTakeFacts, ProbeFacts, <1>t
    <3> QED
      BY <1>t, <2>1, <2>2, <3>1, ProbeFacts DEF ProbeInv, TimeInv
  <2>5. 0 <= CheckTicks /\ ChecksTake(path) \in Nat /\ ChecksTake(Checks) \in Nat
    BY <1>0, ProbeFacts, ChecksTakeFacts, <1>t
  <2> QED
    BY <1>t, <1>0, <2>3, <2>4, <2>5, ProbeFacts DEF TimeInv
<1>4. /\ \A p \in Paths : p # path => (p \in failed' <=> p \in failed)
      /\ path \in failed' => reach < path /\ (round = 2 => path \in failed)
      /\ path \notin failed' => path <= reach \/ (round = 2 /\ path \notin failed)
  BY <1>t, ProbeFacts DEF Check, Skip, Asked, Due, ProbeTypeOK
<1>5. BestInv'
  BY <1>t, <1>4, ProbeFacts DEF ProbeInv, BestInv, Asking, Paths
<1>6. OutageInv'
  <2>1. Asking /\ Asking'
    BY <1>t DEF Asking
  <2>2. \A p \in failed' : outages[p] >= 1
    BY <1>t, <1>1, <1>4, <2>1 DEF ProbeInv, OutageInv
  <2>3. ASSUME round = 2, NEW p \in failed'
        PROVE  outages[p] >= 2 \/ down[p] >= Pause \/ (p <= reach /\ path + 1 <= p)
    <3>1. p \in Paths /\ p \in failed /\ p \in Nat /\ reach \in Nat /\ path \in Nat
      BY <1>t, <1>1, <1>4, <2>3, ProbeFacts
    <3>2. outages[p] >= 2 \/ down[p] >= Pause \/ (p <= reach /\ path <= p)
      BY <2>1, <2>3, <3>1 DEF ProbeInv, OutageInv
    <3> QED
      BY <1>4, <2>3, <3>1, <3>2
  <2> QED
    BY <1>t, <2>1, <2>2, <2>3 DEF ProbeInv, OutageInv
<1> QED
  BY <1>t, <1>2, <1>3, <1>5, <1>6 DEF ProbeInv, IdleInv

(* Between the two rounds. *)
LEMMA PauseInv == ASSUME ProbeInv, Sleep \/ Retry PROVE ProbeInv'
<1>t. /\ ProbeTypeOK /\ spent' = 0 /\ 0 \in 0 .. Pause /\ 1 \in 1 .. Checks + 1
      /\ UNCHANGED <<reach, outages, down, best, slow, t, failed>> /\ Asking
      /\ Checks \in Nat /\ ChecksTake(Checks) \in Nat
  BY ProbeAssumption, ChecksTakeFacts DEF Sleep, Retry, Goto, history, ProbeInv, Asking
<1>1. CASE Sleep
  <2>1. /\ pc = "check" /\ pc' = "sleep" /\ path' = path /\ round' = round /\ round = 1
        /\ path \notin Paths /\ path = Checks + 1
    BY <1>1, <1>t, ProbeFacts DEF Sleep, Goto, RetryLeft, Paths, ProbeTypeOK
  <2>2. ProbeTypeOK'
    BY <1>t, <2>1 DEF ProbeTypeOK
  <2>3. spent = 0 /\ (~slow => t <= ChecksTake(path - 1) + spent) /\ path - 1 = Checks
    BY <1>t, <2>1 DEF ProbeInv, TimeInv, Due
  <2>4. TimeInv'
    BY <1>t, <2>1, <2>3 DEF TimeInv
  <2>5. BestInv'
    BY <1>t, <2>1, ProbeFacts DEF ProbeInv, BestInv, Asking, Paths
  <2>6. OutageInv'
    BY <1>t, <2>1, ProbeFacts DEF ProbeInv, OutageInv, Asking, ProbeTypeOK
  <2> QED
    BY <2>1, <2>2, <2>4, <2>5, <2>6 DEF ProbeInv, IdleInv
<1>2. CASE Retry
  <2>1. pc = "sleep" /\ pc' = "check" /\ path' = 1 /\ round' = 2 /\ spent = Pause /\ round = 1
    BY <1>2 DEF Retry, Goto, PauseOver, ProbeInv, TimeInv
  <2>2. ProbeTypeOK'
    BY <1>t, <2>1 DEF ProbeTypeOK
  <2>3. (~slow => t <= ChecksTake(Checks) + Pause) /\ t \in Nat
    BY <1>t, <2>1, ProbeFacts DEF ProbeInv, TimeInv
  <2>4. TimeInv'
    BY <1>t, <2>1, <2>3, ChecksTakeFacts, ProbeFacts DEF TimeInv
  <2>5. BestInv'
    BY <1>t, <2>1 DEF ProbeInv, BestInv, Asking
  <2>6. OutageInv'
    <3>1. ASSUME NEW p \in failed
          PROVE  outages[p] >= 2 \/ down[p] >= Pause \/ (p <= reach /\ 1 <= p)
      <4>1. p \in Paths /\ p \in Nat /\ reach \in Nat /\ 1 <= p
        BY <1>t, <3>1, ProbeFacts DEF ProbeTypeOK, Paths
      <4> QED
        BY <1>t, <2>1, <3>1, <4>1 DEF ProbeInv, OutageInv
    <3> QED
      BY <1>t, <2>1, <3>1 DEF ProbeInv, OutageInv, Asking
  <2> QED
    BY <2>1, <2>2, <2>4, <2>5, <2>6 DEF ProbeInv, IdleInv
<1> QED
  BY <1>1, <1>2

(* The site changes. *)
LEMMA ChangesInv == ASSUME ProbeInv, NEW r \in 0 .. Checks, Changes(r) PROVE ProbeInv'
<1>t. /\ ProbeTypeOK /\ reach' = r /\ UNCHANGED <<pc, t, spent, path, round, failed>>
      /\ r \in Nat /\ Pause \in Nat
      /\ outages \in [Paths -> 0 .. 2] /\ down \in [Paths -> 0 .. Pause]
  BY ProbeFacts, ProbeAssumption DEF Changes, ProbeInv, ProbeTypeOK
<1>1. TimeInv' /\ IdleInv'
  BY <1>t DEF Changes, history, ProbeInv, TimeInv, IdleInv, Due
<1>2. CASE ~Asking
  BY <1>t, <1>1, <1>2 DEF Changes, history, ProbeTypeOK, ProbeInv, BestInv, OutageInv, Asking
<1>3. CASE Asking
  <2>1. /\ outages' = [p \in Paths |->
               IF r < p /\ p <= reach THEN Least(2, outages[p] + 1) ELSE outages[p]]
        /\ down' = [p \in Paths |-> IF r < p /\ p <= reach THEN 0 ELSE down[p]]
        /\ best' = IF r > best THEN r ELSE best
        /\ slow' = slow
    BY <1>3 DEF Changes
  <2>2. \A p \in Paths :
          /\ outages'[p] \in 0 .. 2 /\ down'[p] \in 0 .. Pause /\ outages[p] \in 0 .. 2
          /\ down[p] \in 0 .. Pause
          /\ r < p /\ p <= reach => outages'[p] >= 1 /\ (outages[p] >= 1 => outages'[p] = 2)
          /\ ~(r < p /\ p <= reach) => outages'[p] = outages[p] /\ down'[p] = down[p]
          /\ outages'[p] >= outages[p]
    BY <1>t, <2>1 DEF Least
  <2>3. ProbeTypeOK'
    BY <1>t, <2>1, <2>2 DEF ProbeTypeOK
  <2>4. BestInv'
    BY <1>t, <1>3, <2>1, ProbeFacts DEF ProbeInv, BestInv, Asking
  <2>5. OutageInv'
    <3>1. failed \subseteq Paths /\ \A p \in Paths : p \in Nat
      BY <1>t, ProbeFacts DEF ProbeTypeOK
    <3>2. reach \in Nat /\ path \in Nat /\ spent \in Nat
      BY <1>t, ProbeFacts
    <3>3. \A p \in Paths : r < p => outages'[p] >= 1
      BY <1>t, <1>3, <2>2, <3>1, <3>2 DEF ProbeInv, OutageInv
    <3>4. \A p \in failed : outages'[p] >= 1
      BY <1>t, <1>3, <2>2, <3>1, <3>2 DEF ProbeInv, OutageInv
    <3>5. ASSUME pc = "sleep", NEW p \in failed, r < p
          PROVE  outages'[p] >= 2 \/ down'[p] >= spent
      <4>1. CASE p <= reach
        BY <1>t, <1>3, <2>2, <3>1, <3>5, <4>1 DEF ProbeInv, OutageInv
      <4>2. CASE ~(p <= reach)
        BY <1>t, <1>3, <2>2, <3>1, <3>2, <3>5, <4>2 DEF ProbeInv, OutageInv
      <4> QED
        BY <4>1, <4>2
    <3>6. ASSUME round = 2, NEW p \in failed
          PROVE  outages'[p] >= 2 \/ down'[p] >= Pause \/ (p <= r /\ path <= p)
      <4>1. CASE r < p /\ p <= reach
        BY <1>t, <1>3, <2>2, <3>1, <4>1 DEF ProbeInv, OutageInv
      <4>2. CASE ~(r < p /\ p <= reach)
        BY <1>t, <1>3, <2>2, <3>1, <3>2, <3>6, <4>2 DEF ProbeInv, OutageInv
      <4> QED
        BY <4>1, <4>2
    <3> QED
      BY <1>t, <3>3, <3>4, <3>5, <3>6 DEF OutageInv
  <2> QED
    BY <1>1, <2>3, <2>4, <2>5 DEF ProbeInv
<1> QED
  BY <1>2, <1>3

LEMMA TimePassesInv == ASSUME ProbeInv, TimePasses PROVE ProbeInv'
<1>t. /\ ProbeTypeOK /\ UNCHANGED <<reach, outages, best, pc, path, round, failed>>
      /\ Pause \in Nat /\ Limit \in Nat /\ t \in 0 .. Limit /\ spent \in 0 .. Pause
      /\ down \in [Paths -> 0 .. Pause]
  BY ProbeAssumption DEF TimePasses, ProbeInv, ProbeTypeOK
<1>1. down' = [p \in Paths |->
               IF Asking /\ reach < p THEN Least(Pause, down[p] + 1) ELSE down[p]]
  BY DEF TimePasses
<1>s. slow' = (slow \/ (pc = "check" /\ spent >= CheckTicks))
  BY DEF TimePasses
<1>2. \A p \in Paths :
        /\ down'[p] \in 0 .. Pause /\ down[p] \in 0 .. Pause /\ down'[p] >= down[p]
        /\ Asking /\ reach < p => down'[p] = Pause \/ down'[p] = down[p] + 1
  BY <1>t, <1>1 DEF Least
<1>3. CASE pc = "idle"
  <2>1. t' = t /\ spent' = spent
    BY <1>3 DEF TimePasses
  <2>2. ProbeTypeOK'
    BY <1>t, <1>s, <1>1, <1>2, <2>1 DEF ProbeTypeOK
  <2> QED
    BY <1>t, <1>s, <1>3, <2>1, <2>2 DEF ProbeInv, TimeInv, BestInv, OutageInv, IdleInv, Asking
<1>4. CASE pc # "idle"
  <2>1. /\ t < Limit /\ t' = t + 1 /\ spent < MayLast
        /\ spent' = Least(Pause, spent + 1)
    BY <1>4 DEF TimePasses
  <2>2. spent' \in 0 .. Pause /\ spent' <= spent + 1 /\ t' \in 0 .. Limit
        /\ (spent < Pause => spent' = spent + 1)
    BY <1>t, <2>1 DEF Least
  <2>3. ProbeTypeOK'
    BY <1>t, <1>s, <1>1, <1>2, <2>2 DEF ProbeTypeOK
  <2>s. ~slow' => ~slow
    BY <1>s, Zenon
  <2>4. TimeInv'
    <3>1. CASE pc = "check"
      <4>1. Due /\ Due'
        <5>1. Due
          BY <1>t, <2>1, <3>1 DEF MayLast
        <5> QED
          BY <1>t, <5>1 DEF Due
      <4>2. ASSUME ~slow' PROVE ~slow /\ spent < CheckTicks /\ spent' = spent + 1
        <5>1. ~slow /\ ~(spent >= CheckTicks)
          BY <1>s, <3>1, <4>2, Zenon
        <5> QED
          BY <1>t, <2>2, <5>1, ProbeFacts
      <4>3. path - 1 \in Nat /\ ChecksTake(path - 1) \in Nat /\ ChecksTake(Checks) \in Nat
        BY <1>t, ProbeFacts, ChecksTakeFacts
      <4> QED
        BY <1>t, <2>1, <3>1, <4>1, <4>2, <4>3, ProbeFacts DEF ProbeInv, TimeInv
    <3>2. CASE pc = "sleep"
      <4>1. spent' = spent + 1
        BY <1>t, <2>1, <2>2, <3>2 DEF MayLast
      <4>2. ChecksTake(Checks) \in Nat
        BY <1>t, ProbeFacts, ChecksTakeFacts
      <4> QED
        BY <1>t, <2>s, <2>1, <3>2, <4>1, <4>2 DEF ProbeInv, TimeInv
    <3>3. CASE pc \notin {"check", "sleep"}
      BY <1>t, <3>3 DEF TimeInv
    <3> QED
      BY <3>1, <3>2, <3>3
  <2>5. BestInv'
    BY <1>t DEF ProbeInv, BestInv, Asking
  <2>6. OutageInv'
    <3>1. failed \subseteq Paths /\ Asking' = Asking
      BY <1>t DEF ProbeTypeOK, Asking
    <3>2. ASSUME Asking, pc = "sleep", NEW p \in failed, reach < p
          PROVE  outages[p] >= 2 \/ down'[p] >= spent'
      BY <1>t, <1>2, <2>2, <3>1, <3>2 DEF ProbeInv, OutageInv
    <3>3. ASSUME Asking, round = 2, NEW p \in failed
          PROVE  outages[p] >= 2 \/ down'[p] >= Pause \/ (p <= reach /\ path <= p)
      BY <1>t, <1>2, <3>1, <3>3 DEF ProbeInv, OutageInv
    <3> QED
      BY <1>t, <3>1, <3>2, <3>3 DEF ProbeInv, OutageInv
  <2> QED
    BY <1>t, <1>4, <2>3, <2>4, <2>5, <2>6 DEF ProbeInv, IdleInv
<1> QED
  BY <1>3, <1>4

LEMMA ProbeNextInv == ProbeInv /\ [ProbeNext]_probe => ProbeInv'
<1> SUFFICES ASSUME ProbeInv, [ProbeNext]_probe PROVE ProbeInv'
  OBVIOUS
<1>1. CASE UNCHANGED probe
  BY <1>1 DEF probe, history, ProbeInv, ProbeTypeOK, TimeInv, BestInv, OutageInv, IdleInv,
              Asking, Due
<1>2. CASE ProbeNext
  BY <1>2, QuietInv, AskInv, PauseInv, ChangesInv, TimePassesInv DEF ProbeNext
<1> QED
  BY <1>1, <1>2

(* How a probe that asks can stop asking. *)
LEMMA VerdictIsRight ==
    ASSUME ProbeInv, ProbeNext, Asking
    PROVE  /\ pc' = "idle" =>
                  \/ path > Checks /\ failed = {} /\ best = Checks
                  \/ t = Limit /\ slow
           /\ pc' = "webhook" => \A p \in failed : down[p] >= Pause \/ outages[p] >= 2
<1>t. /\ ProbeTypeOK /\ Checks \in Nat \ {0} /\ ChecksTake(Checks) \in Nat
      /\ Limit \in Nat /\ Pause \in Nat
  BY ProbeAssumption, ChecksTakeFacts DEF ProbeInv
<1>1. ASSUME ~slow PROVE t < Limit
  <2>1. path - 1 \in 0 .. Checks /\ spent \in 0 .. Pause /\ t \in Nat
    BY <1>t DEF ProbeTypeOK
  <2>2. ChecksTake(path - 1) <= ChecksTake(Checks) /\ ChecksTake(path - 1) \in Nat
    BY <2>1, ChecksTakeFacts
  <2>3. 2 * ChecksTake(Checks) + Pause < Limit
    BY ChecksTakeFacts
  <2>4. CASE pc = "sleep"
    BY <1>t, <1>1, <2>1, <2>3, <2>4 DEF ProbeInv, TimeInv
  <2>5. CASE pc = "check"
    <3>1. ChecksTake(path - 1) + spent <= ChecksTake(Checks)
      <4>1. CASE Due
        <5>1. path \in 0 .. Checks /\ path - 1 + 1 = path
          BY <2>1, <4>1, ProbeFacts, <1>t DEF Due, Paths
        <5>2. ChecksTake(path) = ChecksTake(path - 1) + CheckTicks
              /\ ChecksTake(path) <= ChecksTake(Checks) /\ ChecksTake(path) \in Nat
          BY <2>1, <5>1, ChecksTakeFacts
        <5> QED
          BY <1>1, <2>1, <2>2, <2>5, <4>1, <5>2, ProbeAssumption, <1>t DEF ProbeInv, TimeInv
      <4>2. CASE ~Due
        BY <2>1, <2>2, <2>5, <4>2, <1>t DEF ProbeInv, TimeInv
      <4> QED
        BY <4>1, <4>2
    <3>2. round \in {1, 2}
      BY <1>t DEF ProbeTypeOK
    <3> QED
      BY <1>t, <1>1, <2>1, <2>2, <2>3, <2>5, <3>1, <3>2 DEF ProbeInv, TimeInv
  <2> QED
    BY <2>4, <2>5 DEF Asking
<1>2. ASSUME pc' = "idle"
      PROVE  (path > Checks /\ failed = {} /\ best = Checks) \/ (t = Limit /\ slow)
  <2>1. pc \in {"check", "sleep"}
    BY DEF Asking
  <2>2. Succeed \/ TimedOut
    BY <1>2, <1>t, <2>1
       DEF ProbeNext, Invoke, Check, Skip, Sleep, Retry, Notify, Webhook, Raise,
           TimePasses, Changes, Goto, ProbeTypeOK
  <2>3. CASE Succeed
    <3>1. Checks \in Paths /\ Checks < path /\ failed = {}
      BY <1>t, <2>3 DEF Succeed, Paths
    <3>2. Checks <= best
      BY <3>1 DEF ProbeInv, BestInv
    <3> QED
      BY <1>t, <2>3, <3>1, <3>2 DEF Succeed, ProbeTypeOK
  <2>4. CASE TimedOut
    BY <1>t, <1>1, <2>4 DEF TimedOut, ProbeTypeOK
  <2> QED
    BY <2>2, <2>3, <2>4
<1>3. ASSUME pc' = "webhook", NEW p \in failed PROVE down[p] >= Pause \/ outages[p] >= 2
  <2>1. pc \in {"check", "sleep"}
    BY DEF Asking
  <2>2. Notify
    BY <1>3, <1>t, <2>1
       DEF ProbeNext, Invoke, Check, Skip, Succeed, Sleep, Retry, Webhook, Raise, End, TimedOut,
           TimePasses, Changes, Goto, ProbeTypeOK
  <2>3. round = 2 /\ path > Checks
    BY <1>t, <2>2 DEF Notify, RetryLeft, ProbeTypeOK
  <2>4. p <= Checks /\ p \in Nat /\ path \in Nat
    BY <1>3, <1>t DEF ProbeTypeOK, Paths
  <2>5. outages[p] >= 2 \/ down[p] >= Pause \/ (p <= reach /\ path <= p)
    BY <1>3, <2>3 DEF ProbeInv, OutageInv
  <2> QED
    BY <1>t, <2>3, <2>4, <2>5
<1> QED
  BY <1>2, <1>3

-----------------------------------------------------------------------------
(* Either function. *)
LEMMA WatchersInv == WatchersSpec => [](AuditInv /\ ProbeInv)
<1>1. Init => AuditInv /\ ProbeInv
  BY AuditInitInv, ProbeInitInv DEF Init
<1>2. AuditInv /\ ProbeInv /\ [Next]_vars => AuditInv' /\ ProbeInv'
  <2>1. [Next]_vars => [AuditNext]_audit /\ [ProbeNext]_probe
    BY DEF Next, vars, audit, probe
  <2> QED
    BY <2>1, AuditNextInv, ProbeNextInv
<1> QED
  BY <1>1, <1>2, PTL DEF WatchersSpec

(* Deliveries, attempts, clocks and counters keep their types: an invocation is
   never tried more often than Lambda says, and no probe runs past its limit. *)
THEOREM WatchersTypeOK == WatchersSpec => []TypeOK
<1>1. AuditInv /\ ProbeInv => AuditTypeOK /\ ProbeTypeOK
  BY DEF AuditInv, ProbeInv
<1>2. Init => function \in {"audit", "probe"}
  BY DEF Init
<1>3. function \in {"audit", "probe"} /\ [Next]_vars => (function \in {"audit", "probe"})'
  BY DEF Next, vars
<1>4. (AuditTypeOK /\ ProbeTypeOK /\ function \in {"audit", "probe"}) <=> TypeOK
  BY DEF TypeOK
<1> QED
  BY <1>1, <1>2, <1>3, <1>4, WatchersInv, PTL DEF WatchersSpec

(* The alerter, its rule and its queue implement the at-least-once notifier, as
   far as safety goes: Slack and the dead-letter queue hear of calls that were made
   and are to be reported, and of nothing else. *)
THEOREM AlerterImplementsNotifier == WatchersSpec => Alerts!Safety
<1>1. Init => Alerts!Init
  BY DEF Init, AuditInit, Alerts!Init, Accepted
<1>2. AuditInv /\ [Next]_vars => [Alerts!Next]_Alerts!vars
  <2>1. [Next]_vars => [AuditNext]_audit
    BY DEF Next, vars, audit
  <2> QED
    BY <2>1, AuditNextInv
<1> QED
  BY <1>1, <1>2, WatchersInv, PTL DEF WatchersSpec, Alerts!Safety

(* A probe that sends its message found each failed path down for the whole pause,
   or twice; one that succeeds has seen every path answer; and one that its time
   limit cuts short had a check that outlasted its timeout. *)
THEOREM ErrorsAreOutages == WatchersSpec => ErrorsMeanOutage
<1>1. ProbeInv /\ [Next]_vars =>
        [Asking =>
            /\ pc' = "idle" =>
                   \/ path > Checks /\ failed = {} /\ best = Checks
                   \/ t = Limit /\ slow
            /\ pc' = "webhook" => \A p \in failed : down[p] >= Pause \/ outages[p] >= 2]_probe
  <2>1. [Next]_vars => [ProbeNext]_probe
    BY DEF Next, vars, probe
  <2> QED
    BY <2>1, VerdictIsRight
<1> QED
  BY <1>1, WatchersInv, PTL DEF WatchersSpec, ErrorsMeanOutage
=============================================================================
