--------------------------- MODULE SecureShipProofs ---------------------------
(* What holds of SecureShip for every fleet, every number of threads, and every
   time limit. *)
EXTENDS SecureShip, TLAPS

-----------------------------------------------------------------------------
(* /ready. `since` lags behind neither the cached outcome nor what the checks
   under way have seen, and the cache is young while it is being read. *)
SinceInv ==
    /\ since[outcome] = 0
    /\ since[cache.found] <= cache.age
    /\ \A r \in Probers : At(r, "load") => \A b \in saw[r] : since[b] <= check[r].age

FreshInv == (\E r \in Probers : At(r, "read")) => cache.age <= Horizon

ReadyInv == ReadyTypeOK /\ SinceInv /\ FreshInv

LEMMA HorizonBounds ==
    /\ Horizon \in Nat /\ TTL <= Horizon /\ LoadTicks <= Horizon
    /\ \A age \in Ages : Older(age) \in Ages
    /\ \A a, b \in Ages : a <= b => Older(a) <= Older(b)
    /\ \A n \in 0 .. LoadTicks : n \in Ages
    /\ \A a \in Ages, n \in Nat : a <= n => Older(a) <= n + 1
BY ReadinessAssumption DEF Horizon, Ages, Older

LEMMA ReadyInitInv == ReadyInit => ReadyInv
<1> SUFFICES ASSUME ReadyInit PROVE ReadyInv
  OBVIOUS
<1>1. Horizon + 1 \in Ages /\ 0 \in Ages /\ 0 \in 0 .. LoadTicks
  BY HorizonBounds, ReadinessAssumption DEF Ages
<1>2. ReadyTypeOK
  <2>1. cache \in [found : Outcomes, age : Ages]
    BY <1>1 DEF ReadyInit, Outcomes
  <2>2. check \in [Probers -> [pc : {"idle", "load", "read"}, age : 0 .. LoadTicks]]
    BY <1>1 DEF ReadyInit, Outcomes
  <2>3. saw \in [Probers -> SUBSET Outcomes]
    BY DEF ReadyInit, Outcomes
  <2>4. since \in [Outcomes -> Ages]
    BY <1>1 DEF ReadyInit, Outcomes
  <2> QED
    BY <2>1, <2>2, <2>3, <2>4 DEF ReadyInit, Outcomes, ReadyTypeOK
<1>3. SinceInv
  <2>1. since[outcome] = 0
    BY DEF ReadyInit, Outcomes
  <2>2. since[cache.found] <= cache.age
    BY <1>1, HorizonBounds DEF ReadyInit, Outcomes, Ages
  <2> QED
    BY <2>1, <2>2 DEF ReadyInit, Outcomes, SinceInv, At
<1>4. FreshInv
  BY DEF ReadyInit, Outcomes, FreshInv, At
<1> QED
  BY <1>2, <1>3, <1>4 DEF ReadyInv

LEMMA ReadyNextInv == ReadyInv /\ [ReadyNext]_readiness => ReadyInv'
<1> SUFFICES ASSUME ReadyInv, [ReadyNext]_readiness PROVE ReadyInv'
  OBVIOUS
<1> USE DEF ReadyInv, At, Outcomes, Other
<1>0. cache.found \in Outcomes /\ cache.age \in Ages /\ outcome \in Outcomes
  BY DEF ReadyTypeOK
<1>1. ASSUME NEW r \in Probers, Ask(r) PROVE ReadyInv'
  <2>1. ReadyTypeOK'
    BY <1>1, ReadinessAssumption DEF Ask, Move, ReadyTypeOK
  <2>2. SinceInv'
    <3> SUFFICES ASSUME NEW q \in Probers, At(q, "load")', NEW b \in saw'[q]
                 PROVE since[b] <= check'[q].age
      BY <1>1 DEF Ask, SinceInv
    <3>1. CASE q = r
      BY <1>1, <3>1, <1>0 DEF Ask, Move, SinceInv, ReadyTypeOK
    <3>2. CASE q # r
      BY <1>1, <3>2 DEF Ask, Move, SinceInv, ReadyTypeOK
    <3> QED
      BY <3>1, <3>2
  <2>3. FreshInv'
    <3>1. CASE cache.age > TTL
      BY <1>1, <3>1 DEF Ask, Move, FreshInv, ReadyTypeOK
    <3>2. CASE ~(cache.age > TTL)
      BY <1>1, <3>2, <1>0, HorizonBounds, ReadinessAssumption DEF Ask, Move, FreshInv, Ages
    <3> QED
      BY <3>1, <3>2
  <2> QED
    BY <2>1, <2>2, <2>3
<1>2. ASSUME NEW r \in Probers, Load(r) PROVE ReadyInv'
  <2>0. PICK ok \in saw[r] : cache' = [found |-> ok, age |-> check[r].age]
    BY <1>2 DEF Load, WhenItBegan
  <2>a. ok \in Outcomes /\ check[r].age \in 0 .. LoadTicks
    BY DEF ReadyTypeOK
  <2>1. ReadyTypeOK'
    BY <1>2, <2>0, <2>a, HorizonBounds, ReadinessAssumption DEF Load, Move, ReadyTypeOK
  <2>2. SinceInv'
    BY <1>2, <2>0, <2>a DEF Load, Move, SinceInv, ReadyTypeOK
  <2>3. FreshInv'
    BY <2>0, <2>a, HorizonBounds, ReadinessAssumption DEF FreshInv, Horizon
  <2> QED
    BY <2>1, <2>2, <2>3
<1>3. ASSUME NEW r \in Probers, Respond(r) PROVE ReadyInv'
  <2>1. ReadyTypeOK'
    BY <1>3, ReadinessAssumption DEF Respond, Move, ReadyTypeOK
  <2>2. SinceInv'
    BY <1>3 DEF Respond, Move, SinceInv, ReadyTypeOK
  <2>3. FreshInv'
    BY <1>3 DEF Respond, Move, FreshInv, ReadyTypeOK, Horizon
  <2> QED
    BY <2>1, <2>2, <2>3
<1>4. CASE Toggle
  <2>1. ReadyTypeOK'
    BY <1>4, HorizonBounds DEF Toggle, ReadyTypeOK, Ages
  <2>2. \A b \in Outcomes : since'[b] = 0 \/ since'[b] = since[b]
    BY <1>4, <1>0 DEF Toggle, ReadyTypeOK
  <2>3. since'[outcome'] = 0
    BY <1>4, <1>0 DEF Toggle, ReadyTypeOK
  <2>4. since'[cache'.found] <= cache'.age
    BY <1>4, <1>0, <2>2, HorizonBounds DEF Toggle, SinceInv, Ages
  <2>5. ASSUME NEW q \in Probers, At(q, "load")', NEW b \in saw'[q]
        PROVE since'[b] <= check'[q].age
    <3>1. check' = check /\ check[q].age \in 0 .. LoadTicks /\ saw[q] \subseteq Outcomes
      BY <1>4 DEF Toggle, ReadyTypeOK
    <3>2. b \in saw[q] \/ b = Other(outcome)
      BY <1>4, <2>5 DEF Toggle
    <3>3. CASE b \in saw[q]
      BY <1>4, <2>5, <3>1, <3>3, <2>2 DEF Toggle, SinceInv
    <3>4. CASE b = Other(outcome)
      BY <1>4, <3>1, <3>4, <2>3 DEF Toggle
    <3> QED
      BY <3>2, <3>3, <3>4
  <2>6. FreshInv'
    BY <1>4 DEF Toggle, FreshInv, Horizon
  <2> QED
    BY <2>1, <2>3, <2>4, <2>5, <2>6 DEF SinceInv
<1>5. CASE Wait
  <2>1. cache'.found = cache.found /\ cache'.age = Older(cache.age) /\ outcome' = outcome /\ saw' = saw
    BY <1>5 DEF Wait, ReadyTypeOK
  <2>2. since' \in [Outcomes -> Ages] /\ since'[outcome] = since[outcome]
        /\ since'[Other(outcome)] = Older(since[Other(outcome)])
    BY <1>5, <1>0, HorizonBounds DEF Wait, ReadyTypeOK
  <2>3. \A b \in Outcomes : since'[b] <= Older(since[b])
    <3> SUFFICES ASSUME NEW b \in Outcomes PROVE since'[b] <= Older(since[b])
      OBVIOUS
    <3>1. since[b] \in Ages /\ Older(since[b]) \in Ages /\ since[b] <= Older(since[b])
      BY HorizonBounds DEF ReadyTypeOK, Older, Ages
    <3>2. b = outcome \/ b = Other(outcome)
      BY <1>0
    <3> QED
      BY <2>2, <3>1, <3>2 DEF Ages
  <2>4. ASSUME NEW q \in Probers, At(q, "load")
        PROVE check'[q].age = check[q].age + 1 /\ check'[q].pc = "load"
    BY <1>5, <2>4 DEF Wait, ReadyTypeOK
  <2>5. check' \in [Probers -> [pc : {"idle", "load", "read"}, age : 0 .. LoadTicks]]
    BY <1>5, ReadinessAssumption DEF Wait, ReadyTypeOK
  <2>6. ReadyTypeOK'
    BY <1>5, <2>1, <2>2, <2>5, HorizonBounds DEF Wait, ReadyTypeOK
  <2>7. ASSUME NEW q \in Probers, At(q, "load")', NEW b \in saw'[q]
        PROVE since'[b] <= check'[q].age
    <3>1. At(q, "load")
      BY <1>5, <2>7 DEF Wait, ReadyTypeOK
    <3>2. b \in Outcomes /\ since[b] <= check[q].age /\ check[q].age \in Nat /\ since[b] \in Ages
      BY <2>1, <2>7, <3>1, ReadinessAssumption DEF SinceInv, ReadyTypeOK
    <3>3. Older(since[b]) <= check[q].age + 1
      BY <3>2, HorizonBounds
    <3>4. Older(since[b]) \in Ages /\ since'[b] \in Ages
      BY <3>2, <2>2, HorizonBounds
    <3> QED
      BY <2>3, <2>4, <3>1, <3>2, <3>3, <3>4, HorizonBounds DEF Ages
  <2>8. since'[cache'.found] <= cache'.age
    <3>1. Older(since[cache.found]) <= Older(cache.age)
      BY <1>0, HorizonBounds DEF SinceInv, ReadyTypeOK
    <3>2. Older(since[cache.found]) \in Ages /\ since'[cache.found] \in Ages /\ Older(cache.age) \in Ages
      BY <1>0, <2>2, HorizonBounds DEF ReadyTypeOK
    <3> QED
      BY <1>0, <2>1, <2>3, <3>1, <3>2, HorizonBounds DEF Ages
  <2>9. SinceInv'
    BY <2>1, <2>2, <2>7, <2>8 DEF SinceInv
  <2>10. FreshInv'
    BY <1>5 DEF Wait, FreshInv, ReadyTypeOK
  <2> QED
    BY <2>6, <2>9, <2>10
<1>6. CASE UNCHANGED readiness
  BY <1>6 DEF readiness, ReadyTypeOK, SinceInv, FreshInv, Horizon
<1> QED
  BY <1>1, <1>2, <1>3, <1>4, <1>5, <1>6 DEF ReadyNext

LEMMA ReadyInvRecent == ReadyInv => ReadyIsRecent
<1> SUFFICES ASSUME ReadyInv, NEW r \in Probers, At(r, "read") PROVE since[cache.found] <= Horizon
  BY DEF ReadyIsRecent
<1>1. since[cache.found] \in Ages /\ cache.age \in Ages
  BY DEF ReadyInv, ReadyTypeOK
<1> QED
  BY <1>1, HorizonBounds DEF ReadyInv, SinceInv, FreshInv, Ages

-----------------------------------------------------------------------------
(* The ships API. Which call a request may be making, and what it works on. *)
CallInv(r) ==
    /\ req[r].pc = "scan" => req[r].op = "list" /\ req[r].pages < MaxScanPages
    /\ req[r].pc = "get" => req[r].op \in {"get", "update", "delete"}
    /\ req[r].pc = "put" => req[r].op \in {"create", "update"}
    /\ req[r].pc \in {"delete", "del_local"} => req[r].op = "delete"
    /\ req[r].op # "list" => req[r].ship \in Ships
    /\ req[r].pc = "put" /\ req[r].op = "create" => req[r].change \in Docs
    /\ req[r].pc = "put" /\ req[r].op = "update" => req[r].found \in Docs

(* A request under way has seen what there is now, or has been told that the
   replica is behind; one that is over has no history. *)
SeenInv(r) ==
    IF Running(r)
    THEN \A s \in Concerns(r) :
             /\ store[s] \in seen[r][s]
             /\ Reading(r) => replica[s] \in seen[r][s] \cup lag[r][s]
    ELSE \A s \in Ships : seen[r][s] = {} /\ lag[r][s] = {}

(* A ship that the scan has passed is in the listing if it never changed. *)
ListInv(r) ==
    req[r].pc = "scan" =>
        \A s \in Ships :
            /\ req[r].items[s] \subseteq seen[r][s] \cup lag[r][s]
            /\ s \in req[r].rest => req[r].items[s] = {}
            /\ s \notin req[r].rest =>
                 \A d \in req[r].want :
                    seen[r][s] = {d} /\ lag[r][s] = {} => req[r].items[s] = {d}

AloneInv(r) == alone[r] => \A q \in Requests \ {r} : ~Writing(q, req[r].ship)

(* A writer that is alone is the only one to change its ship: while it reads, the
   ship stays as it is, and then it is what was read or what this request makes
   of that; what is to be deleted stays until it is. *)
LoneInv(r) ==
    Running(r) /\ req[r].op \in WriteOps /\ alone[r] =>
        LET s == req[r].ship IN
        /\ req[r].pc = "get" => seen[r][s] = {store[s]}
        /\ req[r].pc = "put" /\ req[r].op = "update" /\ lag[r][s] = {} =>
               \A d \in seen[r][s] : d = req[r].found \/ d = Written(r)
        /\ req[r].pc = "del_local" => store[s] # NoShip

ThreadInv(r) == CallInv(r) /\ SeenInv(r) /\ ListInv(r) /\ AloneInv(r) /\ LoneInv(r)

RegistryInv == RegistryTypeOK /\ \A r \in Requests : ThreadInv(r)

Request == [op : Operations, ship : Ships \cup {NoShip}, change : Changes, want : Filters,
            pc : Calls \cup {"idle"}, found : Docs \cup {NoShip}, items : [Ships -> SUBSET Docs],
            rest : SUBSET Ships, pages : 0 .. MaxScanPages, tries : 0 .. MaxAttempts,
            answer : {0, 200, 404, 500, 503}]
Maybe == Docs \cup {NoShip}

LEMMA RegistryTyping ==
    RegistryTypeOK <=>
        /\ storage \in Storages
        /\ store \in [Ships -> Maybe] /\ replica \in [Ships -> Maybe]
        /\ req \in [Requests -> Request]
        /\ seen \in [Requests -> [Ships -> SUBSET Maybe]]
        /\ lag \in [Requests -> [Ships -> SUBSET Maybe]]
        /\ alone \in [Requests -> BOOLEAN]
BY DEF RegistryTypeOK, Request, Maybe

LEMMA IdleIsRequest ==
    /\ NoChange \in Changes /\ Docs \in Filters /\ NoItems \in [Ships -> SUBSET Docs]
    /\ 0 \in 0 .. MaxScanPages /\ 0 \in 0 .. MaxAttempts
<1>1. NoChange \in Changes
  BY DEF NoChange, Changes
<1> QED
  BY <1>1, ShipAssumption DEF Filters, NoItems

LEMMA RegistryInitInv == RegistryInit => RegistryInv
<1> SUFFICES ASSUME RegistryInit PROVE RegistryInv
  OBVIOUS
<1>0. DEFINE idle == [op |-> "list", ship |-> NoShip, change |-> NoChange, want |-> Docs,
            pc |-> "idle", found |-> NoShip, items |-> NoItems, rest |-> {},
            pages |-> 0, tries |-> 0, answer |-> 0]
<1>1. req = [r \in Requests |-> idle]
  BY DEF RegistryInit
<1>2. idle \in Request
  BY IdleIsRequest DEF Request, Operations
<1>3. store \in [Ships -> Maybe] /\ replica \in [Ships -> Maybe] /\ storage \in Storages
  BY ShipAssumption DEF RegistryInit, Maybe
<1>4. /\ seen \in [Requests -> [Ships -> SUBSET Maybe]] /\ lag \in [Requests -> [Ships -> SUBSET Maybe]]
      /\ alone \in [Requests -> BOOLEAN]
      /\ \A r \in Requests : ~alone[r] /\ \A s \in Ships : seen[r][s] = {} /\ lag[r][s] = {}
  BY DEF RegistryInit, NoItems
<1>5. RegistryTypeOK
  BY <1>1, <1>2, <1>3, <1>4, RegistryTyping
<1>6. ASSUME NEW r \in Requests PROVE ThreadInv(r)
  <2>1. req[r] = idle
    BY <1>1
  <2> QED
    BY <2>1, <1>4 DEF ThreadInv, CallInv, SeenInv, ListInv, AloneInv, LoneInv, Running
<1> QED
  BY <1>5, <1>6 DEF RegistryInv

-----------------------------------------------------------------------------
(* The history after a step. *)
LEMMA RememberTyping ==
    ASSUME RegistryTypeOK, Remember, store' \in [Ships -> Maybe], replica' \in [Ships -> Maybe]
    PROVE  /\ seen' \in [Requests -> [Ships -> SUBSET Maybe]]
           /\ lag' \in [Requests -> [Ships -> SUBSET Maybe]]
           /\ alone' \in [Requests -> BOOLEAN]
<1>0. seen \in [Requests -> [Ships -> SUBSET Maybe]] /\ lag \in [Requests -> [Ships -> SUBSET Maybe]]
  BY RegistryTyping
<1>1. ASSUME NEW s \in Ships PROVE Behind(s)' \subseteq Maybe
  BY DEF Behind
<1>2. seen' \in [Requests -> [Ships -> SUBSET Maybe]]
  BY <1>0 DEF Remember
<1>3. ASSUME NEW r \in Requests PROVE lag'[r] \in [Ships -> SUBSET Maybe]
  <2>1. lag'[r] = [s \in Ships |->
           IF Running(r)' /\ s \in Concerns(r)'
           THEN lag[r][s] \cup IF Reading(r)' THEN Behind(s)' ELSE {} ELSE {}]
    BY DEF Remember
  <2>2. ASSUME NEW s \in Ships PROVE lag'[r][s] \in SUBSET Maybe
    BY <2>1, <1>0, <1>1
  <2> QED
    BY <2>1, <2>2
<1>4. lag' \in [Requests -> [Ships -> SUBSET Maybe]]
  BY <1>3 DEF Remember
<1>5. alone' \in [Requests -> BOOLEAN]
  BY DEF Remember
<1> QED
  BY <1>2, <1>4, <1>5

LEMMA RememberInv ==
    ASSUME Remember, NEW r \in Requests, Concerns(r)' \subseteq Ships
    PROVE  SeenInv(r)' /\ AloneInv(r)'
<1>1. SeenInv(r)'
  <2>1. CASE Running(r)'
    <3>1. ASSUME NEW s \in Concerns(r)'
          PROVE  store'[s] \in seen'[r][s]
      BY <2>1 DEF Remember
    <3>2. ASSUME NEW s \in Concerns(r)', Reading(r)'
          PROVE  replica'[s] \in seen'[r][s] \cup lag'[r][s]
      <4>1. Behind(s)' \subseteq lag'[r][s]
        BY <2>1, <3>2 DEF Remember
      <4>2. replica'[s] = store'[s] \/ replica'[s] \in Behind(s)'
        BY DEF Behind
      <4> QED
        BY <3>1, <4>1, <4>2
    <3> QED
      BY <2>1, <3>1, <3>2 DEF SeenInv
  <2>2. CASE ~Running(r)'
    BY <2>2 DEF SeenInv, Remember
  <2> QED
    BY <2>1, <2>2
<1>2. AloneInv(r)'
  BY DEF AloneInv, Remember
<1> QED
  BY <1>1, <1>2

(* A request under way loses nothing of its history. *)
LEMMA RememberMore ==
    ASSUME RegistryInv, Remember, NEW r \in Requests, Running(r), Running(r)',
           Concerns(r)' = Concerns(r), NEW s \in Concerns(r)
    PROVE  /\ s \in Ships
           /\ seen'[r][s] = seen[r][s] \cup {store'[s]}
           /\ lag[r][s] \subseteq lag'[r][s]
           /\ alone'[r] => alone[r]
<1>1. s \in Ships
  BY RegistryTyping DEF RegistryInv, ThreadInv, CallInv, Concerns, Request
<1> QED
  BY <1>1 DEF Remember

(* What a step does to a thread that does not take it, and that goes on. *)
LEMMA Bystander ==
    ASSUME RegistryInv, Remember, NEW q \in Requests, req'[q] = req[q],
           \A s \in Ships : alone[q] /\ Writing(q, s) => store'[s] = store[s]
    PROVE  ThreadInv(q)'
<1>0. ThreadInv(q) /\ req[q] \in Request
  BY RegistryTyping DEF RegistryInv
<1>1. Concerns(q)' = Concerns(q) /\ Concerns(q) \subseteq Ships /\ (Running(q)' <=> Running(q))
  BY <1>0 DEF Concerns, ThreadInv, CallInv, Running
<1>2. SeenInv(q)' /\ AloneInv(q)'
  BY <1>1, RememberInv
<1>3. CallInv(q)'
  BY <1>0 DEF ThreadInv, CallInv
<1>4. CASE ~Running(q)
  BY <1>1, <1>2, <1>3, <1>4 DEF ThreadInv, ListInv, LoneInv, Running
<1>5. CASE Running(q)
  <2>1. ASSUME NEW s \in Concerns(q)
        PROVE  /\ store[s] \in seen[q][s] /\ seen'[q][s] = seen[q][s] \cup {store'[s]}
               /\ lag[q][s] \subseteq lag'[q][s] /\ (alone'[q] => alone[q])
    BY <1>0, <1>1, <1>5, RememberMore DEF ThreadInv, SeenInv
  <2>2. ListInv(q)'
    <3> SUFFICES ASSUME req[q].pc = "scan", NEW s \in Ships
                 PROVE  /\ req[q].items[s] \subseteq seen'[q][s] \cup lag'[q][s]
                        /\ s \in req[q].rest => req[q].items[s] = {}
                        /\ s \notin req[q].rest =>
                             \A d \in req[q].want :
                                seen'[q][s] = {d} /\ lag'[q][s] = {} => req[q].items[s] = {d}
      BY DEF ListInv
    <3>1. s \in Concerns(q)
      BY <1>0 DEF ThreadInv, CallInv, Concerns
    <3>2. ASSUME NEW d, seen'[q][s] = {d} PROVE seen[q][s] = {d}
      BY <3>1, <3>2, <2>1
    <3> QED
      BY <1>0, <2>1, <3>1, <3>2 DEF ThreadInv, ListInv
  <2>3. LoneInv(q)'
    <3> SUFFICES ASSUME req[q].op \in WriteOps, alone'[q] PROVE LoneInv(q)'
      BY DEF LoneInv
    <3> DEFINE s == req[q].ship
    <3>1. s \in Concerns(q) /\ s \in Ships /\ Writing(q, s)
      BY <1>0, <1>5 DEF Concerns, WriteOps, ThreadInv, CallInv, Writing
    <3>2. alone[q] /\ store'[s] = store[s]
      BY <2>1, <3>1
    <3>3. seen'[q][s] = seen[q][s] /\ lag[q][s] \subseteq lag'[q][s]
      <4>1. store[s] \in seen[q][s] /\ seen'[q][s] = seen[q][s] \cup {store[s]}
            /\ lag[q][s] \subseteq lag'[q][s]
        BY <2>1, <3>1, <3>2
      <4> HIDE DEF s
      <4> QED
        BY <4>1
    <3>4. Written(q)' = Written(q)
      BY DEF Written
    <3> QED
      BY <1>0, <1>5, <3>2, <3>3, <3>4 DEF ThreadInv, LoneInv
  <2> QED
    BY <1>2, <1>3, <2>2, <2>3 DEF ThreadInv
<1> QED
  BY <1>4, <1>5

(* A step of r: what is left to show is what r itself goes on with. *)
LEMMA StepInv ==
    ASSUME RegistryInv, Remember, NEW r \in Requests, storage' = storage,
           store' \in [Ships -> Maybe], replica' \in [Ships -> Maybe],
           req' \in [Requests -> Request], \A q \in Requests \ {r} : req'[q] = req[q],
           \A s \in Ships : store'[s] # store[s] => Writing(r, s),
           CallInv(r)', ListInv(r)', LoneInv(r)'
    PROVE  RegistryInv'
<1>1. RegistryTypeOK'
  BY RegistryTyping, RememberTyping DEF RegistryInv, RegistryTypeOK, Request, Maybe
<1>2. ThreadInv(r)'
  <2>1. Concerns(r)' \subseteq Ships
    BY DEF Concerns, CallInv
  <2> QED
    BY <2>1, RememberInv DEF ThreadInv
<1>3. ASSUME NEW q \in Requests \ {r} PROVE ThreadInv(q)'
  <2>1. ASSUME NEW s \in Ships, alone[q], Writing(q, s) PROVE store'[s] = store[s]
    BY <2>1 DEF RegistryInv, ThreadInv, AloneInv, Writing
  <2> QED
    BY <2>1, Bystander
<1> QED
  BY <1>1, <1>2, <1>3 DEF RegistryInv

LEMMA ReadInv ==
    ASSUME RegistryInv, Remember, NEW r \in Requests, Read,
           req' \in [Requests -> Request], \A q \in Requests \ {r} : req'[q] = req[q],
           CallInv(r)', ListInv(r)', LoneInv(r)'
    PROVE  RegistryInv'
<1>1. store \in [Ships -> Maybe] /\ replica \in [Ships -> Maybe]
  BY RegistryTyping DEF RegistryInv
<1> QED
  BY <1>1, StepInv DEF Read

LEMMA WriteInv ==
    ASSUME RegistryInv, Remember, NEW r \in Requests, req[r].pc \in {"put", "delete", "del_local"},
           NEW what \in Maybe, Store(req[r].ship, what),
           req' \in [Requests -> Request], \A q \in Requests \ {r} : req'[q] = req[q],
           CallInv(r)', ListInv(r)', LoneInv(r)'
    PROVE  RegistryInv'
<1>1. store \in [Ships -> Maybe] /\ replica \in [Ships -> Maybe] /\ CallInv(r)
  BY RegistryTyping DEF RegistryInv, ThreadInv
<1>2. store' \in [Ships -> Maybe] /\ replica' \in [Ships -> Maybe] /\ storage' = storage
  BY <1>1 DEF Store
<1>3. ASSUME NEW s \in Ships, store'[s] # store[s] PROVE Writing(r, s)
  BY <1>1, <1>3 DEF Store, Writing, Running, WriteOps, CallInv
<1> QED
  BY <1>2, <1>3, StepInv

(* What the two writes put is a ship. *)
LEMMA WrittenIsShip ==
    ASSUME RegistryInv, NEW r \in Requests, req[r].pc = "put"
    PROVE  Written(r) \in Docs /\ Written(r) \in Maybe
<1>1. req[r] \in Request /\ CallInv(r)
  BY RegistryTyping DEF RegistryInv, ThreadInv
<1>2. ASSUME NEW ship \in Docs, NEW change \in Changes PROVE Merge(ship, change) \in Docs
  BY DEF Merge, Docs, Changes
<1>3. req[r].change \in Changes
  BY <1>1 DEF Request
<1>4. Written(r) \in Docs
  BY <1>1, <1>2, <1>3 DEF CallInv, Written
<1> QED
  BY <1>4 DEF Maybe

-----------------------------------------------------------------------------
(* What the handlers do to a request leaves what was asked for and listed alone. *)
SameRequest(r) ==
    /\ req'[r].op = req[r].op /\ req'[r].ship = req[r].ship /\ req'[r].want = req[r].want
    /\ req'[r].items = req[r].items /\ req'[r].rest = req[r].rest
    /\ req'[r].pages = req[r].pages

LEMMA AnswerTyping ==
    ASSUME RegistryTypeOK, NEW r \in Requests, NEW status \in {200, 404, 500, 503},
           Answer(r, status)
    PROVE  /\ req' \in [Requests -> Request]
           /\ \A q \in Requests \ {r} : req'[q] = req[q]
           /\ SameRequest(r) /\ req'[r].pc = "idle" /\ req'[r].answer = status
<1>1. req \in [Requests -> Request] /\ req[r] \in Request
  BY RegistryTyping
<1>2. PICK p \in Request : p = req[r]
  BY <1>1
<1>3. PICK q \in Request : q = [p EXCEPT !.pc = "idle", !.change = NoChange, !.found = NoShip,
                                         !.tries = 0, !.answer = status]
  <2>1. [[[[[p EXCEPT !.pc = "idle"] EXCEPT !.change = NoChange] EXCEPT !.found = NoShip]
             EXCEPT !.tries = 0] EXCEPT !.answer = status] \in Request
    <3>1. ASSUME NEW p1 \in Request PROVE [p1 EXCEPT !.pc = "idle"] \in Request
      BY DEF Request
    <3>2. ASSUME NEW p1 \in Request PROVE [p1 EXCEPT !.change = NoChange] \in Request
      BY IdleIsRequest DEF Request
    <3>3. ASSUME NEW p1 \in Request PROVE [p1 EXCEPT !.found = NoShip] \in Request
      BY DEF Request
    <3>4. ASSUME NEW p1 \in Request PROVE [p1 EXCEPT !.tries = 0] \in Request
      BY IdleIsRequest DEF Request
    <3>5. ASSUME NEW p1 \in Request PROVE [p1 EXCEPT !.answer = status] \in Request
      BY DEF Request
    <3>6. [[[p EXCEPT !.pc = "idle"] EXCEPT !.change = NoChange] EXCEPT !.found = NoShip] \in Request
      BY <3>1, <3>2, <3>3
    <3> QED
      BY <3>4, <3>5, <3>6
  <2> QED
    BY <2>1
<1>4. req' = [req EXCEPT ![r] = q]
  BY <1>2, <1>3, Zenon DEF Answer
<1>5. /\ q.op = req[r].op /\ q.ship = req[r].ship /\ q.want = req[r].want
      /\ q.items = req[r].items /\ q.rest = req[r].rest /\ q.pages = req[r].pages
      /\ q.pc = "idle" /\ q.answer = status
  BY <1>2, <1>3 DEF Request
<1> QED
  BY <1>1, <1>4, <1>5 DEF SameRequest

LEMMA CallTyping ==
    ASSUME RegistryTypeOK, NEW r \in Requests, NEW pc \in Calls, NEW tries \in 0 .. MaxAttempts,
           req' = [req EXCEPT ![r].pc = pc, ![r].tries = tries]
    PROVE  /\ req' \in [Requests -> Request]
           /\ \A q \in Requests \ {r} : req'[q] = req[q]
           /\ SameRequest(r) /\ req'[r].pc = pc
           /\ req'[r].change = req[r].change /\ req'[r].found = req[r].found
<1>1. req \in [Requests -> Request] /\ req[r] \in Request
  BY RegistryTyping
<1>2. PICK p \in Request : p = req[r]
  BY <1>1
<1>3. PICK q \in Request : q = [p EXCEPT !.pc = pc, !.tries = tries]
  <2>1. ASSUME NEW p1 \in Request PROVE [p1 EXCEPT !.pc = pc] \in Request
    BY DEF Request
  <2>2. ASSUME NEW p1 \in Request PROVE [p1 EXCEPT !.tries = tries] \in Request
    BY DEF Request
  <2>3. [[p EXCEPT !.pc = pc] EXCEPT !.tries = tries] \in Request
    BY <2>1, <2>2
  <2> QED
    BY <2>3
<1>4. req' = [req EXCEPT ![r] = q]
  BY <1>1, <1>2, <1>3
<1>5. /\ q.op = req[r].op /\ q.ship = req[r].ship /\ q.change = req[r].change
      /\ q.want = req[r].want /\ q.found = req[r].found
      /\ q.items = req[r].items /\ q.rest = req[r].rest /\ q.pages = req[r].pages
      /\ q.pc = pc
  BY <1>2, <1>3 DEF Request
<1> QED
  BY <1>1, <1>4, <1>5 DEF SameRequest

(* An answer leaves nothing to show of the thread. *)
LEMMA AnsweredInv ==
    ASSUME RegistryInv, NEW r \in Requests, SameRequest(r), req'[r].pc = "idle"
    PROVE  CallInv(r)' /\ ListInv(r)' /\ LoneInv(r)'
BY DEF RegistryInv, ThreadInv, SameRequest, CallInv, ListInv, LoneInv, Running

-----------------------------------------------------------------------------
(* One lemma for each step of a request. *)
LEMMA StartInv ==
    ASSUME RegistryInv, NEW r \in Requests, Start(r), Remember PROVE RegistryInv'
<1>1. PICK op \in MayDo[r], s \in Ships \cup {NoShip}, change \in Changes, want \in Filters :
        /\ op # "list" => s \in Ships
        /\ op = "create" => change \in Docs
        /\ req' = [req EXCEPT ![r] =
               [op |-> op, ship |-> s, change |-> change, want |-> want,
                pc |-> FirstCall(op), found |-> NoShip, items |-> NoItems,
                rest |-> IF op = "list" THEN Ships ELSE {}, pages |-> 0,
                tries |-> 0, answer |-> 0]]
  <2>1. PICK op \in MayDo[r] : \E s \in ShipOf(op), change \in Body(op), want \in Query(op) :
        req' = [req EXCEPT ![r] =
               [op |-> op, ship |-> s, change |-> change, want |-> want,
                pc |-> FirstCall(op), found |-> NoShip, items |-> NoItems,
                rest |-> IF op = "list" THEN Ships ELSE {}, pages |-> 0,
                tries |-> 0, answer |-> 0]]
    BY DEF Start
  <2>2. /\ ShipOf(op) \subseteq Ships \cup {NoShip} /\ (op # "list" => ShipOf(op) = Ships)
        /\ Body(op) \subseteq Changes /\ (op = "create" => Body(op) \subseteq Docs)
        /\ Query(op) \subseteq Filters
    <3>1. Docs \subseteq Changes
      BY DEF Docs, Changes
    <3> QED
      BY <3>1, ShipAssumption, IdleIsRequest DEF ShipOf, Body, Query
  <2>3. PICK s \in ShipOf(op), change \in Body(op), want \in Query(op) :
        req' = [req EXCEPT ![r] =
               [op |-> op, ship |-> s, change |-> change, want |-> want,
                pc |-> FirstCall(op), found |-> NoShip, items |-> NoItems,
                rest |-> IF op = "list" THEN Ships ELSE {}, pages |-> 0,
                tries |-> 0, answer |-> 0]]
    BY <2>1
  <2> QED
    BY <2>2, <2>3
<1>2. op \in Operations /\ UNCHANGED <<storage, store, replica>> /\ ~Running(r)
  BY ShipAssumption DEF Start, Running
<1>t. /\ store \in [Ships -> Maybe] /\ replica \in [Ships -> Maybe]
      /\ req \in [Requests -> Request] /\ SeenInv(r)
  BY RegistryTyping DEF RegistryInv, ThreadInv
<1>3. /\ FirstCall(op) \in Calls \ {"delete", "del_local"}
      /\ FirstCall(op) = "scan" <=> op = "list"
      /\ FirstCall(op) = "put" <=> op = "create"
  BY <1>2 DEF FirstCall, Calls, Operations, WriteOps
<1>4. req' \in [Requests -> Request] /\ \A q \in Requests \ {r} : req'[q] = req[q]
  <2>1. req'[r] \in Request
    BY <1>1, <1>2, <1>3, <1>t, IdleIsRequest DEF Request, Maybe
  <2> QED
    BY <1>1, <1>t, <2>1
<1>5. /\ req'[r].op = op /\ req'[r].ship = s /\ req'[r].change = change
      /\ req'[r].pc = FirstCall(op) /\ req'[r].items = NoItems /\ req'[r].pages = 0
      /\ req'[r].rest = (IF op = "list" THEN Ships ELSE {})
  BY <1>1, <1>t
<1>6. CallInv(r)'
  BY <1>1, <1>2, <1>3, <1>5, ShipAssumption DEF CallInv, Operations, WriteOps
<1>7. ListInv(r)'
  BY <1>3, <1>5 DEF ListInv, NoItems
<1>8. LoneInv(r)'
  <2> SUFFICES ASSUME op = "update" \/ op = "delete" PROVE LoneInv(r)'
    BY <1>3, <1>5 DEF LoneInv, WriteOps
  <2>1. s \in Ships /\ Running(r)' /\ s \in Concerns(r)' /\ req'[r].pc = "get"
    BY <1>1, <1>3, <1>5 DEF Concerns, Running, FirstCall
  <2>2. seen'[r][s] = seen[r][s] \cup {store'[s]}
    BY <2>1 DEF Remember
  <2>3. seen[r][s] = {}
    BY <1>2, <1>t, <2>1 DEF SeenInv
  <2> QED
    BY <1>5, <2>1, <2>2, <2>3 DEF LoneInv
<1> QED
  BY <1>2, <1>4, <1>6, <1>7, <1>8, ReadInv DEF Read

(* A page of a scan: what becomes of the request, and of a ship in the listing. *)
LEMMA ScanEffect ==
    ASSUME RegistryInv, NEW r \in Requests, ScanPage(r)
    PROVE  \E page, lagging \in SUBSET req[r].rest, moreKeys, more \in BOOLEAN :
        /\ page # req[r].rest => moreKeys
        /\ more <=> FollowCursor(r, moreKeys)
        /\ req' \in [Requests -> Request] /\ \A q \in Requests \ {r} : req'[q] = req[q]
        /\ req'[r].op = "list" /\ req'[r].want = req[r].want /\ req'[r].ship = req[r].ship
        /\ req'[r].items = Listing(r, page, lagging)
        /\ req'[r].rest = req[r].rest \ page /\ req'[r].pages = CountPage(r)
        /\ req'[r].pc = (IF more THEN "scan" ELSE "idle")
        /\ req'[r].answer = (IF more THEN 0 ELSE 200)
<1>1. PICK page \in SUBSET req[r].rest, lagging \in SUBSET req[r].rest, moreKeys \in BOOLEAN :
        /\ page # req[r].rest => moreKeys
        /\ ReadPage(r, page, lagging, FollowCursor(r, moreKeys))
  BY DEF ScanPage
<1> DEFINE listing == Listing(r, page, lagging)
           more == FollowCursor(r, moreKeys)
<1>t. /\ store \in [Ships -> Maybe] /\ replica \in [Ships -> Maybe]
      /\ req \in [Requests -> Request] /\ req[r] \in Request /\ CallInv(r)
  BY RegistryTyping DEF RegistryInv, ThreadInv
<1>2. req[r].op = "list" /\ req[r].pages < MaxScanPages
  BY <1>t DEF ScanPage, CallInv
<1>3. listing \in [Ships -> SUBSET Docs]
  BY <1>t DEF Request, Filters, Listing
<1>4. CountPage(r) \in 0 .. MaxScanPages
  BY <1>2, <1>t, ShipAssumption DEF CountPage, Request
<1>5. more \in BOOLEAN
  BY DEF FollowCursor
<1> HIDE DEF listing, more
<1>a. req' = [req EXCEPT ![r] = [req[r] EXCEPT !.items = listing, !.rest = @ \ page,
                        !.pages = CountPage(r), !.tries = 0,
                        !.pc = IF more THEN "scan" ELSE "idle",
                        !.answer = IF more THEN 0 ELSE 200]]
  BY <1>1, <1>t DEF ReadPage, listing, more
<1>6. PICK rest \in SUBSET Ships, pages \in 0 .. MaxScanPages, pc \in {"scan", "idle"},
           answer \in {0, 200}, items \in [Ships -> SUBSET Docs] :
        /\ rest = req[r].rest \ page /\ pages = CountPage(r) /\ items = listing
        /\ pc = (IF more THEN "scan" ELSE "idle") /\ answer = (IF more THEN 0 ELSE 200)
  <2>1. req[r].rest \ page \in SUBSET Ships
    BY <1>t DEF Request
  <2>2. (IF more THEN "scan" ELSE "idle") \in {"scan", "idle"} /\ (IF more THEN 0 ELSE 200) \in {0, 200}
    OBVIOUS
  <2> QED
    BY <1>3, <1>4, <2>1, <2>2
<1>7. PICK p \in Request : p = req[r]
  BY <1>t
<1>8. PICK q \in Request : q = [p EXCEPT !.items = items, !.rest = rest, !.pages = pages,
                                         !.tries = 0, !.pc = pc, !.answer = answer]
  <2>1. ASSUME NEW p1 \in Request PROVE [p1 EXCEPT !.items = items] \in Request
    BY DEF Request
  <2>2. ASSUME NEW p1 \in Request PROVE [p1 EXCEPT !.rest = rest] \in Request
    BY DEF Request
  <2>3. ASSUME NEW p1 \in Request PROVE [p1 EXCEPT !.pages = pages] \in Request
    BY DEF Request
  <2>4. ASSUME NEW p1 \in Request PROVE [p1 EXCEPT !.tries = 0] \in Request
    BY IdleIsRequest DEF Request
  <2>5. ASSUME NEW p1 \in Request PROVE [p1 EXCEPT !.pc = pc] \in Request
    BY DEF Request, Calls
  <2>6. ASSUME NEW p1 \in Request PROVE [p1 EXCEPT !.answer = answer] \in Request
    BY DEF Request
  <2>7. [[[p EXCEPT !.items = items] EXCEPT !.rest = rest] EXCEPT !.pages = pages] \in Request
    BY <2>1, <2>2, <2>3
  <2>8. [[[[[[p EXCEPT !.items = items] EXCEPT !.rest = rest] EXCEPT !.pages = pages]
              EXCEPT !.tries = 0] EXCEPT !.pc = pc] EXCEPT !.answer = answer] \in Request
    BY <2>4, <2>5, <2>6, <2>7
  <2> QED
    BY <2>8
<1>9. req' = [req EXCEPT ![r] = q]
  <2>1. req' = [req EXCEPT ![r] = [p EXCEPT !.items = items, !.rest = rest,
                       !.pages = pages, !.tries = 0, !.pc = pc, !.answer = answer]]
    BY <1>6, <1>7, <1>a, Zenon
  <2> QED
    BY <1>8, <2>1, Zenon
<1>10. /\ q.op = "list" /\ q.want = req[r].want /\ q.ship = req[r].ship /\ q.items = items
       /\ q.rest = rest /\ q.pages = pages /\ q.pc = pc /\ q.answer = answer
  BY <1>2, <1>7, <1>8 DEF Request
<1>11. req' \in [Requests -> Request] /\ req'[r] = q /\ \A x \in Requests \ {r} : req'[x] = req[x]
  BY <1>9, <1>t
<1> QED
  BY <1>1, <1>5, <1>6, <1>10, <1>11 DEF listing, more

LEMMA ListingInv ==
    ASSUME RegistryInv, NEW r \in Requests, req[r].pc = "scan", NEW page \in SUBSET req[r].rest,
           NEW lagging \in SUBSET req[r].rest, NEW s \in Ships
    PROVE  /\ Listing(r, page, lagging)[s] \subseteq seen[r][s] \cup lag[r][s]
           /\ s \in req[r].rest \ page => Listing(r, page, lagging)[s] = {}
           /\ s \notin req[r].rest \ page =>
                \A d \in req[r].want :
                   seen[r][s] = {d} /\ lag[r][s] = {} => Listing(r, page, lagging)[s] = {d}
<1> DEFINE current == IF s \in lagging THEN replica[s] ELSE store[s]
           listed == Listing(r, page, lagging)[s]
<1>1. ListInv(r) /\ req[r] \in Request
  BY RegistryTyping DEF RegistryInv, ThreadInv
<1>2. current \in seen[r][s] \cup lag[r][s]
  BY DEF RegistryInv, ThreadInv, CallInv, SeenInv, Concerns, Running, Reading
<1>3. CASE s \in page
  <2>1. listed = {current} \cap req[r].want
    BY <1>1, <1>3 DEF ListInv, Listing
  <2> HIDE DEF listed, current
  <2>2. /\ listed \subseteq seen[r][s] \cup lag[r][s]
        /\ \A d \in req[r].want : seen[r][s] = {d} /\ lag[r][s] = {} => listed = {d}
    BY <1>2, <2>1
  <2> QED
    BY <1>3, <2>2 DEF listed
<1>4. CASE s \notin page
  <2>1. listed = req[r].items[s]
    BY <1>1, <1>4 DEF Listing, Request
  <2> QED
    BY <1>1, <1>4, <2>1 DEF ListInv
<1> QED
  BY <1>3, <1>4

LEMMA ScanPageInv ==
    ASSUME RegistryInv, NEW r \in Requests, ScanPage(r), Remember PROVE RegistryInv'
<1>1. PICK page, lagging \in SUBSET req[r].rest, moreKeys, more \in BOOLEAN :
        /\ page # req[r].rest => moreKeys
        /\ more <=> FollowCursor(r, moreKeys)
        /\ req' \in [Requests -> Request] /\ \A q \in Requests \ {r} : req'[q] = req[q]
        /\ req'[r].op = "list" /\ req'[r].want = req[r].want /\ req'[r].ship = req[r].ship
        /\ req'[r].items = Listing(r, page, lagging)
        /\ req'[r].rest = req[r].rest \ page /\ req'[r].pages = CountPage(r)
        /\ req'[r].pc = (IF more THEN "scan" ELSE "idle")
        /\ req'[r].answer = (IF more THEN 0 ELSE 200)
  BY ScanEffect
<1>2. req[r].op = "list" /\ req[r].pc = "scan" /\ Read /\ Running(r) /\ ThreadInv(r)
  BY DEF ScanPage, RegistryInv, ThreadInv, CallInv, Running
<1>3. CallInv(r)' /\ LoneInv(r)'
  BY <1>1 DEF CallInv, LoneInv, FollowCursor, WriteOps
<1>4. ListInv(r)'
  <2> SUFFICES ASSUME req'[r].pc = "scan", NEW s \in Ships
               PROVE  /\ req'[r].items[s] \subseteq seen'[r][s] \cup lag'[r][s]
                      /\ s \in req'[r].rest => req'[r].items[s] = {}
                      /\ s \notin req'[r].rest =>
                           \A d \in req'[r].want :
                              seen'[r][s] = {d} /\ lag'[r][s] = {} => req'[r].items[s] = {d}
    BY DEF ListInv
  <2>1. Running(r)' /\ Concerns(r)' = Concerns(r) /\ s \in Concerns(r)
    BY <1>1, <1>2 DEF Running, Concerns
  <2>2. seen'[r][s] = seen[r][s] \cup {store'[s]} /\ lag[r][s] \subseteq lag'[r][s]
    BY <1>2, <2>1, RememberMore
  <2>3. store[s] \in seen[r][s]
    BY <1>2, <2>1 DEF ThreadInv, SeenInv
  <2>4. ASSUME NEW d, seen'[r][s] = {d} PROVE seen[r][s] = {d}
    BY <2>2, <2>3, <2>4
  <2>5. /\ req'[r].items[s] \subseteq seen[r][s] \cup lag[r][s]
        /\ s \in req'[r].rest => req'[r].items[s] = {}
        /\ s \notin req'[r].rest =>
             \A d \in req[r].want :
                seen[r][s] = {d} /\ lag[r][s] = {} => req'[r].items[s] = {d}
    <3>1. /\ Listing(r, page, lagging)[s] \subseteq seen[r][s] \cup lag[r][s]
          /\ s \in req[r].rest \ page => Listing(r, page, lagging)[s] = {}
          /\ s \notin req[r].rest \ page =>
               \A d \in req[r].want :
                  seen[r][s] = {d} /\ lag[r][s] = {} => Listing(r, page, lagging)[s] = {d}
      BY <1>2, ListingInv
    <3> QED
      BY <1>1, <3>1
  <2>6. lag'[r][s] = {} => lag[r][s] = {}
    BY <2>2
  <2> QED
    BY <1>1, <2>2, <2>4, <2>5, <2>6
<1> QED
  BY <1>1, <1>2, <1>3, <1>4, ReadInv

(* What get_item finds, or not. *)
LEMMA GetEffect ==
    ASSUME RegistryInv, NEW r \in Requests, GetItem(r)
    PROVE  /\ req' \in [Requests -> Request] /\ \A q \in Requests \ {r} : req'[q] = req[q]
           /\ \E got \in seen[r][req[r].ship] \cup lag[r][req[r].ship] :
                \/ /\ got = NoShip /\ SameRequest(r)
                   /\ req'[r].pc = "idle" /\ req'[r].answer = 404
                \/ /\ got \in Docs /\ SameRequest(r)
                   /\ req'[r].change = req[r].change /\ req'[r].found = got
                   /\ \/ req[r].op = "update" /\ req'[r].pc = "put"
                      \/ req[r].op = "delete" /\ req'[r].pc = "delete"
                      \/ req[r].op = "get" /\ req'[r].pc = "idle" /\ req'[r].answer = 200
<1>t. /\ store \in [Ships -> Maybe] /\ replica \in [Ships -> Maybe] /\ RegistryTypeOK
      /\ req \in [Requests -> Request] /\ req[r] \in Request /\ CallInv(r) /\ SeenInv(r)
  BY RegistryTyping DEF RegistryInv, ThreadInv
<1>0. req[r].pc = "get" /\ req[r].op \in {"get", "update", "delete"} /\ req[r].ship \in Ships
  BY <1>t DEF GetItem, CallInv
<1>1. PICK copy \in {store, replica} :
        IF copy[req[r].ship] = NoShip THEN Answer(r, 404) ELSE Found(r, copy[req[r].ship])
  BY DEF GetItem, Item
<1>2. PICK got \in Maybe :
        got = copy[req[r].ship] /\ got \in seen[r][req[r].ship] \cup lag[r][req[r].ship]
  BY <1>0, <1>t DEF SeenInv, Concerns, Running, Reading
<1>3. CASE got = NoShip
  <2>1. /\ req' \in [Requests -> Request] /\ \A q \in Requests \ {r} : req'[q] = req[q]
        /\ SameRequest(r) /\ req'[r].pc = "idle" /\ req'[r].answer = 404
    BY <1>1, <1>2, <1>3, <1>t, AnswerTyping
  <2> QED
    BY <1>2, <1>3, <2>1
<1>4. CASE got # NoShip
  <2>1. PICK next \in {"put", "delete", "idle"} :
          /\ \/ req[r].op = "update" /\ next = "put"
             \/ req[r].op = "delete" /\ next = "delete"
             \/ req[r].op = "get" /\ next = "idle"
          /\ req' = [req EXCEPT ![r] = [@ EXCEPT !.found = got, !.tries = 0, !.pc = next,
                                          !.answer = IF next = "idle" THEN 200 ELSE 0]]
    <3>1. Found(r, got)
      BY <1>1, <1>2, <1>4
    <3>2. CASE req[r].op = "get"
      BY <3>1, <3>2 DEF Found
    <3>3. CASE req[r].op = "update"
      BY <3>1, <3>3 DEF Found
    <3>4. CASE req[r].op = "delete"
      BY <3>1, <3>4 DEF Found
    <3> QED
      BY <1>0, <3>2, <3>3, <3>4
  <2>2. PICK answer \in {0, 200} : answer = IF next = "idle" THEN 200 ELSE 0
    OBVIOUS
  <2>3. PICK p \in Request : p = req[r]
    BY <1>t
  <2>4. PICK q \in Request :
          q = [p EXCEPT !.found = got, !.tries = 0, !.pc = next, !.answer = answer]
    <3>1. ASSUME NEW p1 \in Request PROVE [p1 EXCEPT !.found = got] \in Request
      BY DEF Request, Maybe
    <3>2. ASSUME NEW p1 \in Request PROVE [p1 EXCEPT !.tries = 0] \in Request
      BY IdleIsRequest DEF Request
    <3>3. ASSUME NEW p1 \in Request PROVE [p1 EXCEPT !.pc = next] \in Request
      BY DEF Request, Calls
    <3>4. ASSUME NEW p1 \in Request PROVE [p1 EXCEPT !.answer = answer] \in Request
      BY DEF Request
    <3>5. [[[[p EXCEPT !.found = got] EXCEPT !.tries = 0] EXCEPT !.pc = next]
             EXCEPT !.answer = answer] \in Request
      BY <3>1, <3>2, <3>3, <3>4
    <3> QED
      BY <3>5
  <2>5. req' = [req EXCEPT ![r] = q]
    BY <2>1, <2>2, <2>3, <2>4, Zenon
  <2>6. /\ q.op = req[r].op /\ q.ship = req[r].ship /\ q.change = req[r].change
        /\ q.want = req[r].want /\ q.items = req[r].items /\ q.rest = req[r].rest
        /\ q.pages = req[r].pages /\ q.found = got /\ q.pc = next /\ q.answer = answer
    BY <2>3, <2>4 DEF Request
  <2>7. /\ req' \in [Requests -> Request] /\ \A x \in Requests \ {r} : req'[x] = req[x]
        /\ req'[r] = q
    BY <1>t, <2>5
  <2> QED
    BY <1>2, <1>4, <2>1, <2>2, <2>6, <2>7 DEF SameRequest, Maybe
<1> QED
  BY <1>3, <1>4

LEMMA GetItemInv ==
    ASSUME RegistryInv, NEW r \in Requests, GetItem(r), Remember PROVE RegistryInv'
<1>t. ThreadInv(r) /\ req[r] \in Request
  BY RegistryTyping DEF RegistryInv
<1>0. Read /\ req[r].pc = "get" /\ req[r].ship \in Ships /\ req[r].op # "list" /\ Running(r)
  BY <1>t DEF GetItem, ThreadInv, CallInv, Running
<1>1. /\ req' \in [Requests -> Request] /\ \A q \in Requests \ {r} : req'[q] = req[q]
      /\ \E got \in seen[r][req[r].ship] \cup lag[r][req[r].ship] :
           \/ SameRequest(r) /\ req'[r].pc = "idle"
           \/ /\ got \in Docs /\ SameRequest(r)
              /\ req'[r].change = req[r].change /\ req'[r].found = got
              /\ \/ req[r].op = "update" /\ req'[r].pc = "put"
                 \/ req[r].op = "delete" /\ req'[r].pc = "delete"
  BY GetEffect
<1>2. CASE req'[r].pc = "idle"
  <2>1. SameRequest(r)
    BY <1>1
  <2>2. CallInv(r)' /\ ListInv(r)' /\ LoneInv(r)'
    BY <1>2, <2>1, AnsweredInv
  <2> QED
    BY <1>0, <1>1, <2>2, ReadInv
<1>3. CASE req'[r].pc # "idle"
  <2>1. PICK got \in seen[r][req[r].ship] \cup lag[r][req[r].ship] :
           /\ got \in Docs /\ SameRequest(r)
           /\ req'[r].change = req[r].change /\ req'[r].found = got
           /\ \/ req[r].op = "update" /\ req'[r].pc = "put"
              \/ req[r].op = "delete" /\ req'[r].pc = "delete"
    BY <1>1, <1>3
  <2>2. CallInv(r)'
    BY <1>0, <2>1 DEF CallInv, SameRequest
  <2>3. ListInv(r)'
    BY <2>1 DEF ListInv
  <2>4. LoneInv(r)'
    <3> SUFFICES ASSUME req[r].op = "update", req'[r].pc = "put", alone'[r],
                        lag'[r][req[r].ship] = {}
                 PROVE  \A d \in seen'[r][req[r].ship] : d = got
      BY <2>1 DEF LoneInv, SameRequest
    <3>1. Running(r)' /\ Concerns(r)' = Concerns(r) /\ req[r].ship \in Concerns(r)
      BY <1>0, <1>3, <2>1 DEF Running, Concerns, SameRequest
    <3>2. /\ seen'[r][req[r].ship] = seen[r][req[r].ship] \cup {store'[req[r].ship]}
          /\ lag[r][req[r].ship] \subseteq lag'[r][req[r].ship] /\ alone[r]
      BY <1>0, <3>1, RememberMore
    <3>3. seen[r][req[r].ship] = {store[req[r].ship]} /\ store' = store
      BY <1>0, <1>t, <3>2 DEF ThreadInv, LoneInv, WriteOps, Read
    <3>4. lag[r][req[r].ship] = {}
      BY <3>2
    <3> QED
      BY <2>1, <3>2, <3>3, <3>4
  <2> QED
    BY <1>0, <1>1, <2>2, <2>3, <2>4, ReadInv
<1> QED
  BY <1>2, <1>3

(* A write that took effect and is answered 200. *)
LEMMA WrittenInv ==
    ASSUME RegistryInv, NEW r \in Requests, req[r].pc \in {"put", "delete", "del_local"},
           NEW what \in Maybe, Store(req[r].ship, what), Answer(r, 200), Remember
    PROVE  RegistryInv'
<1>1. /\ req' \in [Requests -> Request] /\ \A q \in Requests \ {r} : req'[q] = req[q]
      /\ SameRequest(r) /\ req'[r].pc = "idle"
  BY AnswerTyping DEF RegistryInv
<1>2. CallInv(r)' /\ ListInv(r)' /\ LoneInv(r)'
  BY <1>1, AnsweredInv
<1> QED
  BY <1>1, <1>2, WriteInv

LEMMA DictionaryInv ==
    ASSUME RegistryInv, NEW r \in Requests, CheckLocal(r) \/ DelLocal(r), Remember
    PROVE  RegistryInv'
<1>0. /\ req[r].op = "delete" /\ req[r].ship \in Ships /\ req[r].pc \in {"delete", "del_local"}
      /\ RegistryTypeOK /\ CallInv(r)
  BY DEF CheckLocal, DelLocal, RegistryInv, ThreadInv, CallInv
<1>1. ASSUME Read, NEW status \in {200, 500}, Answer(r, status) PROVE RegistryInv'
  <2>1. /\ req' \in [Requests -> Request] /\ \A q \in Requests \ {r} : req'[q] = req[q]
        /\ SameRequest(r) /\ req'[r].pc = "idle"
    BY <1>0, <1>1, AnswerTyping
  <2>2. CallInv(r)' /\ ListInv(r)' /\ LoneInv(r)'
    BY <2>1, AnsweredInv
  <2> QED
    BY <1>1, <2>1, <2>2, ReadInv
<1>2. ASSUME Read, store[req[r].ship] # NoShip, Call(r, "del_local") PROVE RegistryInv'
  <2>1. /\ req' \in [Requests -> Request] /\ \A q \in Requests \ {r} : req'[q] = req[q]
        /\ SameRequest(r) /\ req'[r].pc = "del_local"
    <3>1. "del_local" \in Calls
      BY DEF Calls
    <3> QED
      BY <1>0, <1>2, <3>1, IdleIsRequest, CallTyping DEF Call
  <2>2. CallInv(r)' /\ ListInv(r)' /\ LoneInv(r)'
    BY <1>0, <1>2, <2>1 DEF CallInv, ListInv, LoneInv, SameRequest, Read
  <2> QED
    BY <1>2, <2>1, <2>2, ReadInv
<1>3. ASSUME Store(req[r].ship, NoShip), Answer(r, 200) PROVE RegistryInv'
  <2>1. NoShip \in Maybe
    BY DEF Maybe
  <2> QED
    BY <1>0, <1>3, <2>1, WrittenInv
<1> QED
  BY <1>1, <1>2, <1>3 DEF CheckLocal, DelLocal

LEMMA RetryTyping ==
    ASSUME RegistryTypeOK, NEW r \in Requests, ~LastTry(r),
           req' = [req EXCEPT ![r].tries = @ + 1]
    PROVE  /\ req' \in [Requests -> Request] /\ \A q \in Requests \ {r} : req'[q] = req[q]
           /\ SameRequest(r) /\ req'[r].pc = req[r].pc
           /\ req'[r].change = req[r].change /\ req'[r].found = req[r].found
<1>1. req \in [Requests -> Request] /\ req[r] \in Request
  BY RegistryTyping
<1>2. req[r].tries + 1 \in 0 .. MaxAttempts
  <2>1. req[r].tries \in 0 .. MaxAttempts
    BY <1>1 DEF Request
  <2> QED
    BY <2>1, ShipAssumption DEF LastTry
<1>3. [req[r] EXCEPT !.tries = req[r].tries + 1] \in Request
  BY <1>1, <1>2 DEF Request
<1>4. PICK q \in Request : q = [req[r] EXCEPT !.tries = req[r].tries + 1]
  BY <1>3
<1>5. req' = [req EXCEPT ![r] = q]
  BY <1>1, <1>4
<1>6. /\ q.op = req[r].op /\ q.ship = req[r].ship /\ q.change = req[r].change
      /\ q.want = req[r].want /\ q.found = req[r].found
      /\ q.items = req[r].items /\ q.rest = req[r].rest /\ q.pages = req[r].pages
      /\ q.pc = req[r].pc
  BY <1>1, <1>4 DEF Request
<1> QED
  BY <1>1, <1>5, <1>6 DEF SameRequest

(* A request tries again: an attempt of a lone update may have written. *)
LEMMA RetryInv ==
    ASSUME RegistryInv, NEW r \in Requests, Remember, Running(r), req[r].pc # "del_local",
           ~LastTry(r), req' = [req EXCEPT ![r].tries = @ + 1],
           \/ store' = store
           \/ req[r].pc = "put" /\ Store(req[r].ship, Written(r))
           \/ req[r].pc = "delete"
    PROVE  CallInv(r)' /\ ListInv(r)' /\ LoneInv(r)'
<1>t. ThreadInv(r) /\ RegistryTypeOK /\ req[r] \in Request
  BY RegistryTyping DEF RegistryInv
<1>1. /\ SameRequest(r) /\ req'[r].pc = req[r].pc
      /\ req'[r].change = req[r].change /\ req'[r].found = req[r].found
  BY <1>t, RetryTyping
<1>2. CallInv(r)' /\ Concerns(r)' = Concerns(r) /\ Running(r)'
  BY <1>1, <1>t DEF ThreadInv, CallInv, SameRequest, Concerns, Running
<1>3. ASSUME NEW s \in Concerns(r)
      PROVE  /\ store[s] \in seen[r][s] /\ seen'[r][s] = seen[r][s] \cup {store'[s]}
             /\ lag[r][s] \subseteq lag'[r][s] /\ (alone'[r] => alone[r])
  BY <1>2, <1>3, <1>t, RememberMore DEF ThreadInv, SeenInv
<1>4. ListInv(r)'
  <2> SUFFICES ASSUME req[r].pc = "scan", NEW s \in Ships
               PROVE  /\ req[r].items[s] \subseteq seen'[r][s] \cup lag'[r][s]
                      /\ s \in req[r].rest => req[r].items[s] = {}
                      /\ s \notin req[r].rest =>
                           \A d \in req[r].want :
                              seen'[r][s] = {d} /\ lag'[r][s] = {} => req[r].items[s] = {d}
    BY <1>1 DEF ListInv, SameRequest
  <2>1. s \in Concerns(r)
    BY <1>t DEF ThreadInv, CallInv, Concerns
  <2>2. ASSUME NEW d, seen'[r][s] = {d} PROVE seen[r][s] = {d}
    BY <1>3, <2>1, <2>2
  <2> QED
    BY <1>t, <1>3, <2>1, <2>2 DEF ThreadInv, ListInv
<1>5. LoneInv(r)'
  <2> SUFFICES ASSUME req[r].op \in WriteOps, alone'[r] PROVE LoneInv(r)'
    BY <1>1 DEF LoneInv, SameRequest
  <2>1. PICK s \in Ships : s = req[r].ship /\ s \in Concerns(r)
    BY <1>t DEF Concerns, WriteOps, ThreadInv, CallInv
  <2>2. /\ store[s] \in seen[r][s] /\ seen'[r][s] = seen[r][s] \cup {store'[s]}
        /\ lag[r][s] \subseteq lag'[r][s] /\ alone[r]
    BY <1>3, <2>1
  <2>3. Written(r)' = Written(r)
    BY <1>1 DEF Written, SameRequest
  <2>4. CASE req[r].pc = "get"
    <3>1. store' = store /\ seen[r][s] = {store[s]}
      BY <1>t, <2>1, <2>2, <2>4, Zenon DEF ThreadInv, LoneInv, Running
    <3>2. seen'[r][s] = {store'[s]}
      BY <2>2, <3>1
    <3> QED
      BY <1>1, <2>1, <2>4, <3>2 DEF LoneInv, SameRequest
  <2>5. CASE req[r].pc = "put"
    <3> SUFFICES ASSUME req[r].op = "update", lag'[r][s] = {}, NEW d \in seen'[r][s]
                 PROVE  d = req[r].found \/ d = Written(r)
      BY <1>1, <2>1, <2>3, <2>5 DEF LoneInv, SameRequest
    <3>1. d \in seen[r][s] \/ d = store'[s]
      BY <2>2
    <3>2. store'[s] \in seen[r][s] \/ store'[s] = Written(r)
      <4>1. store \in [Ships -> Maybe]
        BY <1>t, RegistryTyping
      <4> QED
        BY <2>1, <2>2, <2>5, <4>1 DEF Store
    <3>3. lag[r][s] = {}
      BY <2>2
    <3> QED
      BY <1>t, <2>1, <2>2, <2>5, <3>1, <3>2, <3>3 DEF ThreadInv, LoneInv, Running
  <2>6. CASE req[r].pc \notin {"get", "put"}
    BY <1>1, <2>6 DEF LoneInv, Running
  <2> QED
    BY <2>4, <2>5, <2>6
<1> QED
  BY <1>2, <1>4, <1>5

LEMMA AttemptFailsInv ==
    ASSUME RegistryInv, NEW r \in Requests, AttemptFails(r), Remember PROVE RegistryInv'
<1>0. /\ Running(r) /\ req[r].pc \in {"scan", "get", "put", "delete"}
      /\ RegistryTypeOK
  BY DEF AttemptFails, Running, RegistryInv
<1>1. \/ Read
      \/ req[r].pc = "put" /\ Store(req[r].ship, Written(r))
      \/ req[r].pc = "delete" /\ Store(req[r].ship, NoShip)
  BY DEF AttemptFails
<1>2. /\ req' \in [Requests -> Request] /\ \A q \in Requests \ {r} : req'[q] = req[q]
      /\ CallInv(r)' /\ ListInv(r)' /\ LoneInv(r)'
  <2>1. CASE Unavailable(r)
    <3>1. /\ req' \in [Requests -> Request] /\ \A q \in Requests \ {r} : req'[q] = req[q]
          /\ SameRequest(r) /\ req'[r].pc = "idle"
      BY <2>1, <1>0, AnswerTyping DEF Unavailable
    <3> QED
      BY <3>1, AnsweredInv
  <2>2. CASE ~LastTry(r) /\ req' = [req EXCEPT ![r].tries = @ + 1]
    <3>1. /\ req' \in [Requests -> Request] /\ \A q \in Requests \ {r} : req'[q] = req[q]
      BY <2>2, <1>0, RetryTyping
    <3>2. CallInv(r)' /\ ListInv(r)' /\ LoneInv(r)'
      BY <1>0, <1>1, <2>2, RetryInv DEF Read
    <3> QED
      BY <3>1, <3>2
  <2> QED
    BY <2>1, <2>2 DEF AttemptFails
<1>3. CASE Read
  BY <1>2, <1>3, ReadInv
<1>4. CASE req[r].pc = "put" /\ Store(req[r].ship, Written(r))
  BY <1>2, <1>4, WrittenIsShip, WriteInv
<1>5. CASE req[r].pc = "delete" /\ Store(req[r].ship, NoShip)
  <2>1. NoShip \in Maybe
    BY DEF Maybe
  <2> QED
    BY <1>2, <1>5, <2>1, WriteInv
<1> QED
  BY <1>1, <1>3, <1>4, <1>5

LEMMA ServeInv ==
    ASSUME RegistryInv, NEW r \in Requests, Serve(r), Remember PROVE RegistryInv'
<1>1. CASE PutItem(r)
  BY <1>1, WrittenIsShip, WrittenInv DEF PutItem
<1>2. CASE DeleteItem(r)
  <2>1. NoShip \in Maybe
    BY DEF Maybe
  <2> QED
    BY <1>2, <2>1, WrittenInv DEF DeleteItem
<1> QED
  BY <1>1, <1>2, ScanPageInv, GetItemInv, DictionaryInv, AttemptFailsInv DEF Serve

LEMMA ReplicateInv ==
    ASSUME RegistryInv, NEW s \in Ships, Replicate(s), Remember PROVE RegistryInv'
<1>1. /\ store \in [Ships -> Maybe] /\ replica' \in [Ships -> Maybe] /\ store' = store
      /\ req' = req /\ storage' = storage /\ req \in [Requests -> Request]
      /\ RegistryTypeOK
  BY RegistryTyping DEF Replicate, RegistryInv
<1>2. RegistryTypeOK'
  BY <1>1, RememberTyping DEF RegistryTypeOK, Request, Maybe
<1>3. ASSUME NEW q \in Requests PROVE ThreadInv(q)'
  BY <1>1, Bystander
<1> QED
  BY <1>2, <1>3 DEF RegistryInv

LEMMA RegistryNextInv == RegistryInv /\ [RegistryNext]_registry => RegistryInv'
<1> SUFFICES ASSUME RegistryInv, [RegistryNext]_registry PROVE RegistryInv'
  OBVIOUS
<1>1. CASE UNCHANGED registry
  <2>1. ASSUME NEW q \in Requests PROVE ThreadInv(q)'
    BY <1>1 DEF registry, RegistryInv, ThreadInv, CallInv, SeenInv, ListInv, AloneInv, LoneInv,
                Running, Reading, Writing, Concerns, Written
  <2> QED
    BY <1>1, <2>1 DEF registry, RegistryInv, RegistryTypeOK
<1> QED
  BY <1>1, StartInv, ServeInv, ReplicateInv DEF RegistryNext

-----------------------------------------------------------------------------
(* What an answer says: only a step of the thread itself gives it. *)
LEMMA OthersStay ==
    ASSUME RegistryInv, NEW q \in Requests, Start(q) \/ Serve(q), NEW r \in Requests \ {q}
    PROVE  req'[r] = req[r]
<1>t. req \in [Requests -> Request] /\ RegistryTypeOK
  BY RegistryTyping DEF RegistryInv
<1>1. CASE Start(q)
  BY <1>1, <1>t DEF Start
<1>2. CASE ScanPage(q)
  BY <1>2, ScanEffect
<1>3. CASE GetItem(q)
  BY <1>3, GetEffect
<1>4. ASSUME NEW status \in {200, 500, 503}, Answer(q, status) PROVE req'[r] = req[r]
  BY <1>4, <1>t, AnswerTyping
<1>5. CASE PutItem(q) \/ DeleteItem(q)
  BY <1>4, <1>5 DEF PutItem, DeleteItem
<1>6. CASE DelLocal(q)
  BY <1>4, <1>6 DEF DelLocal
<1>7. CASE CheckLocal(q)
  BY <1>4, <1>7, <1>t DEF CheckLocal, Call
<1>8. CASE AttemptFails(q)
  BY <1>4, <1>8, <1>t DEF AttemptFails, Unavailable
<1> QED
  BY <1>1, <1>2, <1>3, <1>5, <1>6, <1>7, <1>8 DEF Serve

LEMMA OnlyServed ==
    ASSUME RegistryInv, RegistryNext, NEW r \in Requests, Running(r), ~Running(r)'
    PROVE  Serve(r) /\ Remember
<1>1. ASSUME NEW q \in Requests, Start(q) \/ Serve(q) PROVE q = r
  BY <1>1, OthersStay DEF Running
<1>2. ASSUME NEW s \in Ships PROVE ~Replicate(s)
  BY DEF Replicate, Running
<1> QED
  BY <1>1, <1>2 DEF RegistryNext, Start, Running

(* How a request that is answered was answered. *)
LEMMA Endings ==
    ASSUME RegistryInv, NEW r \in Requests, Serve(r), ~Running(r)'
    PROVE  \/ ScanPage(r)
           \/ GetItem(r)
           \/ req'[r].answer = 503
           \/ /\ req[r].op \in WriteOps /\ req[r].pc \in {"put", "delete", "del_local"}
              /\ req'[r].answer = 200 /\ req[r].ship \in Ships
              /\ store'[req[r].ship] = IF req[r].pc = "put" THEN Written(r) ELSE NoShip
           \/ /\ req[r].op = "delete" /\ req[r].pc = "del_local" /\ req[r].ship \in Ships
              /\ req'[r].answer = 500 /\ store[req[r].ship] = NoShip
<1>t. /\ req \in [Requests -> Request] /\ RegistryTypeOK /\ CallInv(r)
      /\ store \in [Ships -> Maybe]
  BY RegistryTyping DEF RegistryInv, ThreadInv
<1>1. ASSUME NEW status \in {200, 500, 503}, Answer(r, status) PROVE req'[r].answer = status
  BY <1>1, <1>t, AnswerTyping
<1>2. ASSUME NEW what, Store(req[r].ship, what), req[r].ship \in Ships
      PROVE  store'[req[r].ship] = what
  BY <1>2, <1>t DEF Store
<1>3. CASE PutItem(r)
  BY <1>1, <1>2, <1>3, <1>t DEF PutItem, CallInv, WriteOps
<1>4. CASE DeleteItem(r)
  BY <1>1, <1>2, <1>4, <1>t DEF DeleteItem, CallInv, WriteOps
<1>5. CASE CheckLocal(r)
  <2>1. CASE store[req[r].ship] = NoShip
    BY <1>1, <1>5, <1>t, <2>1 DEF CheckLocal, CallInv, WriteOps, Read
  <2>2. CASE store[req[r].ship] # NoShip
    <3>1. req'[r].pc = "del_local"
      BY <1>5, <1>t, <2>2, IdleIsRequest, CallTyping DEF CheckLocal, Call, Calls
    <3> QED
      BY <3>1 DEF Running
  <2> QED
    BY <2>1, <2>2
<1>6. CASE DelLocal(r)
  <2>1. req[r].op = "delete" /\ req[r].pc = "del_local" /\ req[r].ship \in Ships
    BY <1>6, <1>t DEF DelLocal, CallInv
  <2>2. CASE store[req[r].ship] = NoShip
    BY <1>1, <1>6, <2>1, <2>2 DEF DelLocal
  <2>3. CASE store[req[r].ship] # NoShip
    BY <1>1, <1>2, <1>6, <2>1, <2>3 DEF DelLocal, WriteOps
  <2> QED
    BY <2>2, <2>3
<1>7. CASE AttemptFails(r)
  <2>1. CASE Unavailable(r)
    BY <1>1, <2>1 DEF Unavailable
  <2>2. CASE ~LastTry(r) /\ req' = [req EXCEPT ![r].tries = @ + 1]
    BY <1>7, <1>t, <2>2, RetryTyping DEF Running, AttemptFails
  <2> QED
    BY <1>7, <2>1, <2>2 DEF AttemptFails
<1> QED
  BY <1>3, <1>4, <1>5, <1>6, <1>7 DEF Serve

LEMMA ReadEndsTrue ==
    ASSUME RegistryInv, NEW r \in Requests, Running(r), Serve(r), ~Running(r)'
    PROVE  ListIsComplete(r) /\ OnlyStoredShips(r) /\ NotFoundMeansAbsent(r)
<1>t. req[r] \in Request /\ CallInv(r)
  BY RegistryTyping DEF RegistryInv, ThreadInv
<1>1. CASE ScanPage(r)
  <2>1. PICK page, lagging \in SUBSET req[r].rest, moreKeys, more \in BOOLEAN :
        /\ page # req[r].rest => moreKeys
        /\ more <=> FollowCursor(r, moreKeys)
        /\ req'[r].items = Listing(r, page, lagging)
        /\ req'[r].pages = CountPage(r)
        /\ req'[r].pc = (IF more THEN "scan" ELSE "idle")
        /\ req'[r].answer = (IF more THEN 0 ELSE 200)
    BY <1>1, ScanEffect
  <2>2. ~more /\ req[r].pc = "scan" /\ req[r].op = "list"
    BY <1>1, <1>t, <2>1 DEF Running, ScanPage, CallInv
  <2>3. ASSUME NEW s \in Ships
        PROVE  /\ req'[r].items[s] \subseteq seen[r][s] \cup lag[r][s]
               /\ page = req[r].rest =>
                    \A d \in req[r].want :
                       seen[r][s] = {d} /\ lag[r][s] = {} => req'[r].items[s] = {d}
    <3>1. /\ Listing(r, page, lagging)[s] \subseteq seen[r][s] \cup lag[r][s]
          /\ s \notin req[r].rest \ page =>
               \A d \in req[r].want :
                  seen[r][s] = {d} /\ lag[r][s] = {} => Listing(r, page, lagging)[s] = {d}
      BY <2>2, ListingInv
    <3> QED
      BY <2>1, <3>1
  <2>4. req'[r].pages < MaxScanPages => page = req[r].rest
    BY <2>1, <2>2 DEF FollowCursor
  <2> QED
    BY <2>1, <2>2, <2>3, <2>4 DEF ListIsComplete, OnlyStoredShips, NotFoundMeansAbsent, Answers
<1>2. CASE GetItem(r)
  <2>1. PICK got \in seen[r][req[r].ship] \cup lag[r][req[r].ship] :
                \/ got = NoShip /\ req'[r].answer = 404
                \/ req'[r].found = got /\ req'[r].answer = 200
    BY <1>2, GetEffect DEF Running
  <2>2. req[r].op # "list"
    BY <1>2, <1>t DEF GetItem, CallInv
  <2> QED
    BY <2>1, <2>2 DEF ListIsComplete, OnlyStoredShips, NotFoundMeansAbsent, Answers
<1>3. CASE req'[r].answer \in {500, 503} \/ (req[r].op \in WriteOps /\ req'[r].answer = 200)
  BY <1>3 DEF ListIsComplete, OnlyStoredShips, NotFoundMeansAbsent, Answers, WriteOps
<1> QED
  BY <1>1, <1>2, <1>3, Endings

LEMMA LoneWriteEnds ==
    ASSUME RegistryInv, NEW r \in Requests, Running(r), Serve(r), ~Running(r)',
           req[r].op \in WriteOps, alone[r]
    PROVE  /\ req'[r].answer # 500
           /\ req'[r].answer = 200 /\ (req[r].op = "update" => lag[r][req[r].ship] = {}) =>
                  \A d \in seen[r][req[r].ship] : IsIntended(r, d, store'[req[r].ship])
<1>t. req[r] \in Request /\ CallInv(r) /\ LoneInv(r) /\ seen[r] \in [Ships -> SUBSET Maybe]
  BY RegistryTyping DEF RegistryInv, ThreadInv
<1>1. CASE ScanPage(r)
  BY <1>1, <1>t DEF ScanPage, CallInv, WriteOps
<1>2. CASE GetItem(r)
  BY <1>2, GetEffect DEF Running, WriteOps
<1>3. CASE req'[r].answer = 503
  BY <1>3
<1>4. CASE req[r].pc = "del_local" /\ store[req[r].ship] = NoShip
  BY <1>4, <1>t DEF LoneInv
<1>5. CASE /\ req[r].pc \in {"put", "delete", "del_local"}
           /\ req'[r].answer = 200 /\ req[r].ship \in Ships
           /\ store'[req[r].ship] = IF req[r].pc = "put" THEN Written(r) ELSE NoShip
  <2> SUFFICES ASSUME req[r].op = "update" => lag[r][req[r].ship] = {},
                      NEW d \in seen[r][req[r].ship]
               PROVE  IsIntended(r, d, store'[req[r].ship])
    BY <1>5
  <2>1. CASE req[r].op = "create"
    BY <1>5, <1>t, <2>1 DEF CallInv, Written, IsIntended
  <2>2. CASE req[r].op = "delete"
    BY <1>5, <1>t, <2>2 DEF CallInv, IsIntended
  <2>3. CASE req[r].op = "update"
    <3>1. req[r].pc = "put" /\ req[r].found \in Docs /\ req[r].change \in Changes
      BY <1>5, <1>t, <2>3 DEF CallInv, Request
    <3>2. /\ store'[req[r].ship] = Merge(req[r].found, req[r].change)
          /\ Written(r) = Merge(req[r].found, req[r].change)
      BY <1>5, <2>3, <3>1 DEF Written
    <3>3. d = req[r].found \/ d = Merge(req[r].found, req[r].change)
      BY <1>t, <2>3, <3>1, <3>2 DEF LoneInv
    <3>4. \A f \in Fields : Merge(req[r].found, req[r].change)[f] =
              IF req[r].change[f] = Keep THEN req[r].found[f] ELSE req[r].change[f]
      BY DEF Merge
    <3>5. \A f \in Fields : Merge(req[r].found, req[r].change)[f] =
              IF req[r].change[f] = Keep THEN d[f] ELSE req[r].change[f]
      BY <3>3, <3>4
    <3>6. Merge(req[r].found, req[r].change) \in Docs
      BY <1>5, <3>1, <3>2, WrittenIsShip
    <3>7. d # NoShip /\ Merge(req[r].found, req[r].change) # NoShip
      BY <3>1, <3>3, <3>6, ShipAssumption
    <3> QED
      BY <2>3, <3>2, <3>5, <3>7 DEF IsIntended
  <2> QED
    BY <2>1, <2>2, <2>3 DEF WriteOps
<1> QED
  BY <1>1, <1>2, <1>3, <1>4, <1>5, Endings

LEMMA RegistryStepAnswers ==
    ASSUME RegistryInv, [RegistryNext]_registry
    PROVE  /\ \A r \in Requests : ListIsComplete(r) /\ OnlyStoredShips(r) /\ NotFoundMeansAbsent(r)
           /\ \A r \in Requests : req[r].op \in WriteOps /\ alone[r] =>
                /\ ~Answers(r, 500)
                /\ Answers(r, 200) /\ (req[r].op = "update" => lag[r][req[r].ship] = {}) =>
                       \A d \in seen[r][req[r].ship] : IsIntended(r, d, store'[req[r].ship])
<1> SUFFICES ASSUME NEW r \in Requests
             PROVE  /\ ListIsComplete(r) /\ OnlyStoredShips(r) /\ NotFoundMeansAbsent(r)
                    /\ req[r].op \in WriteOps /\ alone[r] =>
                         /\ ~Answers(r, 500)
                         /\ Answers(r, 200) /\ (req[r].op = "update" => lag[r][req[r].ship] = {}) =>
                              \A d \in seen[r][req[r].ship] : IsIntended(r, d, store'[req[r].ship])
  OBVIOUS
<1>1. CASE Running(r) /\ ~Running(r)'
  <2>1. Serve(r)
    <3>1. RegistryNext
      BY <1>1 DEF registry, Running
    <3> QED
      BY <1>1, <3>1, OnlyServed
  <2>2. ListIsComplete(r) /\ OnlyStoredShips(r) /\ NotFoundMeansAbsent(r)
    BY <1>1, <2>1, ReadEndsTrue
  <2>3. ASSUME req[r].op \in WriteOps, alone[r]
        PROVE  /\ req'[r].answer # 500
               /\ req'[r].answer = 200 /\ (req[r].op = "update" => lag[r][req[r].ship] = {}) =>
                      \A d \in seen[r][req[r].ship] : IsIntended(r, d, store'[req[r].ship])
    BY <1>1, <2>1, <2>3, LoneWriteEnds
  <2> QED
    BY <2>2, <2>3 DEF Answers
<1>2. CASE ~(Running(r) /\ ~Running(r)')
  BY <1>2 DEF ListIsComplete, OnlyStoredShips, NotFoundMeansAbsent, Answers
<1> QED
  BY <1>1, <1>2

-----------------------------------------------------------------------------
LEMMA SecureShipStep == [Next]_vars => [ReadyNext]_readiness /\ [RegistryNext]_registry
BY DEF Next, vars, readiness, registry

LEMMA SecureShipInv == Init /\ [][Next]_vars => [](RegistryInv /\ ReadyInv)
<1>1. Init => RegistryInv /\ ReadyInv
  BY ReadyInitInv, RegistryInitInv DEF Init
<1>2. RegistryInv /\ ReadyInv /\ [Next]_vars => RegistryInv' /\ ReadyInv'
  BY SecureShipStep, ReadyNextInv, RegistryNextInv
<1> QED
  BY <1>1, <1>2, PTL

(* Requests, items, tables, checks and clocks keep to their types, in both
   storage modes. *)
THEOREM SecureShipTypeOK == Init /\ [][Next]_vars => []TypeOK
<1>1. Init => endpoints \in {"ships", "ready"}
  BY DEF Init
<1>2. endpoints \in {"ships", "ready"} /\ [Next]_vars => (endpoints \in {"ships", "ready"})'
  BY DEF Next, vars
<1>3. RegistryInv /\ ReadyInv /\ endpoints \in {"ships", "ready"} => TypeOK
  BY DEF RegistryInv, ReadyInv, TypeOK
<1> QED
  BY <1>1, <1>2, <1>3, SecureShipInv, PTL

(* The answer to a read is true of some moment of the request, but for what a
   replica behind the table shows: listings below the page cap are complete, and
   a 404 or a 200 is never a failure in disguise. *)
THEOREM ReadsAreTrue == Init /\ [][Next]_vars => AnswersAreTrue
<1>1. RegistryInv /\ [Next]_vars =>
        [\A r \in Requests : ListIsComplete(r) /\ OnlyStoredShips(r) /\ NotFoundMeansAbsent(r)]_registry
  BY SecureShipStep, RegistryStepAnswers
<1> QED
  BY <1>1, SecureShipInv, PTL DEF AnswersAreTrue

(* A write beside which no other wrote the same ship, and that read no replica
   behind the table, leaves exactly what it was to leave when it is answered 200,
   in both storage modes, and is never answered 500. *)
THEOREM LoneWrites == Init /\ [][Next]_vars => LoneWritesAreExact
<1>1. RegistryInv /\ [Next]_vars =>
        [\A r \in Requests : req[r].op \in WriteOps /\ alone[r] =>
            /\ ~Answers(r, 500)
            /\ Answers(r, 200) /\ (req[r].op = "update" => lag[r][req[r].ship] = {}) =>
                   \A d \in seen[r][req[r].ship] : IsIntended(r, d, store'[req[r].ship])]_registry
  BY SecureShipStep, RegistryStepAnswers
<1> QED
  BY <1>1, SecureShipInv, PTL DEF LoneWritesAreExact

(* An answer of /ready is no older than the TTL, or than the longest check. *)
THEOREM ReadyRecent == Init /\ [][Next]_vars => []ReadyIsRecent
BY SecureShipInv, ReadyInvRecent, PTL
=============================================================================
