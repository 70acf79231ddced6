----------------------------- MODULE ChaosProofs -----------------------------
(* What holds of Chaos for any intervals, `for:`, limits and durations that its
   assumptions allow. *)
EXTENDS Chaos, TLAPS

(* Where the script is in its experiment. *)
StepInv ==
    /\ pc \in {"idle", "preflight", "recover", "verify"} => t = 0
    /\ pc = "inject" => t <= InjectTicks
    /\ pc = "settle" => t <= Settle /\ scenario = "crash"
    /\ pc \in {"measure", "recover"} => scenario \in Timed
    /\ pc # "measure" => firing = None /\ ~amSeen
    /\ pc # "idle" => outcome = "none"

(* The run repairs what it finds, or has found nothing to repair. *)
Sound == scenario \in Timed \/ trusted

(* The container: in a sound run it is mended from "wait" on, and one that is on
   its way out is not the one started since. *)
ContainerInv ==
    /\ pc = "inject" /\ trusted => container = "up" /\ ~restarted
    /\ pc = "inject" \/ (pc \notin {"idle", "preflight"} /\ Sound) =>
           (container = "exiting" => ~restarted)
    /\ pc \in {"wait", "settle", "verify"} /\ Sound => container \notin {"dead", "oom"}
    /\ pc \notin {"idle", "settle", "verify"} => ~healthy
    /\ pc = "settle" => healthy
    /\ pc \in {"settle", "verify"} /\ healthy =>
           /\ restarted /\ container \notin {"dead", "oom"}
           /\ Sound => container = "up"

(* Since T0 the rule has been active for less than T0 is ago. *)
YoungerThanT0 == held # Inactive => held + sinceEval < t

(* A trusted preflight found the target and the rule in order, and they stay so
   until the injection. *)
BaselineInv == trusted /\ pc = "inject" => container = "up" /\ up /\ held = Inactive /\ ~paged

(* What fires in the experiment became active in the experiment. *)
EarliestInv ==
    trusted /\ pc = "measure" =>
        /\ YoungerThanT0
        /\ firing # None => firing >= For[scenario]

(* How long the rule can have been active: a whole number of evaluations. *)
Whole == {n * EvalEvery : n \in Nat}

(* After an injection that took effect nothing serves: the next scrape sees it,
   the next evaluation after that starts the clock of the rule, and from then on
   it runs until the alert fires. *)
Onset == InjectTicks + ScrapeEvery + EvalEvery

OutageInv ==
    trusted /\ hit /\ pc = "measure" =>
        /\ container \in {"dead", "oom"}
        /\ held \in {Inactive} \cup Whole
        /\ up => held = Inactive /\ t <= InjectTicks + sinceScrape
        /\ ~up /\ held = Inactive => t <= InjectTicks + ScrapeEvery + sinceEval
        /\ Pending(For[scenario]) => t <= Onset + (held + sinceEval)
        /\ Firing(For[scenario]) /\ asked => firing # None
        /\ asked /\ firing # None => firing <= Onset + For[scenario]

(* "crash": no page before for: has passed, *)
CrashInv ==
    trusted /\ pc = "wait" /\ scenario = "crash" /\ t < For[scenario] =>
        YoungerThanT0 /\ ~paged

(* nor afterwards, if the target serves one scrape earlier: it is sampled while
   the rule is still pending. *)
SilenceInv ==
    trusted /\ quick /\ pc = "settle" =>
        /\ ~paged /\ ~Firing(For[scenario]) /\ ScrapeEvery < For[scenario]
        /\ ~up => t <= sinceScrape
        /\ ~up /\ held # Inactive => held + sinceEval + ScrapeEvery + 1 < For[scenario] + t

TimingInv == BaselineInv /\ EarliestInv /\ OutageInv /\ CrashInv /\ SilenceInv

ChaosInv == TypeOK /\ StepInv /\ ContainerInv /\ TimingInv

-----------------------------------------------------------------------------
(* The constants are numbers. *)
LEMMA Numbers ==
    /\ ScrapeEvery \in Nat \ {0} /\ EvalEvery \in Nat \ {0}
    /\ InjectTicks \in Nat /\ Settle \in Nat
    /\ \A s \in Scenarios :
           /\ For[s] \in Nat \ {0} /\ AlertTimeout[s] \in Nat \ {0} /\ Latest[s] \in Nat \ {0}
           /\ InjectTicks <= AlertTimeout[s] /\ Settle <= AlertTimeout[s] /\ For[s] <= AlertTimeout[s]
    /\ Timed \subseteq Scenarios
BY IntervalsAssumption, ChaosAssumption DEF Timed

(* A clock that turns at n. *)
LEMMA Turn ==
    ASSUME NEW n \in Nat \ {0}, NEW age \in 0 .. n - 1
    PROVE  (age + 1) % n = IF age + 1 = n THEN 0 ELSE age + 1
<1>1. CASE age + 1 = n
  <2>1. n % n = 0
    OBVIOUS
  <2> QED
    BY <1>1, <2>1
<1>2. CASE age + 1 # n
  <2>1. age + 1 \in 0 .. n - 1
    BY <1>2
  <2>2. \A k \in 0 .. n - 1 : k % n = k
    OBVIOUS
  <2> QED
    BY <1>2, <2>1, <2>2
<1> QED
  BY <1>1, <1>2

(* The type invariant, the switches apart from the rest. *)
Switches ==
    /\ restarted \in BOOLEAN /\ forced \in BOOLEAN /\ amSeen \in BOOLEAN /\ healthy \in BOOLEAN
    /\ trusted \in BOOLEAN /\ hit \in BOOLEAN /\ asked \in BOOLEAN /\ paged \in BOOLEAN
    /\ quick \in BOOLEAN

Fields ==
    /\ RuleTypeOK(For[scenario])
    /\ container \in Containers
    /\ pc \in {"idle", "preflight", "inject", "measure", "recover", "wait", "settle", "verify"}
    /\ scenario \in Scenarios
    /\ t \in 0 .. AlertTimeout[scenario]
    /\ firing \in {None} \cup 1 .. AlertTimeout[scenario]
    /\ alerting \in {"none", "PASS", "FAIL", "silent", "WARN"}
    /\ outcome \in {"none", "PASS", "PARTIAL", "FAIL", "refused", "died", "interrupted"}

LEMMA Typing == TypeOK <=> Fields /\ Switches
BY DEF TypeOK, Fields, Switches

LEMMA TypingNext == Fields' /\ Switches' => TypeOK'
BY DEF TypeOK, Fields, Switches

(* What a tick does to the samples and to the rule. *)
LEMMA TickFacts ==
    ASSUME NEW for \in Nat \ {0}, RuleTypeOK(for), NEW serving \in BOOLEAN, Tick(serving, for)
    PROVE  /\ RuleTypeOK(for)'
           /\ sinceScrape' = IF sinceScrape + 1 = ScrapeEvery THEN 0 ELSE sinceScrape + 1
           /\ sinceEval' = IF sinceEval + 1 = EvalEvery THEN 0 ELSE sinceEval + 1
           /\ up' = IF sinceScrape' = 0 THEN serving ELSE up
           /\ sinceEval' # 0 => held' = held
           /\ sinceEval' = 0 => \E sample \in {up, up'} : held' = Held(sample, for)
<1>1. /\ sinceScrape' = IF sinceScrape + 1 = ScrapeEvery THEN 0 ELSE sinceScrape + 1
      /\ sinceEval' = IF sinceEval + 1 = EvalEvery THEN 0 ELSE sinceEval + 1
  BY Turn, Numbers DEF Tick, RuleTypeOK
<1>2. sinceScrape' \in 0 .. ScrapeEvery - 1 /\ sinceEval' \in 0 .. EvalEvery - 1
  BY <1>1, Numbers DEF RuleTypeOK
<1>3. up' \in BOOLEAN /\ up' = IF sinceScrape' = 0 THEN serving ELSE up
  BY DEF Tick, RuleTypeOK
<1>4. PICK sample \in {up, up'} : held' = IF sinceEval' = 0 THEN Held(sample, for) ELSE held
  BY DEF Tick
<1>5. held' \in {Inactive} \cup 0 .. for
  BY <1>4, Numbers DEF Held, RuleTypeOK, Inactive
<1> QED
  BY <1>1, <1>2, <1>3, <1>4, <1>5 DEF RuleTypeOK

(* How long the rule has been active grows with time, and it starts from 0. *)
LEMMA HeldFacts ==
    ASSUME NEW for \in Nat \ {0}, RuleTypeOK(for), NEW serving \in BOOLEAN, Tick(serving, for)
    PROVE  /\ held = Inactive /\ held' # Inactive => held' = 0 /\ sinceEval' = 0
           /\ held # Inactive /\ held' # Inactive => held' + sinceEval' <= held + sinceEval + 1
           /\ held # Inactive /\ held' \notin {Inactive, for} =>
                  held' + sinceEval' = held + sinceEval + 1
           /\ held # Inactive => held' \in {Inactive, held, held + EvalEvery, for}
           /\ held' # held => sinceEval' = 0 /\ sinceEval + 1 = EvalEvery
           /\ held = for => held' \in {Inactive, for}
<1>1. CASE sinceEval' # 0
  <2>1. held' = held /\ sinceEval' = sinceEval + 1
    BY <1>1, TickFacts
  <2> QED
    BY <1>1, <2>1, Numbers DEF RuleTypeOK, Inactive
<1>2. CASE sinceEval' = 0
  <2>1. sinceEval + 1 = EvalEvery
    <3>1. sinceEval' = IF sinceEval + 1 = EvalEvery THEN 0 ELSE sinceEval + 1
      BY TickFacts
    <3>2. sinceEval \in Nat
      BY Numbers DEF RuleTypeOK
    <3> QED
      BY <1>2, <3>1, <3>2
  <2>2. PICK sample \in {up, up'} : held' = Held(sample, for)
    BY <1>2, TickFacts
  <2> QED
    BY <1>2, <2>1, <2>2, Numbers DEF Held, RuleTypeOK, Inactive
<1> QED
  BY <1>1, <1>2

(* Two samples that agree decide what an evaluation finds. *)
LEMMA SampleFacts ==
    ASSUME NEW for \in Nat \ {0}, RuleTypeOK(for), NEW serving \in BOOLEAN, Tick(serving, for)
    PROVE  /\ up /\ up' => held' = IF sinceEval' = 0 THEN Inactive ELSE held
           /\ ~up /\ ~up' /\ (held # Inactive \/ sinceEval' = 0) => held' # Inactive
<1>1. CASE sinceEval' # 0
  BY <1>1, TickFacts
<1>2. CASE sinceEval' = 0
  <2>1. PICK sample \in {up, up'} : held' = Held(sample, for)
    BY <1>2, TickFacts
  <2>2. up \in BOOLEAN /\ up' \in BOOLEAN
    BY TickFacts DEF RuleTypeOK
  <2>3. up /\ up' => held' = Inactive
    BY <2>1, <2>2 DEF Held
  <2>4. ASSUME ~up, ~up' PROVE held' # Inactive
    <3>1. ~sample
      BY <2>1, <2>2, <2>4
    <3>2. held' = 0 \/ (held # Inactive /\ held' \in {for, held + EvalEvery})
      BY <2>1, <3>1 DEF Held
    <3> QED
      BY <3>2, Numbers DEF RuleTypeOK, Inactive
  <2> QED
    BY <1>2, <2>3, <2>4
<1> QED
  BY <1>1, <1>2

(* Whole numbers of evaluations. *)
LEMMA WholeFacts ==
    /\ 0 \in Whole /\ Whole \subseteq Nat
    /\ \A a \in Whole : a + EvalEvery \in Whole
    /\ \A a, b \in Whole : a < b => a + EvalEvery <= b
    /\ \A s \in Timed : For[s] \in Whole
<1>1. 0 \in Whole /\ Whole \subseteq Nat
  BY Numbers DEF Whole
<1>2. ASSUME NEW a \in Whole PROVE a + EvalEvery \in Whole
  <2>1. PICK n \in Nat : a = n * EvalEvery
    BY DEF Whole
  <2>2. a + EvalEvery = (n + 1) * EvalEvery
    BY <2>1, Numbers
  <2> QED
    BY <2>2 DEF Whole
<1>3. ASSUME NEW a \in Whole, NEW b \in Whole, a < b PROVE a + EvalEvery <= b
  <2>1. PICK m \in Nat, n \in Nat : a = m * EvalEvery /\ b = n * EvalEvery
    BY DEF Whole
  <2>2. m < n
    <3>1. SUFFICES ASSUME n <= m PROVE FALSE
      BY <2>1
    <3>2. (m - n) * EvalEvery \in Nat
      BY <3>1, Numbers
    <3> QED
      BY <1>3, <2>1, <3>2, Numbers
  <2>3. (n - m - 1) * EvalEvery \in Nat
    BY <2>2, Numbers
  <2>4. b = a + EvalEvery + (n - m - 1) * EvalEvery
    BY <2>1, Numbers
  <2> QED
    BY <1>1, <2>3, <2>4, Numbers
<1>4. ASSUME NEW s \in Timed PROVE For[s] \in Whole
  <2>1. For[s] \in Nat /\ For[s] % EvalEvery = 0
    BY WindowAssumption, Numbers
  <2>2. For[s] = (For[s] \div EvalEvery) * EvalEvery /\ For[s] \div EvalEvery \in Nat
    BY <2>1, Numbers
  <2> QED
    BY <2>2 DEF Whole
<1> QED
  BY <1>1, <1>2, <1>3, <1>4

(* Four steps have no part in the timing. *)
LEMMA NoTiming == ASSUME pc' \notin {"inject", "measure", "wait", "settle"} PROVE TimingInv'
BY DEF TimingInv, BaselineInv, EarliestInv, OutageInv, CrashInv, SilenceInv

-----------------------------------------------------------------------------
LEMMA ChaosInit == Init => ChaosInv
<1> SUFFICES ASSUME Init PROVE ChaosInv
  OBVIOUS
<1>1. TypeOK
  <2>1. Switches
    BY DEF Init, Switches
  <2> QED
    BY <2>1, Numbers, Typing DEF Init, RuleInit, Fields, RuleTypeOK, Inactive, Containers
<1>2. StepInv /\ ContainerInv
  BY DEF Init, StepInv, ContainerInv, Sound
<1>3. TimingInv
  BY DEF Init, TimingInv, BaselineInv, EarliestInv, OutageInv, CrashInv, SilenceInv
<1> QED
  BY <1>1, <1>2, <1>3 DEF ChaosInv

(* The script stops, at whatever step. *)
LEMMA ExitInv ==
    ASSUME ChaosInv, UNCHANGED <<prometheus, docker, args, alerting, healthy, history>>,
           NEW result \in {"PASS", "PARTIAL", "FAIL", "refused", "died", "interrupted"},
           Exit(result)
    PROVE  ChaosInv'
<1> USE DEF ChaosInv, Exit, prometheus, docker, args, history
<1>1. TypeOK'
  <2>1. Switches'
    BY Typing DEF Switches
  <2> QED
    BY <2>1, Typing, TypingNext, Numbers DEF Fields, RuleTypeOK
<1>2. StepInv' /\ ContainerInv'
  BY DEF StepInv, ContainerInv, Sound
<1> QED
  BY <1>1, <1>2, NoTiming

LEMMA BeginInv ==
    ASSUME ChaosInv, NEW s \in Scenarios, NEW force \in BOOLEAN, Begin(s, force) PROVE ChaosInv'
<1> USE DEF ChaosInv, Begin, prometheus, docker, readings, history
<1>1. For[s] = For[scenario] /\ t = 0 /\ firing = None
  BY ChaosAssumption DEF TypeOK, StepInv
<1>2. TypeOK'
  <2>1. Switches'
    BY Typing DEF Switches
  <2>2. RuleTypeOK(For[scenario])'
    BY <1>1, Typing DEF Fields, RuleTypeOK
  <2> QED
    BY <1>1, <2>1, <2>2, Typing, TypingNext, Numbers DEF Fields
<1>3. StepInv' /\ ContainerInv'
  BY <1>1 DEF StepInv, ContainerInv, Sound, TypeOK
<1> QED
  BY <1>2, <1>3, NoTiming

LEMMA PreflightInv == ASSUME ChaosInv, Preflight PROVE ChaosInv'
<1> USE DEF ChaosInv, Preflight, Goto, Exit, prometheus, args, readings
<1>1. PICK upKnown \in BOOLEAN, alertKnown \in BOOLEAN, amKnown \in BOOLEAN :
        LET clean == Clean(upKnown, alertKnown, amKnown) IN
        /\ IF clean \/ forced THEN Goto("inject") /\ UNCHANGED readings ELSE Exit("refused")
        /\ trusted' = (clean /\ alertKnown /\ amKnown /\ Serving)
  OBVIOUS
<1>2. /\ pc' \in {"inject", "idle"}
      /\ t' = 0 /\ firing' = None /\ amSeen' = FALSE /\ t = 0
      /\ trusted' \in BOOLEAN /\ outcome' \in {outcome, "refused"}
      /\ trusted' => container = "up" /\ up /\ held = Inactive
  BY <1>1 DEF StepInv, TypeOK, Clean, Serving
<1>3. TypeOK'
  BY <1>2, Numbers DEF TypeOK, RuleTypeOK, Firing
<1>4. StepInv' /\ ContainerInv'
  BY <1>2, Numbers DEF StepInv, ContainerInv, Sound
<1>5. TimingInv'
  BY <1>2, Numbers
     DEF TypeOK, Firing, Inactive, TimingInv, BaselineInv, EarliestInv, OutageInv, CrashInv, SilenceInv
<1> QED
  BY <1>3, <1>4, <1>5

LEMMA InjectInv == ASSUME ChaosInv, Inject PROVE ChaosInv'
<1> USE DEF ChaosInv, Inject, Goto, prometheus, docker, args, readings, Serving
<1>1. /\ container' \in Containers /\ restarted' \in BOOLEAN /\ hit' \in BOOLEAN
      /\ pc' = IF scenario \in Timed THEN "measure" ELSE "wait"
      /\ scenario \in Scenarios
  BY DEF TypeOK, Containers
<1>2. TypeOK'
  BY <1>1 DEF TypeOK, RuleTypeOK
<1>3. StepInv'
  BY <1>1 DEF StepInv
<1>4. ContainerInv'
  BY <1>1 DEF ContainerInv, Sound, Timed, Scenarios
<1>5. BaselineInv' /\ SilenceInv'
  BY <1>1 DEF BaselineInv, SilenceInv
<1>6. EarliestInv' /\ CrashInv'
  BY <1>1 DEF TimingInv, BaselineInv, EarliestInv, CrashInv, YoungerThanT0, StepInv
<1>7. OutageInv'
  BY <1>1, Numbers
     DEF TimingInv, BaselineInv, OutageInv, StepInv, TypeOK, RuleTypeOK, Pending, Firing, Inactive,
         Timed, Scenarios
<1> QED
  BY <1>2, <1>3, <1>4, <1>5, <1>6, <1>7 DEF TimingInv

-----------------------------------------------------------------------------
(* While T0's clock runs, the rule stays younger than it. *)
LEMMA YoungerTick ==
    ASSUME TypeOK, YoungerThanT0, Tick(Serving, For[scenario]), t' = t + 1
    PROVE  YoungerThanT0'
<1>1. PICK for \in Nat \ {0} : for = For[scenario]
  BY Numbers DEF TypeOK
<1>2. RuleTypeOK(for) /\ Serving \in BOOLEAN /\ t \in Nat /\ Tick(Serving, for)
  BY <1>1, Numbers DEF TypeOK, Serving
<1>3. RuleTypeOK(for)'
  BY <1>2, TickFacts
<1>4. /\ held = Inactive /\ held' # Inactive => held' = 0 /\ sinceEval' = 0
      /\ held # Inactive /\ held' # Inactive => held' + sinceEval' <= held + sinceEval + 1
  BY <1>2, HeldFacts
<1>5. ASSUME held' # Inactive PROVE held' + sinceEval' < t + 1
  <2>1. CASE held = Inactive
    BY <1>2, <1>4, <1>5, <2>1
  <2>2. CASE held # Inactive
    <3>1. held + sinceEval < t
      BY <2>2 DEF YoungerThanT0
    <3>2. held + sinceEval \in Nat /\ held' + sinceEval' \in Nat
      BY <1>2, <1>3, <1>5, <2>2, Numbers DEF RuleTypeOK
    <3> QED
      BY <1>2, <1>4, <1>5, <2>2, <3>1, <3>2
  <2> QED
    BY <2>1, <2>2
<1> QED
  BY <1>5 DEF YoungerThanT0

(* The clock of a rule whose target is gone. *)
LEMMA OutageTick ==
    ASSUME ChaosInv, trusted, hit, Poll PROVE OutageInv'
<1>0. PICK for \in Nat \ {0} : for = For[scenario]
  BY Numbers DEF ChaosInv, TypeOK
<1>1. /\ pc = "measure" /\ RuleTypeOK(for) /\ t \in Nat /\ Tick(FALSE, for)
      /\ for \in Whole
      /\ UNCHANGED <<docker, args, trusted, hit, pc>> /\ t' = t + 1
      /\ firing \in {None} \cup Nat /\ Onset \in Nat
  <2>1. pc = "measure" /\ scenario \in Timed /\ scenario \in Scenarios
    BY DEF Poll, ChaosInv, StepInv, TypeOK
  <2>2. Serving = FALSE
    BY <2>1 DEF ChaosInv, TimingInv, OutageInv, Serving
  <2>3. RuleTypeOK(for) /\ t \in Nat /\ firing \in {None} \cup Nat
    BY <1>0, <2>1, Numbers DEF ChaosInv, TypeOK, None
  <2>4. for \in Whole
    BY <1>0, <2>1, WholeFacts
  <2>5. Tick(FALSE, for) /\ t' = t + 1 /\ UNCHANGED <<docker, args, trusted, hit, pc>>
    BY <1>0, <2>2 DEF Poll
  <2>6. Onset \in Nat
    BY Numbers DEF Onset
  <2> QED
    BY <2>1, <2>3, <2>4, <2>5, <2>6
<1>2. /\ container \in {"dead", "oom"}
      /\ held \in {Inactive} \cup Whole
      /\ up => held = Inactive /\ t <= InjectTicks + sinceScrape
      /\ ~up /\ held = Inactive => t <= InjectTicks + ScrapeEvery + sinceEval
      /\ Pending(for) => t <= Onset + (held + sinceEval)
      /\ Firing(for) /\ asked => firing # None
      /\ asked /\ firing # None => firing <= Onset + for
  BY <1>0, <1>1 DEF ChaosInv, TimingInv, OutageInv
<1>3. /\ up' = (sinceScrape' # 0 /\ up) /\ RuleTypeOK(for)'
      /\ sinceScrape' = IF sinceScrape + 1 = ScrapeEvery THEN 0 ELSE sinceScrape + 1
      /\ sinceEval' = IF sinceEval + 1 = EvalEvery THEN 0 ELSE sinceEval + 1
  BY <1>1, TickFacts DEF RuleTypeOK
<1>4. PICK known \in BOOLEAN : Seen(held' = for, known)
  BY <1>0 DEF Poll
<1>5. /\ firing' = IF firing = None /\ known /\ held' = for THEN t' ELSE firing
      /\ asked' => asked /\ known
  BY <1>4 DEF Seen
<1>h. /\ held = Inactive /\ held' # Inactive => held' = 0 /\ sinceEval' = 0
      /\ held # Inactive /\ held' # Inactive => held' + sinceEval' <= held + sinceEval + 1
      /\ held # Inactive /\ held' \notin {Inactive, for} =>
             held' + sinceEval' = held + sinceEval + 1
      /\ held # Inactive => held' \in {Inactive, held, held + EvalEvery, for}
      /\ held' # held => sinceEval' = 0 /\ sinceEval + 1 = EvalEvery
      /\ held = for => held' \in {Inactive, for}
      /\ up /\ up' => held' = IF sinceEval' = 0 THEN Inactive ELSE held
      /\ ~up /\ ~up' /\ (held # Inactive \/ sinceEval' = 0) => held' # Inactive
  BY <1>1, HeldFacts, SampleFacts
<1> USE Numbers
<1>6. held' \in {Inactive} \cup Whole
  BY <1>1, <1>2, <1>h, WholeFacts
<1>7. up' => held' = Inactive /\ t' <= InjectTicks + sinceScrape'
  <2> SUFFICES ASSUME up' PROVE held' = Inactive /\ t' <= InjectTicks + sinceScrape'
    OBVIOUS
  <2>1. up /\ sinceScrape' = sinceScrape + 1
    BY <1>3
  <2>2. held' = Inactive
    BY <1>2, <1>h, <2>1
  <2> QED
    BY <1>1, <1>2, <2>1, <2>2 DEF RuleTypeOK
<1>8. ~up' /\ held' = Inactive => t' <= InjectTicks + ScrapeEvery + sinceEval'
  BY <1>1, <1>2, <1>3, <1>h DEF RuleTypeOK
<1>9. held' \notin {Inactive, for} => t' <= Onset + (held' + sinceEval')
  <2> SUFFICES ASSUME held' \notin {Inactive, for} PROVE t' <= Onset + (held' + sinceEval')
    OBVIOUS
  <2>1. CASE held = Inactive
    <3>1. held' = 0 /\ sinceEval' = 0
      BY <1>h, <2>1
    <3>2. sinceScrape + 1 <= ScrapeEvery /\ sinceEval + 1 <= EvalEvery
      BY <1>1 DEF RuleTypeOK
    <3>3. t + 1 <= InjectTicks + ScrapeEvery + EvalEvery
      <4>1. CASE up
        BY <1>1, <1>2, <3>2, <4>1 DEF RuleTypeOK
      <4>2. CASE ~up
        BY <1>1, <1>2, <2>1, <3>2, <4>2 DEF RuleTypeOK
      <4> QED
        BY <4>1, <4>2
    <3> QED
      BY <1>1, <3>1, <3>3 DEF Onset
  <2>2. CASE held # Inactive
    <3>1. held # for
      BY <1>h
    <3>2. held < for /\ t <= Onset + (held + sinceEval)
      BY <1>1, <1>2, <2>2, <3>1 DEF Pending, RuleTypeOK, Inactive
    <3>3. held' + sinceEval' = held + sinceEval + 1 /\ held \in Nat /\ held' \in Nat
      BY <1>1, <1>3, <1>h, <2>2 DEF RuleTypeOK
    <3>4. sinceEval \in Nat /\ sinceEval' \in Nat
      BY <1>1, <1>3 DEF RuleTypeOK
    <3>5. PICK now \in Nat, age \in Nat, onset \in Nat :
            now = t /\ age = held + sinceEval /\ onset = Onset
      BY <1>1, <3>3, <3>4
    <3>6. t' = now + 1 /\ held' + sinceEval' = age + 1 /\ now <= onset + age
      BY <1>1, <3>2, <3>3, <3>5
    <3>7. now + 1 <= onset + (age + 1)
      BY <3>6
    <3> QED
      BY <3>5, <3>6, <3>7
  <2> QED
    BY <2>1, <2>2
<1>10. Firing(for)' /\ asked' => firing' # None
  BY <1>1, <1>2, <1>5 DEF Firing, None
<1>11. asked' /\ firing' # None => firing' <= Onset + for
  <2> SUFFICES ASSUME asked', firing' # None, firing = None PROVE t' <= Onset + for
    BY <1>2, <1>5
  <2>1. held' = for /\ held # for
    BY <1>2, <1>5 DEF Firing
  <2>2. held # Inactive
    BY <1>1, <1>h, <2>1 DEF Inactive
  <2>3. sinceEval + 1 = EvalEvery
    BY <1>h, <2>1
  <2>4. held \in Whole /\ held < for
    BY <1>1, <1>2, <2>1, <2>2 DEF RuleTypeOK, Inactive
  <2>5. held + EvalEvery <= for
    BY <1>1, <2>4, WholeFacts
  <2>6. t <= Onset + (held + sinceEval)
    BY <1>2, <2>2, <2>4 DEF Pending
  <2>7. held \in Nat /\ sinceEval \in Nat
    <3>1. held \in Nat
      BY <2>4, WholeFacts
    <3>2. sinceEval \in Nat
      BY <1>1 DEF RuleTypeOK
    <3> QED
      BY <3>1, <3>2
  <2>8. PICK onset \in Nat, now \in Nat, h \in Nat, e \in Nat :
          onset = Onset /\ now = t /\ h = held /\ e = sinceEval
    BY <1>1, <2>7
  <2>9. now <= onset + (h + e) /\ h + (e + 1) <= for
    BY <2>3, <2>5, <2>6, <2>8
  <2>10. now + 1 <= onset + for
    BY <1>0, <2>8, <2>9
  <2> QED
    BY <1>1, <2>8, <2>10
<1> QED
  BY <1>0, <1>1, <1>2, <1>6, <1>7, <1>8, <1>9, <1>10, <1>11
     DEF OutageInv, Pending, Firing, docker, args

LEMMA PollInv == ASSUME ChaosInv, Poll PROVE ChaosInv'
<1>0. PICK for \in Nat \ {0}, limit \in Nat \ {0} : for = For[scenario] /\ limit = AlertTimeout[scenario]
  BY Numbers DEF ChaosInv, TypeOK
<1>1. /\ pc = "measure" /\ t # limit /\ RuleTypeOK(for) /\ Serving \in BOOLEAN
      /\ t \in 0 .. limit /\ firing \in {None} \cup 1 .. limit /\ scenario \in Scenarios
      /\ Tick(Serving, for) /\ t' = t + 1
      /\ UNCHANGED <<docker, pc, args, verdicts, trusted, hit, quick>>
  BY <1>0 DEF ChaosInv, TypeOK, Poll, Measured, Serving
<1>2. PICK known \in BOOLEAN : Seen(held' = for, known)
  BY <1>0 DEF Poll
<1>3. /\ firing' = IF firing = None /\ known /\ held' = for THEN t' ELSE firing
      /\ amSeen' \in BOOLEAN /\ asked' \in BOOLEAN
  BY <1>2 DEF Seen, ChaosInv, TypeOK
<1>4. TypeOK'
  <2>1. RuleTypeOK(For[scenario])' /\ t' \in 0 .. limit /\ firing' \in {None} \cup 1 .. limit
    <3>1. RuleTypeOK(for)'
      BY <1>1, TickFacts
    <3>2. t' \in 1 .. limit
      BY <1>1
    <3>3. scenario' = scenario
      BY <1>1 DEF args
    <3> QED
      BY <1>0, <1>1, <1>3, <3>1, <3>2, <3>3 DEF RuleTypeOK
  <2>2. Switches'
    <3>1. paged' \in BOOLEAN
      BY DEF Poll, ChaosInv, TypeOK
    <3> QED
      BY <1>1, <1>3, <3>1, Typing DEF ChaosInv, Switches, docker, args, verdicts
  <2>3. Fields'
    BY <1>0, <1>1, <2>1, Typing DEF ChaosInv, Fields, docker, args, verdicts
  <2> QED
    BY <2>2, <2>3, TypingNext
<1>5. StepInv' /\ ContainerInv'
  BY <1>1 DEF ChaosInv, StepInv, ContainerInv, Sound, docker, args, verdicts
<1>6. EarliestInv'
  <2> SUFFICES ASSUME trusted PROVE YoungerThanT0' /\ (firing' # None => firing' >= for)
    BY <1>0, <1>1 DEF EarliestInv, args
  <2>1. YoungerThanT0 /\ (firing # None => firing >= for)
    BY <1>0, <1>1 DEF ChaosInv, TimingInv, EarliestInv
  <2>2. YoungerThanT0'
    BY <1>0, <1>1, <2>1, YoungerTick DEF ChaosInv
  <2>3. held' = for => t' >= for
    <3> SUFFICES ASSUME held' = for PROVE t' >= for
      OBVIOUS
    <3>1. for + sinceEval' < t'
      BY <2>2 DEF YoungerThanT0, Inactive
    <3>2. PICK now \in Nat, age \in Nat : now = t' /\ age = sinceEval'
      BY <1>1, TickFacts, Numbers DEF RuleTypeOK
    <3> QED
      BY <1>0, <3>1, <3>2
  <2> QED
    BY <1>3, <2>1, <2>2, <2>3
<1>7. OutageInv'
  <2>1. CASE trusted /\ hit
    BY <2>1, OutageTick
  <2>2. CASE ~(trusted /\ hit)
    BY <1>1, <2>2 DEF OutageInv
  <2> QED
    BY <2>1, <2>2
<1>8. BaselineInv' /\ CrashInv' /\ SilenceInv'
  BY <1>1 DEF BaselineInv, CrashInv, SilenceInv
<1> QED
  BY <1>4, <1>5, <1>6, <1>7, <1>8 DEF ChaosInv, TimingInv

LEMMA JudgeInv == ASSUME ChaosInv, Judge PROVE ChaosInv'
<1> USE DEF ChaosInv, Judge, Goto, prometheus, docker, args, history
<1>1. TypeOK'
  <2>1. Switches'
    BY Typing DEF Switches
  <2>2. Fields'
    BY Numbers, Typing DEF Fields, RuleTypeOK
  <2> QED
    BY <2>1, <2>2, TypingNext
<1>2. StepInv' /\ ContainerInv'
  BY DEF StepInv, ContainerInv, Sound
<1> QED
  BY <1>1, <1>2, NoTiming

LEMMA RecoverInv == ASSUME ChaosInv, Recover PROVE ChaosInv'
<1> USE DEF ChaosInv, Recover, Goto, prometheus, args, readings, history
<1>1. /\ container' \in Containers \ {"dead", "oom"} /\ restarted' \in BOOLEAN
      /\ container' = "exiting" => ~restarted'
  BY DEF TypeOK, StepInv, ContainerInv, Sound, Containers, ComposeUp, NeedsRecreation, docker
<1>2. TypeOK'
  BY <1>1 DEF TypeOK, RuleTypeOK
<1>3. StepInv' /\ ContainerInv'
  BY <1>1 DEF StepInv, ContainerInv, Sound
<1>4. TimingInv'
  BY DEF StepInv, Timed, TimingInv, BaselineInv, EarliestInv, OutageInv, CrashInv, SilenceInv
<1> QED
  BY <1>2, <1>3, <1>4

LEMMA HealedInv == ASSUME ChaosInv, Healed PROVE ChaosInv'
<1> USE DEF ChaosInv, Healed, Goto, prometheus, docker, args
<1>1. /\ pc = "wait" /\ pc' = (IF scenario = "crash" THEN "settle" ELSE "verify")
      /\ restarted /\ container \in {"up", "exiting"} /\ scenario \in Scenarios
      /\ Sound => container = "up"
  BY DEF ContainerInv, Sound, Recovered, ReportedHealthy, TypeOK
<1>2. TypeOK'
  <2>1. Switches'
    BY Typing DEF Switches
  <2>2. Fields'
    BY <1>1, Numbers, Typing DEF Fields, RuleTypeOK
  <2> QED
    BY <2>1, <2>2, TypingNext
<1>3. StepInv' /\ ContainerInv'
  BY <1>1, Numbers DEF StepInv, ContainerInv, Sound
<1>4. BaselineInv' /\ EarliestInv' /\ OutageInv' /\ CrashInv'
  BY <1>1 DEF BaselineInv, EarliestInv, OutageInv, CrashInv
<1>5. SilenceInv'
  <2> SUFFICES ASSUME trusted, t < For[scenario] - ScrapeEvery, scenario = "crash"
               PROVE  /\ ~paged /\ ~Firing(For[scenario]) /\ ScrapeEvery < For[scenario]
                      /\ ~up => 0 <= sinceScrape
                      /\ ~up /\ held # Inactive =>
                            held + sinceEval + ScrapeEvery + 1 < For[scenario] + 0
    BY <1>1 DEF SilenceInv, Firing
  <2>1. PICK for \in Nat \ {0} : for = For[scenario]
    BY <1>1, Numbers
  <2>2. t \in Nat /\ sinceScrape \in Nat /\ sinceEval \in Nat /\ ScrapeEvery \in Nat
        /\ held \in {Inactive} \cup Nat
    BY <1>1, <2>1, Numbers DEF TypeOK, RuleTypeOK
  <2>3. YoungerThanT0 /\ ~paged
    BY <1>1, <2>1, <2>2 DEF TimingInv, CrashInv
  <2>4. held # Inactive => held + sinceEval + ScrapeEvery + 1 < for
    BY <2>1, <2>2, <2>3 DEF YoungerThanT0
  <2>5. held # for
    BY <2>2, <2>4 DEF Inactive
  <2> QED
    BY <2>1, <2>2, <2>3, <2>4, <2>5 DEF Firing
<1> QED
  BY <1>2, <1>3, <1>4, <1>5 DEF TimingInv

LEMMA NotHealedInv == ASSUME ChaosInv, NotHealed PROVE ChaosInv'
<1> USE DEF ChaosInv, NotHealed, Goto, prometheus, docker, args, history
<1>1. TypeOK'
  BY Numbers DEF TypeOK, RuleTypeOK
<1>2. StepInv' /\ ContainerInv'
  BY DEF StepInv, ContainerInv, Sound
<1> QED
  BY <1>1, <1>2, NoTiming

LEMMA CheckSilenceInv == ASSUME ChaosInv, CheckSilence PROVE ChaosInv'
<1> USE DEF ChaosInv, CheckSilence, Goto, prometheus, docker, args, history
<1>1. TypeOK'
  BY Numbers DEF TypeOK, RuleTypeOK
<1>2. StepInv' /\ ContainerInv'
  BY DEF StepInv, ContainerInv, Sound
<1> QED
  BY <1>1, <1>2, NoTiming

(* Docker starts a container again, and it comes up. *)
LEMMA RestartsInv == ASSUME ChaosInv, Restarts PROVE ChaosInv'
<1> USE DEF ChaosInv, Restarts, prometheus, args, readings, verdicts, history
<1>1. TypeOK'
  BY DEF TypeOK, RuleTypeOK, Containers
<1>2. StepInv' /\ ContainerInv'
  BY DEF StepInv, ContainerInv, Sound
<1>3. TimingInv'
  BY DEF TimingInv, BaselineInv, EarliestInv, OutageInv, CrashInv, SilenceInv, YoungerThanT0,
         Pending, Firing
<1> QED
  BY <1>1, <1>2, <1>3

LEMMA ServesInv == ASSUME ChaosInv, Serves PROVE ChaosInv'
<1> USE DEF ChaosInv, Serves, prometheus, args, readings, verdicts, history
<1>1. TypeOK'
  BY DEF TypeOK, RuleTypeOK, Containers
<1>2. StepInv' /\ ContainerInv'
  BY DEF StepInv, ContainerInv, Sound
<1>3. TimingInv'
  BY DEF TimingInv, BaselineInv, EarliestInv, OutageInv, CrashInv, SilenceInv, YoungerThanT0,
         Pending, Firing
<1> QED
  BY <1>1, <1>2, <1>3

LEMMA BetweenInv == ASSUME ChaosInv, Crashes \/ StartedByHand PROVE ChaosInv'
<1> USE DEF ChaosInv, Crashes, StartedByHand, prometheus, args, readings, verdicts, history
<1>1. TypeOK'
  BY DEF TypeOK, RuleTypeOK, Containers
<1>2. StepInv' /\ ContainerInv'
  BY DEF StepInv, ContainerInv, Sound
<1> QED
  BY <1>1, <1>2, NoTiming

-----------------------------------------------------------------------------
(* What the script counts while it does not measure. *)
LEMMA ClockFacts ==
    ASSUME TypeOK, StepInv, pc # "measure", Clock
    PROVE  /\ t' \in 0 .. AlertTimeout[scenario]
           /\ pc \in {"inject", "settle"} => t' = t + 1
           /\ pc = "inject" => t' <= InjectTicks
           /\ pc = "settle" => t' <= Settle
           /\ pc \in {"idle", "preflight", "recover", "verify"} => t' = t
           /\ pc = "wait" /\ scenario = "crash" /\ t' < For[scenario] => t' = t + 1 /\ t < For[scenario]
<1>1. PICK for \in Nat \ {0}, limit \in Nat \ {0} :
        for = For[scenario] /\ limit = AlertTimeout[scenario]
  BY Numbers DEF TypeOK
<1>2. t \in 0 .. limit /\ for <= limit /\ InjectTicks <= limit /\ Settle <= limit
  BY <1>1, Numbers DEF TypeOK
<1>3. CASE pc = "inject"
  BY <1>1, <1>2, <1>3, Numbers DEF Clock
<1>4. CASE pc = "settle"
  BY <1>1, <1>2, <1>4, Numbers DEF Clock
<1>5. CASE pc = "wait" /\ scenario = "crash"
  <2>1. t' = IF t < for THEN t + 1 ELSE t
    BY <1>1, <1>5 DEF Clock
  <2> QED
    BY <1>1, <1>2, <1>5, <2>1
<1>6. CASE pc \notin {"inject", "settle"} /\ ~(pc = "wait" /\ scenario = "crash")
  <2>1. t' = t
    BY <1>6 DEF Clock
  <2> QED
    BY <1>1, <1>2, <1>6, <2>1
<1> QED
  BY <1>3, <1>4, <1>5, <1>6

LEMMA OneLater ==
    ASSUME NEW a \in Nat, NEW b \in Nat, NEW c \in Nat, NEW d \in Nat, NEW s \in Nat,
           NEW f \in Nat, NEW n \in Nat, a + b + s + 1 < f + n, c + d <= a + b + 1
    PROVE  c + d + s + 1 < f + n + 1
OBVIOUS

(* A tick between the recovery from a crash and the second preflight. *)
LEMMA SilenceTick ==
    ASSUME ChaosInv, trusted, quick, pc = "settle", TimePasses PROVE SilenceInv'
<1>0. PICK for \in Nat \ {0} : for = For[scenario]
  BY Numbers DEF ChaosInv, TypeOK
<1>1. /\ RuleTypeOK(for) /\ Tick(TRUE, for) /\ t \in Nat /\ t' = t + 1
      /\ UNCHANGED <<args, pc, trusted, quick>>
      /\ ~paged /\ paged' = (held' = for)
  <2>1. Serving = TRUE
    BY DEF ChaosInv, StepInv, ContainerInv, Sound, Serving
  <2>2. RuleTypeOK(for) /\ t \in Nat
    BY <1>0, Numbers DEF ChaosInv, TypeOK
  <2>3. Tick(TRUE, for) /\ UNCHANGED <<args, pc, trusted, quick>>
    BY <1>0, <2>1 DEF TimePasses
  <2>4. t' = t + 1
    BY ClockFacts DEF ChaosInv, TimePasses
  <2>5. ~paged /\ paged' = (held' = for)
    BY <1>0 DEF ChaosInv, TypeOK, TimePasses, TimingInv, SilenceInv
  <2> QED
    BY <2>2, <2>3, <2>4, <2>5
<1>2. PICK S \in Nat, now \in Nat, scraped \in Nat, scraped2 \in Nat, eval \in Nat, eval2 \in Nat :
        /\ S = ScrapeEvery /\ now = t
        /\ scraped = sinceScrape /\ scraped2 = sinceScrape' /\ scraped < S /\ scraped2 < S
        /\ eval = sinceEval /\ eval2 = sinceEval'
  <2>1. RuleTypeOK(for)'
    BY <1>1, TickFacts
  <2>2. /\ ScrapeEvery \in Nat /\ t \in Nat
        /\ sinceScrape \in Nat /\ sinceScrape < ScrapeEvery
        /\ sinceScrape' \in Nat /\ sinceScrape' < ScrapeEvery
        /\ sinceEval \in Nat /\ sinceEval' \in Nat
    BY <1>1, <2>1, Numbers DEF RuleTypeOK
  <2> QED
    BY <2>2, Zenon
<1>3. /\ held \in {Inactive} \cup 0 .. for /\ held # for /\ S < for
      /\ ~up => now <= scraped
      /\ ~up /\ held # Inactive => held + eval + S + 1 < for + now
  BY <1>0, <1>1, <1>2 DEF ChaosInv, TimingInv, SilenceInv, RuleTypeOK, Firing
<1>4. /\ up \in BOOLEAN /\ up' = (scraped2 = 0 \/ up) /\ held' \in {Inactive} \cup 0 .. for
      /\ scraped2 = IF scraped + 1 = S THEN 0 ELSE scraped + 1
  BY <1>1, <1>2, TickFacts DEF RuleTypeOK
<1>5. /\ held = Inactive /\ held' # Inactive => held' = 0 /\ eval2 = 0
      /\ held # Inactive /\ held' # Inactive => held' + eval2 <= held + eval + 1
      /\ up /\ up' => held' \in {Inactive, held}
  BY <1>1, <1>2, HeldFacts, SampleFacts
<1>6. ~up' => ~up /\ now + 1 <= scraped2
  <2> SUFFICES ASSUME ~up' PROVE ~up /\ now + 1 <= scraped2
    OBVIOUS
  <2>1. ~up /\ scraped2 = scraped + 1
    BY <1>4
  <2>2. now <= scraped
    BY <1>3, <2>1
  <2> QED
    BY <1>2, <2>1, <2>2
<1>7. ~up /\ held' # Inactive => held' + eval2 + S + 1 < for + now + 1
  <2> SUFFICES ASSUME ~up, held' # Inactive PROVE held' + eval2 + S + 1 < for + now + 1
    OBVIOUS
  <2>1. CASE held = Inactive
    BY <1>0, <1>2, <1>3, <1>5, <2>1
  <2>2. CASE held # Inactive
    <3>1. PICK h \in Nat, h2 \in Nat : h = held /\ h2 = held'
      BY <1>3, <1>4, <2>2
    <3>2. h + eval + S + 1 < for + now /\ h2 + eval2 <= h + eval + 1
      BY <1>3, <1>5, <2>2, <3>1
    <3>3. h2 + eval2 + S + 1 < for + now + 1
      BY <3>2, OneLater
    <3> QED
      BY <3>1, <3>3
  <2> QED
    BY <2>1, <2>2
<1>8. held' # for
  <2> SUFFICES ASSUME held' = for PROVE FALSE
    OBVIOUS
  <2>1. ~up
    BY <1>0, <1>3, <1>4, <1>5 DEF Inactive
  <2>2. for + eval2 + S + 1 < for + now + 1
    BY <1>0, <1>7, <2>1 DEF Inactive
  <2>3. now <= scraped /\ scraped < S
    BY <1>2, <1>3, <2>1
  <2> QED
    BY <1>0, <1>2, <2>2, <2>3
<1>9. /\ ~paged' /\ held' # for /\ S < for
      /\ ~up' => t' <= sinceScrape'
      /\ ~up' /\ held' # Inactive => held' + sinceEval' + S + 1 < for + t'
  <2>1. ~up' /\ held' # Inactive => held' + eval2 + S + 1 < for + (now + 1)
    BY <1>0, <1>2, <1>4, <1>6, <1>7
  <2> QED
    BY <1>1, <1>2, <1>3, <1>6, <1>8, <2>1
<1> QED
  BY <1>0, <1>1, <1>2, <1>9 DEF SilenceInv, Firing, args

LEMMA TimePassesInv == ASSUME ChaosInv, TimePasses PROVE ChaosInv'
<1>0. PICK for \in Nat \ {0} : for = For[scenario]
  BY Numbers DEF ChaosInv, TypeOK
<1>1. /\ pc # "measure" /\ Tick(Serving, for) /\ RuleTypeOK(for) /\ Serving \in BOOLEAN
      /\ UNCHANGED <<docker, pc, args, firing, amSeen, verdicts, trusted, hit, asked, quick>>
  BY <1>0 DEF ChaosInv, TypeOK, TimePasses, Serving
<1>2. paged' = (paged \/ (pc # "idle" /\ held' = for))
  BY <1>0 DEF TimePasses
<1>3. RuleTypeOK(for)'
  BY <1>1, TickFacts
<1>4. /\ t' \in 0 .. AlertTimeout[scenario]
      /\ pc = "inject" => t' <= InjectTicks
      /\ pc = "settle" => t' <= Settle
      /\ pc \in {"idle", "preflight", "recover", "verify"} => t' = t
      /\ pc = "wait" /\ scenario = "crash" /\ t' < for => t' = t + 1 /\ t < for
  BY <1>0, ClockFacts DEF ChaosInv, TimePasses
<1>5. TypeOK'
  <2>1. Switches'
    BY <1>1, <1>2, Typing DEF ChaosInv, Switches, docker, args, verdicts
  <2>2. RuleTypeOK(For[scenario])'
    BY <1>0, <1>1, <1>3 DEF RuleTypeOK, args
  <2>3. Fields'
    BY <1>1, <1>4, <2>2, Typing DEF ChaosInv, Fields, docker, args, verdicts
  <2> QED
    BY <2>1, <2>3, TypingNext
<1>6. StepInv' /\ ContainerInv'
  BY <1>1, <1>4 DEF ChaosInv, StepInv, ContainerInv, Sound, docker, args, verdicts
<1>7. BaselineInv'
  <2> SUFFICES ASSUME trusted, pc = "inject" PROVE up' /\ held' = Inactive /\ ~paged'
    BY <1>1 DEF ChaosInv, TimingInv, BaselineInv, docker
  <2>1. Serving = TRUE /\ up /\ held = Inactive /\ ~paged
    BY DEF ChaosInv, TimingInv, BaselineInv, Serving
  <2>2. up' /\ held' = Inactive
    BY <1>1, <2>1, TickFacts, SampleFacts
  <2>3. held' # for
    BY <1>0, <2>2 DEF Inactive
  <2> QED
    BY <1>2, <2>1, <2>2, <2>3
<1>8. EarliestInv' /\ OutageInv'
  BY <1>1 DEF EarliestInv, OutageInv
<1>9. CrashInv'
  <2> SUFFICES ASSUME trusted, pc = "wait", scenario = "crash", t' < for
               PROVE  YoungerThanT0' /\ ~paged'
    BY <1>0, <1>1 DEF CrashInv, args
  <2>1. YoungerThanT0 /\ ~paged /\ t' = t + 1
    BY <1>0, <1>4 DEF ChaosInv, TimingInv, CrashInv
  <2>2. YoungerThanT0'
    BY <1>0, <1>1, <2>1, YoungerTick DEF ChaosInv
  <2>3. held' # for
    <3> SUFFICES ASSUME held' = for PROVE FALSE
      OBVIOUS
    <3>1. for + sinceEval' < t'
      BY <1>0, <2>2 DEF YoungerThanT0, Inactive
    <3>2. PICK now \in Nat, age \in Nat : now = t' /\ age = sinceEval'
      BY <1>3, <1>4, Numbers DEF RuleTypeOK, ChaosInv, TypeOK
    <3>3. for + age < now /\ now < for
      BY <3>1, <3>2
    <3> QED
      BY <1>0, <3>2, <3>3
  <2> QED
    BY <1>2, <2>1, <2>2, <2>3
<1>10. SilenceInv'
  <2>1. CASE trusted /\ quick /\ pc = "settle"
    BY <2>1, SilenceTick
  <2>2. CASE ~(trusted /\ quick /\ pc = "settle")
    BY <1>1, <2>2 DEF SilenceInv
  <2> QED
    BY <2>1, <2>2
<1> QED
  BY <1>5, <1>6, <1>7, <1>8, <1>9, <1>10 DEF ChaosInv, TimingInv

-----------------------------------------------------------------------------
LEMMA ChaosNext == ChaosInv /\ [Next]_vars => ChaosInv'
<1> SUFFICES ASSUME ChaosInv, [Next]_vars PROVE ChaosInv'
  OBVIOUS
<1>1. CASE \E s \in Scenarios, force \in BOOLEAN : Begin(s, force)
  BY <1>1, BeginInv
<1>2. CASE Preflight
  BY <1>2, PreflightInv
<1>3. CASE Inject
  BY <1>3, InjectInv
<1>4. CASE InjectFails
  BY <1>4, ExitInv DEF InjectFails
<1>5. CASE Poll
  BY <1>5, PollInv
<1>6. CASE Judge
  BY <1>6, JudgeInv
<1>7. CASE Recover
  BY <1>7, RecoverInv
<1>8. CASE RecoverFails
  BY <1>8, ExitInv DEF RecoverFails
<1>9. CASE Healed
  BY <1>9, HealedInv
<1>10. CASE NotHealed
  BY <1>10, NotHealedInv
<1>11. CASE CheckSilence
  BY <1>11, CheckSilenceInv
<1>12. CASE Verify
  <2>1. PICK works \in BOOLEAN : Exit(Overall(works))
    BY <1>12 DEF Verify
  <2>2. Overall(works) \in {"PASS", "PARTIAL", "FAIL"}
    BY DEF Overall
  <2> QED
    BY <1>12, <2>1, <2>2, ExitInv DEF Verify
<1>13. CASE Restarts
  BY <1>13, RestartsInv
<1>14. CASE Serves
  BY <1>14, ServesInv
<1>15. CASE Crashes \/ StartedByHand
  BY <1>15, BetweenInv
<1>16. CASE TimePasses
  BY <1>16, TimePassesInv
<1>17. CASE Interrupt
  BY <1>17, ExitInv DEF Interrupt
<1>18. CASE UNCHANGED vars
  <2> USE <1>18 DEF ChaosInv, vars, prometheus, docker, args, readings, verdicts, history
  <2>1. TypeOK'
    BY DEF TypeOK, RuleTypeOK
  <2>2. StepInv' /\ ContainerInv'
    BY DEF StepInv, ContainerInv, Sound
  <2>3. TimingInv'
    BY DEF TimingInv, BaselineInv, EarliestInv, OutageInv, CrashInv, SilenceInv, YoungerThanT0,
           Pending, Firing
  <2> QED
    BY <2>1, <2>2, <2>3
<1> QED
  BY <1>1, <1>2, <1>3, <1>4, <1>5, <1>6, <1>7, <1>8, <1>9, <1>10, <1>11, <1>12, <1>13, <1>14,
     <1>15, <1>16, <1>17, <1>18 DEF Next

(* Whatever the scenario and the order of failures, recovery and time, the
   experiment stays in the states the invariant describes. *)
THEOREM ChaosInvariant == Spec => []ChaosInv
BY ChaosInit, ChaosNext, PTL DEF Spec

(* The script, the container and Prometheus keep to their types. *)
THEOREM ChaosTypeOK == Spec => []TypeOK
BY ChaosInvariant, PTL DEF ChaosInv

(* Whatever an earlier run has left behind, a verdict after kill, oom and depkill is
   printed only once the fault is gone, and PASS only of a process that serves; so it
   is after a crash of a target that served. No run calls a container healthy that
   has not been started since its preflight. *)
THEOREM FaultGone == Spec => FaultIsRemoved
<1> DEFINE Removed ==
      pc = "verify" /\ outcome' \in {"PASS", "PARTIAL", "FAIL"} =>
          /\ scenario \in Timed \/ trusted =>
              /\ container \notin {"dead", "oom"}
              /\ outcome' = "PASS" => Serving
          /\ outcome' # "FAIL" => restarted /\ container \notin {"dead", "oom"}
<1>1. ASSUME ChaosInv, [Next]_vars PROVE [Removed]_vars
  <2> SUFFICES ASSUME Next, pc = "verify", outcome' \in {"PASS", "PARTIAL", "FAIL"}
               PROVE  /\ Sound => /\ container \notin {"dead", "oom"}
                                  /\ outcome' = "PASS" => Serving
                      /\ outcome' # "FAIL" => restarted /\ container \notin {"dead", "oom"}
    BY <1>1 DEF Sound
  <2>1. outcome = "none"
    BY <1>1 DEF ChaosInv, StepInv
  <2>2. Verify
    BY <2>1
       DEF Next, Begin, Preflight, Inject, InjectFails, Poll, Judge, Recover, RecoverFails, Healed,
           NotHealed, CheckSilence, Restarts, Serves, Crashes, StartedByHand, TimePasses,
           Interrupt, Exit, verdicts
  <2>3. outcome' # "FAIL" => healthy
    BY <2>2 DEF Verify, Exit, Overall
  <2> QED
    BY <1>1, <2>3 DEF ChaosInv, ContainerInv, Sound, Serving
<1> QED
  BY <1>1, ChaosInvariant, PTL DEF Spec, FaultIsRemoved

(* A crash that is over one scrape before the rule's for: has raised no page,
   whenever it is that the check reads "no alert". *)
THEOREM SilenceIsTrue == Spec => SilentMeansNoPage
<1> DEFINE True == pc = "settle" /\ alerting' = "silent" /\ trusted /\ quick => ~paged
<1>1. ASSUME ChaosInv, [Next]_vars PROVE [True]_vars
  BY <1>1 DEF ChaosInv, TimingInv, SilenceInv
<1> QED
  BY <1>1, ChaosInvariant, PTL DEF Spec, SilentMeansNoPage

(* Where the injection took effect and every poll is answered, the deadline
   does not come before the alert has been seen. *)
LEMMA SeenInTime ==
    ASSUME ChaosInv, trusted, hit, asked, pc = "measure", t = AlertTimeout[scenario]
    PROVE  firing # None
<1> SUFFICES ASSUME firing = None PROVE FALSE
  OBVIOUS
<1>1. PICK for \in Nat \ {0}, limit \in Nat \ {0} : for = For[scenario] /\ limit = AlertTimeout[scenario]
  BY Numbers DEF ChaosInv, TypeOK
<1>2. /\ up => held = Inactive /\ t <= InjectTicks + sinceScrape
      /\ ~up /\ held = Inactive => t <= InjectTicks + ScrapeEvery + sinceEval
      /\ held # Inactive /\ held < for => t <= Onset + (held + sinceEval)
      /\ held \in {Inactive} \cup Whole /\ held # for
  BY <1>1 DEF ChaosInv, TimingInv, OutageInv, Pending, Firing
<1>3. /\ sinceScrape \in 0 .. ScrapeEvery - 1 /\ sinceEval \in 0 .. EvalEvery - 1
      /\ held \in {Inactive} \cup 0 .. for /\ t = limit /\ up \in BOOLEAN
  BY <1>1 DEF ChaosInv, TypeOK, RuleTypeOK
<1>4. Onset + for <= limit /\ for \in Whole
  <2>1. scenario \in Timed
    BY DEF ChaosInv, StepInv
  <2>2. Onset + For[scenario] <= Latest[scenario] /\ Latest[scenario] <= AlertTimeout[scenario]
    BY <2>1, WindowAssumption DEF Onset
  <2>3. Latest[scenario] \in Nat
    BY <2>1, Numbers
  <2> QED
    BY <1>1, <2>1, <2>2, <2>3, Numbers, WholeFacts DEF Onset
<1>5. CASE held = Inactive
  BY <1>1, <1>2, <1>3, <1>4, <1>5, Numbers DEF Onset
<1>6. CASE held # Inactive
  <2>1. held \in Whole /\ held < for /\ held + EvalEvery <= for
    BY <1>2, <1>3, <1>4, <1>6, WholeFacts
  <2>2. limit <= Onset + (held + sinceEval)
    BY <1>2, <1>3, <1>6, <2>1
  <2> QED
    BY <1>1, <1>3, <1>4, <1>6, <2>1, <2>2, Numbers DEF Onset
<1> QED
  BY <1>5, <1>6

(* The timing verdict: not sooner than the rule's for:, so it is this failure
   that fired; and where the injection took effect and every poll was answered,
   it did fire, no later than the window says. *)
THEOREM VerdictIsRight == Spec => AlertVerdictIsRight
<1> DEFINE Right ==
      pc = "measure" /\ alerting' # alerting /\ trusted =>
          /\ alerting' = "PASS" => firing >= For[scenario]
          /\ hit /\ asked => alerting' = "PASS" /\ firing <= Latest[scenario]
<1>1. ASSUME ChaosInv, [Next]_vars PROVE [Right]_vars
  <2> SUFFICES ASSUME Next, pc = "measure", alerting' # alerting, trusted
               PROVE  /\ alerting' = "PASS" => firing >= For[scenario]
                      /\ hit /\ asked => alerting' = "PASS" /\ firing <= Latest[scenario]
    BY <1>1
  <2>1. Judge
    BY DEF Next, Begin, Preflight, Inject, InjectFails, Poll, Recover, RecoverFails, Healed,
           NotHealed, CheckSilence, Verify, Restarts, Serves, Crashes, StartedByHand, TimePasses,
           Interrupt, verdicts
  <2>2. alerting' = (IF firing = None THEN "FAIL" ELSE "PASS") /\ Measured
    BY <2>1 DEF Judge
  <2>3. firing # None => firing >= For[scenario]
    BY <1>1 DEF ChaosInv, TimingInv, EarliestInv
  <2>4. ASSUME hit, asked PROVE firing # None /\ firing <= Latest[scenario]
    <3>1. firing # None
      BY <1>1, <2>2, <2>4, SeenInTime DEF Measured, SeenInBoth
    <3>2. firing <= Onset + For[scenario]
      BY <1>1, <2>4, <3>1 DEF ChaosInv, TimingInv, OutageInv
    <3>3. scenario \in Timed
      BY <1>1 DEF ChaosInv, StepInv
    <3>4. Onset + For[scenario] <= Latest[scenario]
      BY <3>3, WindowAssumption DEF Onset
    <3>5. /\ Onset \in Nat /\ For[scenario] \in Nat /\ Latest[scenario] \in Nat
          /\ AlertTimeout[scenario] \in Nat
      BY <3>3, Numbers DEF Onset
    <3>6. firing \in Nat
      BY <1>1, <3>1, <3>5 DEF ChaosInv, TypeOK
    <3> QED
      BY <3>1, <3>2, <3>4, <3>5, <3>6
  <2> QED
    BY <2>2, <2>3, <2>4
<1> QED
  BY <1>1, ChaosInvariant, PTL DEF Spec, AlertVerdictIsRight
=============================================================================
