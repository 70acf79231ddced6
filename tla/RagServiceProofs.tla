--------------------------- MODULE RagServiceProofs ---------------------------
(* What holds of RAGService: of its queries (RagBreaker) for any number of
   threads and any limits, and of its index (RagIndex) for any chunks, ingesters,
   queriers and size. The two share no state. *)
EXTENDS RagBreaker, RagIndex, FiniteSetTheorems, TLAPS

Inside == {"attempt", "backoff"}

(* One thread at a time is inside the breaker. *)
HolderInv ==
    /\ \A t \in Threads : pc[t] \in Inside <=> holder = t
    /\ holder = NoThread => tries = 0 /\ timer = 0 /\ spent = 0

(* What the breaker's counter says while the circuit is closed, that the thread
   whose failure opens the circuit has left, and that a probe comes in time. *)
CircuitInv ==
    /\ circuit = "open" => holder = NoThread
    /\ circuit = "closed" => fails = inRow /\ fails < FailMax
    /\ circuit # "closed" => inRow = FailMax
    /\ circuit = "half_open" => opened = ResetTimeout

(* How long n attempts and the waits after them take. *)
Elapsed(n) == n * (LongestAttempt + Backoff)

(* The time the call in the breaker has taken, by the step it is at. *)
TimeInv ==
    holder # NoThread =>
        /\ tries \in 1 .. MaxAttempts
        /\ pc[holder] = "attempt" => timer <= LongestAttempt /\ spent <= Elapsed(tries - 1) + timer
        /\ pc[holder] = "backoff" => /\ timer <= Backoff /\ tries < MaxAttempts
                                     /\ spent <= Elapsed(tries - 1) + LongestAttempt + timer

BreakerInv == TypeOK /\ HolderInv /\ CircuitInv /\ TimeInv

(* What the calls of an outage have cost: those that failed, by the counter of a
   closed circuit, and the one in the breaker. *)
WasteInv ==
    /\ circuit = "open" => wasted = 0
    /\ circuit = "half_open" => wasted <= spent
    /\ circuit = "closed" => wasted <= fails * WorstCase + spent
    /\ groq = "up" => wasted = 0

-----------------------------------------------------------------------------
(* The limits are numbers; a longer call takes longer. *)
LEMMA Limits ==
    /\ NoThread \notin Threads
    /\ FailMax \in Nat \ {0} /\ ResetTimeout \in Nat \ {0} /\ MaxAttempts \in Nat \ {0}
    /\ LongestAttempt \in Nat /\ Backoff \in Nat /\ Horizon \in Nat \ {0}
<1>1. /\ NoThread \notin Threads
      /\ FailMax \in Nat \ {0} /\ ResetTimeout \in Nat \ {0} /\ MaxAttempts \in Nat \ {0}
      /\ Backoff \in Nat /\ Horizon \in Nat \ {0}
      /\ RequestTime \in Nat /\ ClientRetries \in Nat /\ ClientWait \in Nat
  BY RagBreakerAssumption
<1>2. \A m, n \in Nat : m * n \in Nat /\ m + n \in Nat
  OBVIOUS
<1>3. (ClientRetries + 1) * RequestTime \in Nat /\ ClientRetries * ClientWait \in Nat
  BY <1>1, <1>2
<1> QED
  BY <1>1, <1>2, <1>3 DEF LongestAttempt

LEMMA ElapsedFacts ==
    /\ Elapsed(0) = 0
    /\ \A n \in Nat : /\ Elapsed(n) \in Nat
                      /\ Elapsed(n + 1) = Elapsed(n) + LongestAttempt + Backoff
    /\ \A m, n \in Nat : m <= n => Elapsed(m) <= Elapsed(n)
<1> DEFINE each == LongestAttempt + Backoff
<1>1. each \in Nat
  BY Limits
<1>2. \A n \in Nat : n * each \in Nat /\ (n + 1) * each = n * each + each
  BY <1>1
<1>3. ASSUME NEW m \in Nat, NEW n \in Nat, m <= n PROVE m * each <= n * each
  <2>1. n - m \in Nat /\ n = m + (n - m)
    BY <1>3
  <2>2. (n - m) * each \in Nat /\ n * each = m * each + (n - m) * each
    BY <1>1, <2>1
  <2> HIDE DEF each
  <2>3. m * each \in Nat
    BY <1>2
  <2> QED
    BY <2>2, <2>3
<1> QED
  BY <1>1, <1>2, <1>3, Limits DEF Elapsed

(* What a reply changes. *)
LEMMA ReplyFacts ==
    ASSUME TypeOK, NEW t \in Threads, NEW result \in Answers, Reply(t, result)
    PROVE  /\ pc' \in [Threads -> {"idle", "lock", "attempt", "backoff"}]
           /\ pc'[t] = "idle" /\ \A u \in Threads \ {t} : pc'[u] = pc[u]
           /\ answer' \in [Threads -> Answers]
BY DEF Reply, TypeOK

(* The service starts with a closed circuit. *)
LEMMA BreakerInit == Init => BreakerInv
<1> SUFFICES ASSUME Init PROVE BreakerInv
  OBVIOUS
<1>1. TypeOK
  BY Limits DEF Init, TypeOK, Answers
<1>2. HolderInv /\ CircuitInv /\ TimeInv
  BY Limits DEF Init, HolderInv, CircuitInv, TimeInv, Inside
<1> QED
  BY <1>1, <1>2 DEF BreakerInv

-----------------------------------------------------------------------------
(* A query arrives. *)
LEMMA QueryInv == ASSUME BreakerInv, NEW t \in Threads, Query(t) PROVE BreakerInv'
<1> USE DEF BreakerInv
<1>0. /\ pc' \in [Threads -> {"idle", "lock", "attempt", "backoff"}]
      /\ pc'[t] \in {"idle", "lock"} /\ \A u \in Threads \ {t} : pc'[u] = pc[u]
      /\ answer' \in [Threads -> Answers]
  <2>1. CASE Reply(t, "error") \/ Reply(t, "no_context")
    BY <2>1, ReplyFacts DEF Answers
  <2>2. CASE pc' = [pc EXCEPT ![t] = "lock"] /\ UNCHANGED answer
    BY <2>2 DEF TypeOK
  <2> QED
    BY <2>1, <2>2 DEF Query
<1>1. TypeOK'
  BY <1>0 DEF Query, TypeOK, breakerVars, callVars, history
<1>2. HolderInv' /\ CircuitInv'
  BY <1>0 DEF Query, HolderInv, CircuitInv, Inside, breakerVars, callVars, history
<1>3. TimeInv'
  <2>1. holder # NoThread => holder \in Threads \ {t}
    BY DEF Query, HolderInv, Inside, TypeOK
  <2> QED
    BY <1>0, <2>1 DEF Query, TimeInv, breakerVars, callVars, history
<1> QED
  BY <1>1, <1>2, <1>3

(* A thread enters the breaker. *)
LEMMA EnterInv == ASSUME BreakerInv, NEW t \in Threads, Enter(t) PROVE BreakerInv'
<1> USE DEF BreakerInv
<1>1. /\ pc' \in [Threads -> {"idle", "lock", "attempt", "backoff"}]
      /\ pc'[t] = "attempt" /\ \A u \in Threads \ {t} : pc'[u] = pc[u]
  BY DEF Enter, Attempt, TypeOK
<1>2. tries' = 1 /\ timer' = 0 /\ spent' = 0 /\ holder' = t
  BY DEF Enter, Attempt, HolderInv, history
<1>3. TypeOK'
  BY <1>1, <1>2, Limits DEF Enter, TypeOK, history
<1>4. HolderInv' /\ CircuitInv'
  BY <1>1, <1>2, Limits DEF Enter, HolderInv, CircuitInv, Inside, TypeOK, history
<1>5. TimeInv'
  BY <1>1, <1>2, Limits, ElapsedFacts DEF TimeInv
<1> QED
  BY <1>3, <1>4, <1>5

(* A thread is turned away. *)
LEMMA RejectedInv == ASSUME BreakerInv, NEW t \in Threads, Rejected(t) PROVE BreakerInv'
<1> USE DEF BreakerInv
<1>1. Reply(t, "circuit_open") /\ "circuit_open" \in Answers
  BY DEF Rejected, Answers
<1>2. TypeOK'
  BY <1>1, ReplyFacts DEF Rejected, StayOpen, TypeOK, callVars, history
<1>3. HolderInv' /\ CircuitInv' /\ TimeInv'
  BY <1>1, ReplyFacts, Limits
     DEF Rejected, StayOpen, HolderInv, CircuitInv, TimeInv, Inside, callVars, history
<1> QED
  BY <1>2, <1>3

(* A thread leaves the breaker, with the circuit and its counter as they are
   then: both ways out keep the two together. *)
LEMMA LeaveInv ==
    ASSUME BreakerInv, NEW t \in Threads, NEW result \in Answers,
           pc[t] = "attempt", Leave(t, result), UNCHANGED groq,
           circuit' \in {"closed", "open", "half_open"}, CircuitInv',
           fails' \in 0 .. FailMax, opened' \in 0 .. ResetTimeout, inRow' \in 0 .. FailMax, wasted' \in 0 .. Horizon
    PROVE  BreakerInv'
<1> USE DEF BreakerInv
<1>1. holder = t
  BY DEF HolderInv, Inside
<1>2. TypeOK'
  BY ReplyFacts, Limits DEF Leave, TypeOK
<1>3. HolderInv' /\ TimeInv'
  BY <1>1, ReplyFacts, Limits DEF Leave, HolderInv, TimeInv, Inside
<1> QED
  BY <1>2, <1>3

(* A call that succeeds. *)
LEMMA SucceedsInv == ASSUME BreakerInv, NEW t \in Threads, Succeeds(t) PROVE BreakerInv'
<1>1. CircuitInv'
  BY Limits DEF Succeeds, Close, Leave, CircuitInv
<1>2. "llm" \in Answers
  BY DEF Answers
<1> QED
  BY <1>1, <1>2, LeaveInv, Limits DEF Succeeds, Close, BreakerInv, TypeOK

(* A call whose last attempt fails. *)
LEMMA GivesUpInv == ASSUME BreakerInv, NEW t \in Threads, GivesUp(t) PROVE BreakerInv'
<1> USE DEF BreakerInv
<1>1. holder = t
  BY DEF GivesUp, HolderInv, Inside
<1>2. circuit \in {"closed", "half_open"}
  BY <1>1, Limits DEF CircuitInv, TypeOK
<1>3. {"circuit_open", "failed"} \subseteq Answers
  BY DEF Answers
<1>4. inRow' \in 0 .. FailMax /\ inRow' = IF inRow < FailMax THEN inRow + 1 ELSE inRow
  BY Limits DEF GivesUp, Older, TypeOK
<1>5. CASE circuit = "half_open" \/ LastFailure
  <2>1. /\ circuit' = "open" /\ opened' = 0 /\ Leave(t, "circuit_open")
        /\ fails' \in 0 .. FailMax
    BY <1>5, Limits DEF GivesUp, Older, TypeOK
  <2>2. inRow' = FailMax
    BY <1>2, <1>4, <1>5, Limits DEF CircuitInv, LastFailure, TypeOK
  <2>3. CircuitInv'
    BY <2>1, <2>2 DEF Leave, CircuitInv
  <2>4. wasted' \in 0 .. Horizon
    BY <1>5, Limits DEF GivesUp
  <2> QED
    BY <1>3, <1>4, <2>1, <2>3, <2>4, LeaveInv, Limits DEF GivesUp
<1>6. CASE ~(circuit = "half_open" \/ LastFailure)
  <2>1. /\ fails' = fails + 1 /\ circuit' = circuit /\ opened' = opened /\ Leave(t, "failed")
        /\ fails' \in 0 .. FailMax /\ fails' < FailMax
    BY <1>6, Limits DEF GivesUp, LastFailure, Older, TypeOK
  <2>2. CircuitInv'
    BY <1>2, <1>4, <1>6, <2>1, Limits DEF Leave, CircuitInv, LastFailure, TypeOK
  <2> QED
    BY <1>3, <1>4, <2>1, <2>2, LeaveInv, Limits DEF GivesUp, TypeOK
<1> QED
  BY <1>5, <1>6

(* The retries: the time that an attempt and the wait after it have taken. *)
LEMMA RetryLaterInv == ASSUME BreakerInv, NEW t \in Threads, RetryLater(t) PROVE BreakerInv'
<1> USE DEF BreakerInv
<1>1. /\ pc' \in [Threads -> {"idle", "lock", "attempt", "backoff"}]
      /\ pc'[t] = "backoff" /\ \A u \in Threads \ {t} : pc'[u] = pc[u]
  BY DEF RetryLater, TypeOK
<1>2. holder = t /\ pc[t] = "attempt" /\ t # NoThread
  BY Limits DEF RetryLater, HolderInv, Inside
<1>3. TypeOK'
  BY <1>1, Limits DEF RetryLater, TypeOK, breakerVars, history
<1>4. HolderInv' /\ CircuitInv'
  BY <1>1, <1>2 DEF RetryLater, HolderInv, CircuitInv, Inside, breakerVars, history
<1>5. Elapsed(tries - 1) \in Nat
  BY <1>2, ElapsedFacts, Limits DEF TimeInv, TypeOK
<1>6. TimeInv'
  BY <1>1, <1>2, <1>5, Limits
     DEF RetryLater, AttemptsLeft, TimeInv, TypeOK, breakerVars, history
<1> QED
  BY <1>3, <1>4, <1>6

(* The wait is over. *)
LEMMA RetryInv == ASSUME BreakerInv, NEW t \in Threads, Retry(t) PROVE BreakerInv'
<1> USE DEF BreakerInv
<1>1. /\ pc' \in [Threads -> {"idle", "lock", "attempt", "backoff"}]
      /\ pc'[t] = "attempt" /\ \A u \in Threads \ {t} : pc'[u] = pc[u]
      /\ tries' = tries + 1 /\ timer' = 0
  BY DEF Retry, Attempt, TypeOK
<1>2. /\ holder = t /\ t # NoThread /\ holder' = t /\ spent' = spent
      /\ pc[t] = "backoff" /\ timer = Backoff
  BY Limits DEF Retry, HolderInv, Inside, breakerVars, history
<1>3. tries \in 1 .. MaxAttempts /\ tries < MaxAttempts
  BY <1>2 DEF TimeInv
<1>4. TypeOK'
  BY <1>1, <1>3, Limits DEF Retry, TypeOK, breakerVars, history
<1>5. HolderInv' /\ CircuitInv'
  BY <1>1, <1>2, Limits DEF Retry, HolderInv, CircuitInv, Inside, breakerVars, history
<1>6. Elapsed(tries - 1) \in Nat /\ Elapsed(tries) = Elapsed(tries - 1) + LongestAttempt + Backoff
  <2>1. tries - 1 \in Nat /\ (tries - 1) + 1 = tries
    BY <1>3, Limits
  <2> QED
    BY <2>1, ElapsedFacts
<1>7. tries' - 1 = tries
  BY <1>1, <1>3, Limits
<1>8. TimeInv'
  BY <1>1, <1>2, <1>3, <1>6, <1>7, Limits DEF TimeInv, TypeOK
<1> QED
  BY <1>4, <1>5, <1>8

(* A second passes. *)
LEMMA TickInv == ASSUME BreakerInv, Tick PROVE BreakerInv'
<1> USE DEF BreakerInv
<1>1. /\ opened' \in 0 .. ResetTimeout
      /\ spent' \in 0 .. Horizon /\ spent' <= spent + 1
      /\ wasted' \in 0 .. Horizon
  BY Limits DEF Tick, Older, TypeOK
<1>2. ASSUME holder # NoThread
      PROVE  /\ \/ pc[holder] = "attempt" /\ timer < LongestAttempt
                \/ pc[holder] = "backoff" /\ timer < Backoff
             /\ timer' = timer + 1
  <2>1. holder \in Threads
    BY <1>2 DEF TypeOK
  <2>2. pc[holder] \in Inside
    BY <2>1 DEF HolderInv
  <2> QED
    BY <1>2, <2>1, <2>2 DEF Tick, Inside
<1>3. timer' \in 0 .. LongestAttempt + Backoff
  BY <1>2, Limits DEF Tick, TypeOK
<1>4. TypeOK'
  BY <1>1, <1>3 DEF Tick, TypeOK
<1>5. HolderInv' /\ CircuitInv'
  <2>1. opened = ResetTimeout => opened' = ResetTimeout
    BY Limits DEF Tick, Older
  <2> QED
    BY <2>1 DEF Tick, HolderInv, CircuitInv
<1>6. TimeInv'
  <2>1. SUFFICES ASSUME holder # NoThread PROVE TimeInv'
    BY DEF TimeInv, Tick
  <2>2. tries \in 1 .. MaxAttempts /\ tries - 1 \in Nat
    BY <2>1, Limits DEF TimeInv
  <2>3. Elapsed(tries - 1) \in Nat
    BY <2>2, ElapsedFacts
  <2> QED
    BY <1>1, <1>2, <2>1, <2>2, <2>3, Limits DEF Tick, TimeInv, TypeOK
<1> QED
  BY <1>4, <1>5, <1>6

(* Groq comes or goes. *)
LEMMA GroqChangesInv == ASSUME BreakerInv, GroqChanges \/ UNCHANGED vars PROVE BreakerInv'
<1> USE DEF BreakerInv
<1>1. /\ UNCHANGED <<breakerVars, pc, callVars, answer, spent, inRow>>
      /\ groq' \in {"up", "down"} /\ wasted' \in 0 .. Horizon
  BY Limits DEF GroqChanges, vars, history, TypeOK
<1>2. TypeOK'
  BY <1>1 DEF TypeOK, breakerVars, callVars
<1>3. HolderInv' /\ CircuitInv' /\ TimeInv'
  BY <1>1 DEF HolderInv, CircuitInv, TimeInv, breakerVars, callVars
<1> QED
  BY <1>2, <1>3

(* The invariant that the theorems below rest on. *)
THEOREM BreakerInvariant == Spec => []BreakerInv
<1>1. BreakerInv /\ [Next]_vars => BreakerInv'
  BY QueryInv, EnterInv, RejectedInv, SucceedsInv, RetryLaterInv, RetryInv, GivesUpInv, TickInv,
     GroqChangesInv DEF Next, Call
<1> QED
  BY <1>1, BreakerInit, PTL DEF Spec

-----------------------------------------------------------------------------
(* The breaker, its threads and their timers keep their types. *)
THEOREM BreakerTypeOK == Spec => []TypeOK
BY BreakerInvariant, PTL DEF BreakerInv

(* Each step of a worker thread is a step of the abstract breaker or hidden: the
   call takes effect when its thread leaves. *)
LEMMA CallRefines ==
    ASSUME BreakerInv, NEW t \in Threads, Query(t) \/ Call(t)
    PROVE  [Breaker!Next]_Breaker!vars
<1> USE DEF BreakerInv
<1> DEFINE Step ==
      Breaker!Succeed(t) \/ Breaker!FailAndOpen(t) \/ Breaker!Fail(t) \/ Breaker!TurnAway(t)
      \/ Breaker!NoCall(t) \/ UNCHANGED Breaker!vars
<1>0. SUFFICES Step
  BY DEF Breaker!Next
<1>1. CASE Query(t)
  <2>1. UNCHANGED <<circuit, opened, inRow>>
    BY <1>1 DEF Query, breakerVars, history
  <2>2. (\E outcome \in {"no_context", "error"} : Breaker!Tell(t, outcome)) \/ UNCHANGED answer
    BY <1>1 DEF Query, Reply, Breaker!Tell
  <2> QED
    BY <2>1, <2>2 DEF Breaker!NoCall, Breaker!vars
<1>2. CASE Enter(t)
  <2>1. UNCHANGED <<opened, inRow, answer>> /\ (circuit' # "closed" <=> circuit # "closed")
    BY <1>2 DEF Enter, history
  <2> QED
    BY <2>1 DEF Breaker!vars
<1>3. CASE Rejected(t)
  <2>1. UNCHANGED <<circuit, opened, inRow>> /\ circuit = "open" /\ opened < ResetTimeout
    BY <1>3 DEF Rejected, StayOpen, history
  <2>2. opened # ResetTimeout
    BY <2>1, Limits DEF TypeOK
  <2>3. Breaker!Tell(t, "circuit_open")
    BY <1>3 DEF Rejected, Reply, Breaker!Tell
  <2> QED
    BY <2>1, <2>2, <2>3 DEF Breaker!TurnAway, Breaker!Admits
<1>4. CASE Succeeds(t)
  <2>1. circuit # "open" /\ (circuit = "half_open" => opened = ResetTimeout)
    BY <1>4, Limits DEF Succeeds, CircuitInv, HolderInv, Inside
  <2>2. circuit' = "closed" /\ inRow' = 0 /\ opened' = opened
    BY <1>4 DEF Succeeds, Close
  <2>3. Breaker!Tell(t, "llm")
    BY <1>4 DEF Succeeds, Leave, Reply, Breaker!Tell
  <2>4. Breaker!Admits
    BY <2>1 DEF TypeOK, Breaker!Admits
  <2> QED
    BY <2>2, <2>3, <2>4 DEF Breaker!Succeed
<1>5. CASE RetryLater(t) \/ Retry(t)
  BY <1>5 DEF RetryLater, Retry, breakerVars, history, Breaker!vars
<1>6. CASE GivesUp(t)
  <2>1. circuit \in {"closed", "half_open"} /\ (circuit = "half_open" => opened = ResetTimeout)
    BY <1>6, Limits DEF GivesUp, CircuitInv, HolderInv, Inside, TypeOK
  <2>2. inRow' = (IF inRow < FailMax THEN inRow + 1 ELSE inRow) /\ inRow \in 0 .. FailMax
    BY <1>6 DEF GivesUp, Older, TypeOK
  <2>3. CASE circuit = "half_open" \/ LastFailure
    <3>1. circuit' = "open" /\ opened' = 0 /\ Breaker!Tell(t, "circuit_open")
      BY <1>6, <2>3 DEF GivesUp, Leave, Reply, Breaker!Tell
    <3>2. inRow' = FailMax
      BY <2>1, <2>2, <2>3, Limits DEF CircuitInv, LastFailure, TypeOK
    <3>3. circuit = "closed" => inRow + 1 = FailMax
      BY <2>2, <2>3, Limits DEF CircuitInv, LastFailure
    <3>4. Breaker!Admits /\ (circuit # "closed" \/ inRow + 1 = FailMax)
      BY <2>1, <3>3 DEF Breaker!Admits
    <3> QED
      BY <3>1, <3>2, <3>4 DEF Breaker!FailAndOpen
  <2>4. CASE ~(circuit = "half_open" \/ LastFailure)
    <3>1. circuit' = circuit /\ opened' = opened /\ Breaker!Tell(t, "failed")
      BY <1>6, <2>4 DEF GivesUp, Leave, Reply, Breaker!Tell
    <3>2. circuit = "closed" /\ inRow + 1 < FailMax /\ inRow' = inRow + 1
      BY <2>1, <2>2, <2>4, Limits DEF CircuitInv, LastFailure, TypeOK
    <3> QED
      BY <3>1, <3>2 DEF Breaker!Fail
  <2> QED
    BY <2>3, <2>4
<1> QED
  BY <1>1, <1>2, <1>3, <1>4, <1>5, <1>6 DEF Call

(* Worker threads that take turns in the lock, attempts with waits between them
   and a half-open state together implement a circuit breaker whose calls are
   atomic; while it is open, no thread is at Groq or waits to be (rag_pipeline.py,
   _generate and _call_llm). *)
THEOREM CircuitSparesGroq == Spec => CircuitIsRight
<1>1. BreakerInv => OpenSparesGroq
  BY Limits DEF BreakerInv, HolderInv, CircuitInv, Inside, OpenSparesGroq
<1>2. Init => Breaker!Init
  BY DEF Init, Breaker!Init
<1>3. BreakerInv /\ [Next]_vars => [Breaker!Next]_Breaker!vars
  <2> SUFFICES ASSUME BreakerInv, [Next]_vars PROVE [Breaker!Next]_Breaker!vars
    OBVIOUS
  <2>1. CASE Tick
    <3>1. UNCHANGED <<circuit, inRow, answer>> /\ opened' = Older(opened, ResetTimeout)
      BY <2>1 DEF Tick
    <3>2. Breaker!Time \/ UNCHANGED Breaker!vars
      BY <3>1 DEF Older, Breaker!Time, Breaker!vars
    <3> QED
      BY <3>2 DEF Breaker!Next
  <2>2. CASE GroqChanges \/ UNCHANGED vars
    BY <2>2 DEF GroqChanges, vars, breakerVars, history, Breaker!vars
  <2>3. CASE \E t \in Threads : Query(t) \/ Call(t)
    BY <2>3, CallRefines
  <2> QED
    BY <2>1, <2>2, <2>3 DEF Next
<1> QED
  BY <1>1, <1>2, <1>3, BreakerInvariant, PTL DEF Spec, CircuitIsRight, Breaker!Spec

(* The calls are bounded: by the step the call is at, and so by WorstCase. *)
LEMMA CallBound ==
    /\ WorstCase \in Nat /\ FailMax * WorstCase \in Nat /\ WorstCase < Horizon
    /\ BreakerInv /\ holder # NoThread => spent <= WorstCase
<1>0. /\ MaxAttempts - 1 \in Nat /\ (MaxAttempts - 1) + 1 = MaxAttempts
      /\ Elapsed(MaxAttempts - 1) \in Nat
  <2>1. MaxAttempts - 1 \in Nat /\ (MaxAttempts - 1) + 1 = MaxAttempts
    BY Limits
  <2> QED
    BY <2>1, ElapsedFacts
<1>1. WorstCase = Elapsed(MaxAttempts - 1) + LongestAttempt
  <2>1. \A n \in Nat :
           (n + 1) * LongestAttempt + n * Backoff = n * (LongestAttempt + Backoff) + LongestAttempt
    BY Limits
  <2> QED
    BY <1>0, <2>1 DEF WorstCase, Elapsed
<1>2. WorstCase \in Nat
  BY <1>0, <1>1, Limits
<1>3. FailMax * WorstCase \in Nat /\ WorstCase <= FailMax * WorstCase
  <2>1. /\ FailMax - 1 \in Nat /\ FailMax = (FailMax - 1) + 1
    BY Limits
  <2>2. \A w, n \in Nat : n * w \in Nat /\ (n + 1) * w = n * w + w
    OBVIOUS
  <2> QED
    BY <1>2, <2>1, <2>2
<1>4. WorstCase < Horizon
  <2>1. FailMax * WorstCase < Horizon
    BY HorizonAssumption
  <2> DEFINE all == FailMax * WorstCase
  <2>2. all \in Nat /\ WorstCase <= all /\ all < Horizon
    BY <1>3, <2>1
  <2> HIDE DEF all
  <2> QED
    BY <1>2, <2>2, Limits
<1>5. ASSUME BreakerInv, holder # NoThread PROVE spent <= WorstCase
  <2> USE DEF BreakerInv
  <2>0. /\ tries \in 1 .. MaxAttempts /\ tries - 1 \in Nat
        /\ tries - 1 <= MaxAttempts - 1
    BY <1>5, Limits DEF TimeInv
  <2>1. /\ Elapsed(tries - 1) \in Nat
        /\ Elapsed(tries - 1) <= Elapsed(MaxAttempts - 1)
    BY <1>0, <2>0, ElapsedFacts
  <2>2. CASE pc[holder] = "attempt"
    BY <1>0, <1>1, <1>5, <2>0, <2>1, <2>2, Limits DEF TimeInv, TypeOK
  <2>3. CASE pc[holder] = "backoff"
    <3>1. Elapsed(tries - 1) + LongestAttempt + Backoff <= Elapsed(MaxAttempts - 1)
      <4>1. /\ tries \in Nat /\ tries <= MaxAttempts - 1
            /\ tries - 1 \in Nat /\ (tries - 1) + 1 = tries
        BY <1>5, <2>0, <2>3, Limits DEF TimeInv
      <4> QED
        BY <1>0, <2>0, <4>1, ElapsedFacts
    <3> QED
      BY <1>0, <1>1, <1>5, <2>0, <2>1, <2>3, <3>1, Limits DEF TimeInv, TypeOK
  <2> QED
    BY <1>5, <2>2, <2>3 DEF HolderInv, Inside, TypeOK
<1> QED
  BY <1>2, <1>3, <1>4, <1>5

(* However many attempts are allowed, however often the client asks again in each
   and whatever all that and the waits take, a call leaves the breaker, and lets
   the next thread in, within the sum of them. (HorizonAssumption puts what is
   counted above that sum.) *)
THEOREM CallsAreBounded == Spec => []CallIsBounded
BY CallBound, BreakerInvariant, PTL DEF CallIsBounded

(* What an outage has cost: each call that fails while the circuit is closed adds
   what it took, WorstCase at the most, and one to the breaker's counter. *)
LEMMA WasteStep ==
    ASSUME BreakerInv, BreakerInv', WasteInv, [Next]_vars
    PROVE  WasteInv'
<1> USE DEF BreakerInv
<1>0. /\ spent \in Nat /\ wasted \in Nat /\ fails \in Nat
      /\ \A n \in Nat : n * WorstCase \in Nat /\ (n + 1) * WorstCase = n * WorstCase + WorstCase
      /\ WorstCase \in Nat
  BY CallBound, Limits DEF TypeOK
<1>1. ASSUME NEW t \in Threads, Query(t) \/ Rejected(t) \/ RetryLater(t) \/ Retry(t)
      PROVE  WasteInv'
  <2>1. UNCHANGED <<groq, circuit, fails, holder, spent, wasted>>
    BY <1>1 DEF Query, Rejected, StayOpen, RetryLater, Retry, breakerVars, history
  <2> QED
    BY <2>1 DEF WasteInv
<1>2. ASSUME NEW t \in Threads, Enter(t) PROVE WasteInv'
  <2>1. /\ UNCHANGED <<groq, fails, spent, wasted>> /\ holder' # NoThread
        /\ circuit' = IF circuit = "open" THEN "half_open" ELSE circuit
    BY <1>2, Limits DEF Enter, history
  <2> QED
    BY <1>0, <2>1 DEF WasteInv
<1>3. ASSUME NEW t \in Threads, Succeeds(t) PROVE WasteInv'
  <2>1. /\ groq = "up" /\ UNCHANGED <<groq, wasted>> /\ circuit' = "closed"
        /\ fails' = 0 /\ spent' = 0
    BY <1>3 DEF Succeeds, Close, Leave
  <2>2. wasted' = 0 /\ fails' * WorstCase + spent' = 0
    BY <1>0, <2>1 DEF WasteInv
  <2> QED
    BY <2>1, <2>2 DEF WasteInv
<1>4. ASSUME NEW t \in Threads, GivesUp(t) PROVE WasteInv'
  <2>1. holder = t /\ holder # NoThread /\ groq = "down" /\ groq' = groq /\ spent' = 0
    BY <1>4, Limits DEF GivesUp, Leave, HolderInv, Inside
  <2>2. CASE circuit = "half_open" \/ LastFailure
    <3>1. circuit' = "open" /\ wasted' = 0
      BY <1>4, <2>2 DEF GivesUp
    <3> QED
      BY <2>1, <3>1 DEF WasteInv
  <2>3. CASE ~(circuit = "half_open" \/ LastFailure)
    <3>1. circuit = "closed" /\ circuit' = circuit /\ wasted' = wasted /\ fails' = fails + 1
      BY <1>0, <1>4, <2>1, <2>3, Limits DEF GivesUp, LastFailure, Older, CircuitInv, TypeOK
    <3>2. spent <= WorstCase /\ wasted <= fails * WorstCase + spent
      BY <2>1, <3>1, CallBound DEF WasteInv
    <3>3. fails' * WorstCase = fails * WorstCase + WorstCase
      BY <1>0, <3>1
    <3>4. wasted' <= fails' * WorstCase + spent'
      <4>1. fails * WorstCase \in Nat /\ fails' * WorstCase \in Nat
        BY <1>0, <3>1
      <4> QED
        BY <1>0, <2>1, <3>1, <3>2, <3>3, <4>1
    <3> QED
      BY <2>1, <3>1, <3>4 DEF WasteInv
  <2> QED
    BY <2>2, <2>3
<1>5. CASE Tick
  <2>1. UNCHANGED <<groq, circuit, fails, holder>>
    BY <1>5 DEF Tick
  <2>2. CASE holder = NoThread
    BY <1>5, <2>1, <2>2 DEF Tick, WasteInv
  <2>3. CASE holder # NoThread
    <3>1. spent' = spent + 1
      BY <1>0, <1>5, <2>3, CallBound, Limits DEF Tick, Older
    <3>2. /\ wasted' \in Nat /\ wasted' <= wasted + 1
          /\ groq = "up" => wasted' = wasted
      BY <1>0, <1>5, <2>3 DEF Tick, Older, TypeOK
    <3>3. circuit # "open"
      BY <2>3 DEF CircuitInv
    <3>4. fails * WorstCase \in Nat
      BY <1>0
    <3> QED
      BY <1>0, <2>1, <2>3, <3>1, <3>2, <3>3, <3>4 DEF WasteInv
  <2> QED
    BY <2>2, <2>3
<1>6. CASE GroqChanges
  <2>1. wasted' = 0 /\ UNCHANGED <<circuit, fails, holder, spent>>
    BY <1>6 DEF GroqChanges, breakerVars
  <2>2. fails * WorstCase + spent \in Nat
    BY <1>0
  <2> QED
    BY <1>0, <2>1, <2>2 DEF WasteInv
<1>7. CASE UNCHANGED vars
  BY <1>7 DEF vars, breakerVars, history, WasteInv
<1> QED
  BY <1>1, <1>2, <1>3, <1>4, <1>5, <1>6, <1>7 DEF Next, Call

(* In an outage the lock is held for fail_max calls at the most, whichever threads
   make them and whatever they wait for, before the circuit opens; from then on
   each probe holds it for one call. *)
THEOREM OutagesAreCutShort == Spec => []OutageIsCutShort
<1>1. Init => WasteInv
  <2> SUFFICES ASSUME Init PROVE WasteInv
    OBVIOUS
  <2>1. circuit = "closed" /\ wasted = 0 /\ fails * WorstCase + spent = 0 /\ spent = 0
    BY CallBound DEF Init
  <2> QED
    BY <2>1 DEF WasteInv
<1>2. BreakerInv /\ BreakerInv' /\ WasteInv /\ [Next]_vars => WasteInv'
  BY WasteStep
<1>3. BreakerInv /\ WasteInv => OutageIsCutShort
  <2> SUFFICES ASSUME BreakerInv, WasteInv PROVE OutageIsCutShort
    OBVIOUS
  <2> USE DEF BreakerInv
  <2>0. WorstCase \in Nat /\ FailMax * WorstCase \in Nat /\ spent \in Nat /\ wasted \in Nat
    BY CallBound DEF TypeOK
  <2>1. spent <= WorstCase
    BY <2>0, CallBound DEF HolderInv
  <2>2. CASE circuit = "open"
    BY <2>0, <2>2 DEF WasteInv, OutageIsCutShort
  <2>3. CASE circuit = "half_open"
    <3>1. wasted <= WorstCase /\ 1 * WorstCase = WorstCase
      BY <2>0, <2>1, <2>3 DEF WasteInv
    <3> QED
      BY <2>3, <3>1 DEF OutageIsCutShort
  <2>4. CASE circuit = "closed"
    <3>1. fails + 1 \in Nat /\ fails \in Nat /\ FailMax - (fails + 1) \in Nat
          /\ FailMax = (fails + 1) + (FailMax - (fails + 1))
      BY <2>4, Limits DEF CircuitInv, TypeOK
    <3>2. \A w, m, n \in Nat : (m + n) * w = m * w + n * w /\ n * w \in Nat /\ m * w \in Nat
      OBVIOUS
    <3>3. \A w, n \in Nat : (n + 1) * w = n * w + w
      OBVIOUS
    <3> DEFINE rest == FailMax - (fails + 1)
               cost == fails * WorstCase
               left == rest * WorstCase
    <3>4. /\ FailMax * WorstCase = (fails + 1) * WorstCase + left
          /\ left \in Nat
      BY <2>0, <3>1, <3>2
    <3>5. (fails + 1) * WorstCase = cost + WorstCase /\ cost \in Nat
      BY <2>0, <3>1, <3>2, <3>3
    <3>6. wasted <= cost + spent
      BY <2>4 DEF WasteInv
    <3> HIDE DEF rest, cost, left
    <3>7. wasted <= FailMax * WorstCase
      BY <2>0, <2>1, <3>4, <3>5, <3>6
    <3> QED
      BY <2>4, <3>7 DEF OutageIsCutShort
  <2> QED
    BY <2>2, <2>3, <2>4 DEF TypeOK
<1> QED
  BY <1>1, <1>2, <1>3, BreakerInvariant, PTL DEF Spec

-----------------------------------------------------------------------------
(* The index. *)
IngestSteps == {"add", "base", "map", "total", "set"}
Labels == IngestSteps \cup {"idle", "search", "lookup"}
Adding == {t \in Ingesters : at[t] = "add"}

(* Which handler a thread runs, and with what. *)
HandlerInv ==
    /\ \A t \in Ingesters : at[t] \in IngestSteps \cup {"idle"}
    /\ \A t \in Ingesters : at[t] \in IngestSteps => chunk[t] \in Chunks
    /\ \A q \in Queriers : at[q] \in {"idle", "search", "lookup"}
    /\ \A q \in Queriers : at[q] = "lookup" => number[q] \in 1 .. Len(vectors)

(* There is room for the vectors of the ingests under way. *)
RoomInv == Len(vectors) + Cardinality(Adding) <= MaxVectors

(* A process that is down runs no handler; one that is up has an index. *)
ServingInv ==
    /\ ~up => \A t \in Handlers : at[t] = "idle"
    /\ up => Len(vectors) > 0 /\ gauge > 0 /\ source # "none"
    /\ \A t \in Ingesters : at[t] = "set" => number[t] > 0

(* The first n positions are mapped to the chunks whose vectors are there, and
   no others are. *)
MappedTo(n) == \A p \in Positions : chunkAt[p] = IF p <= n THEN vectors[p] ELSE NoChunk

(* How far the only ingest under way has come. *)
StepInv(t) ==
    /\ at[t] = "add" => MappedTo(Len(vectors))
    /\ at[t] \in {"base", "map"} => /\ Len(vectors) > 1 /\ MappedTo(Len(vectors) - 1)
                                    /\ vectors[Len(vectors)] = chunk[t]
    /\ at[t] = "map" => number[t] = Len(vectors) - 1
    /\ at[t] \in {"total", "set"} => MappedTo(Len(vectors))
    /\ at[t] = "set" => number[t] = Len(vectors)

SerialInv ==
    up /\ ~overlap =>
        /\ ~Ingesting => MappedTo(Len(vectors)) /\ gauge = Len(vectors)
        /\ \A t, u \in Ingesters : at[t] # "idle" /\ at[u] # "idle" => t = u
        /\ \A t \in Ingesters : StepInv(t)

IndexInv == IndexTypeOK /\ HandlerInv /\ RoomInv /\ ServingInv /\ SerialInv

-----------------------------------------------------------------------------
(* What the assumption says, in the form in which it is used. *)
LEMMA Facts ==
    /\ NoChunk \notin Stored /\ "created" \notin Stored /\ "error" \notin Stored
    /\ MaxVectors \in Nat /\ MaxVectors >= 1
    /\ Ingesters \cap Queriers = {} /\ IsFiniteSet(Ingesters)
    /\ Ingesters \subseteq Handlers /\ Queriers \subseteq Handlers
    /\ Cardinality(Ingesters) \in Nat
    /\ Chunks \subseteq Stored
<1>1. Cardinality(Ingesters) \in Nat
  BY RagIndexAssumption, FS_CardinalityType
<1> QED
  BY <1>1, RagIndexAssumption DEF Handlers, Stored

(* A part of a finite set is finite and no larger. *)
LEMMA SmallerSet ==
    ASSUME NEW S, NEW T \in SUBSET S, IsFiniteSet(S)
    PROVE  /\ Cardinality(T) \in Nat /\ Cardinality(S) \in Nat
           /\ Cardinality(T) <= Cardinality(S)
BY FS_Subset, FS_CardinalityType

(* What len(index_to_docstore_id) can be, and what it is when the positions that
   are mapped are the first n. *)
LEMMA MappedFacts ==
    ASSUME IndexTypeOK
    PROVE  /\ Mapped \in 0 .. MaxVectors
           /\ \A n \in 0 .. MaxVectors :
                 MappedTo(n) /\ n <= Len(vectors) => Mapped = n
<1> DEFINE M == {p \in Positions : chunkAt[p] # NoChunk}
<1>1. IsFiniteSet(Positions) /\ Cardinality(Positions) = MaxVectors
  BY FS_Interval, Facts DEF Positions
<1>2. Mapped \in 0 .. MaxVectors
  <2>1. M \in SUBSET Positions
    OBVIOUS
  <2>2. Cardinality(M) \in Nat /\ Cardinality(M) <= MaxVectors
    BY <1>1, <2>1, SmallerSet, Facts
  <2> QED
    BY <2>2, Facts DEF Mapped
<1>3. ASSUME NEW n \in 0 .. MaxVectors, MappedTo(n), n <= Len(vectors) PROVE Mapped = n
  <2>1. M = 1 .. n
    <3>1. ASSUME NEW p \in Positions PROVE p \in M <=> p <= n
      <4>1. CASE p <= n
        <5>1. p \in 1 .. Len(vectors)
          BY <1>3, <4>1, Facts DEF Positions, IndexTypeOK
        <5>2. vectors[p] \in Stored
          BY <5>1 DEF IndexTypeOK
        <5> QED
          BY <1>3, <4>1, <5>2, Facts DEF MappedTo
      <4>2. CASE ~(p <= n)
        BY <1>3, <4>2 DEF MappedTo
      <4> QED
        BY <4>1, <4>2
    <3> QED
      BY <3>1, Facts DEF Positions
  <2>2. Cardinality(1 .. n) = n
    BY FS_Interval
  <2> QED
    BY <2>1, <2>2 DEF Mapped
<1> QED
  BY <1>2, <1>3

(* A thread goes on to its next step. *)
LEMMA GotoFacts ==
    ASSUME IndexTypeOK, NEW t \in Handlers,
           NEW label \in Labels, Goto(t, label)
    PROVE  /\ at' \in [Handlers -> Labels]
           /\ at'[t] = label /\ \A u \in Handlers \ {t} : at'[u] = at[u]
           /\ label # "add" => Adding' \in SUBSET Adding
BY Facts DEF Goto, IndexTypeOK, Adding, Labels, IngestSteps

(* The ingests under way are finitely many. *)
LEMMA AddingFacts ==
    /\ IsFiniteSet(Adding) /\ Cardinality(Adding) \in Nat
    /\ Cardinality(Adding) <= Cardinality(Ingesters)
<1>1. Adding \in SUBSET Ingesters
  BY DEF Adding
<1> QED
  BY <1>1, Facts, FS_Subset, FS_CardinalityType

(* A step that adds no vector and starts no ingest leaves the room there is. *)
LEMMA SameRoom ==
    ASSUME IndexTypeOK, RoomInv, Adding' \in SUBSET Adding, vectors' = vectors
    PROVE  RoomInv'
<1>1. /\ Cardinality(Adding') \in Nat /\ Cardinality(Adding) \in Nat
      /\ Cardinality(Adding') <= Cardinality(Adding)
  BY AddingFacts, SmallerSet
<1> QED
  BY <1>1, Facts DEF RoomInv, IndexTypeOK

(* The process has not been started. *)
LEMMA IndexStarts == IndexInit => IndexInv
<1> SUFFICES ASSUME IndexInit PROVE IndexInv
  OBVIOUS
<1>1. IndexTypeOK
  <2>1. vectors \in Seq(Stored) /\ Len(vectors) <= MaxVectors /\ gauge \in 0 .. MaxVectors
    BY Facts DEF IndexInit
  <2>2. /\ chunkAt \in [Positions -> Stored \cup {NoChunk}]
        /\ chunk \in [Ingesters -> Chunks \cup {NoChunk}]
        /\ number \in [Handlers -> 0 .. MaxVectors]
        /\ reply \in [Handlers -> Stored \cup {NoChunk, "created", "error"}]
        /\ at \in [Handlers -> Labels]
    BY Facts DEF IndexInit, Labels, IngestSteps
  <2> QED
    BY <2>1, <2>2 DEF IndexInit, IndexTypeOK, Labels, IngestSteps
<1>2. Adding = {} /\ Cardinality(Adding) = 0
  <2>1. Adding = {}
    BY Facts DEF IndexInit, Adding
  <2> QED
    BY <2>1, FS_EmptySet
<1>3. HandlerInv /\ RoomInv /\ ServingInv /\ SerialInv
  BY <1>2, Facts DEF IndexInit, HandlerInv, RoomInv, ServingInv, SerialInv, IngestSteps
<1> QED
  BY <1>1, <1>3 DEF IndexInv

-----------------------------------------------------------------------------
(* The process starts, or dies. *)
LEMMA StartInv == ASSUME IndexInv, Start PROVE IndexInv'
<1> USE DEF IndexInv
<1>1. PICK kb \in Knowledge : LoadIndex(kb) /\ source' \in {"runbooks", "seed"}
  BY DEF Start
<1>2. \A t \in Handlers : at[t] = "idle" /\ at'[t] = "idle"
  BY DEF Start, ServingInv
<1>3. kb \in Stored /\ Len(vectors') = 1 /\ vectors'[1] = kb /\ vectors' \in Seq(Stored)
  BY <1>1 DEF LoadIndex, Stored
<1>4. IndexTypeOK'
  <2>1. Len(vectors') <= MaxVectors /\ gauge' \in 0 .. MaxVectors
    BY <1>1, <1>3, Facts DEF LoadIndex
  <2>2. chunkAt' \in [Positions -> Stored \cup {NoChunk}]
    BY <1>1, <1>3 DEF LoadIndex
  <2>3. up' \in BOOLEAN /\ overlap' \in BOOLEAN /\ source' \in {"none", "runbooks", "seed"}
    BY <1>1 DEF Start
  <2>4. UNCHANGED <<at, chunk, number, reply>>
    BY DEF Start
  <2> QED
    BY <1>3, <2>1, <2>2, <2>3, <2>4 DEF IndexTypeOK
<1>5. HandlerInv'
  BY <1>2, Facts DEF HandlerInv, IngestSteps
<1>6. RoomInv'
  <2>1. Adding' = {}
    BY <1>2, Facts DEF Adding
  <2> QED
    BY <1>3, <2>1, Facts, FS_EmptySet DEF RoomInv
<1>7. ServingInv'
  BY <1>1, <1>2, <1>3, Facts DEF Start, LoadIndex, ServingInv
<1>8. SerialInv'
  <2>1. MappedTo(Len(vectors))' /\ gauge' = Len(vectors')
    BY <1>1, <1>3, Facts DEF LoadIndex, MappedTo, Positions
  <2> QED
    BY <1>2, <2>1, Facts DEF SerialInv, StepInv
<1> QED
  BY <1>4, <1>5, <1>6, <1>7, <1>8

LEMMA DieInv == ASSUME IndexInv, Die PROVE IndexInv'
<1> USE DEF IndexInv
<1>1. \A t \in Handlers : at'[t] = "idle"
  BY DEF Die
<1>2. IndexTypeOK'
  <2>1. vectors' \in Seq(Stored) /\ Len(vectors') <= MaxVectors /\ gauge' \in 0 .. MaxVectors
    BY Facts DEF Die
  <2>2. chunkAt' \in [Positions -> Stored \cup {NoChunk}] /\ at' \in [Handlers -> Labels]
    BY DEF Die, Labels, IngestSteps
  <2>3. up' \in BOOLEAN /\ overlap' \in BOOLEAN /\ source' \in {"none", "runbooks", "seed"}
    BY DEF Die, IndexTypeOK
  <2>4. UNCHANGED <<chunk, number, reply>>
    BY DEF Die
  <2> QED
    BY <2>1, <2>2, <2>3, <2>4 DEF IndexTypeOK, Labels, IngestSteps
<1>3. RoomInv'
  <2>1. Adding' = {}
    BY <1>1, Facts DEF Adding
  <2> QED
    BY <2>1, Facts, FS_EmptySet DEF Die, RoomInv
<1>4. HandlerInv' /\ ServingInv' /\ SerialInv'
  BY <1>1, Facts DEF Die, HandlerInv, ServingInv, SerialInv, IngestSteps
<1> QED
  BY <1>2, <1>3, <1>4

-----------------------------------------------------------------------------
(* One step of an ingest. As long as ingests do not overlap, the other ingesters
   are idle, so all depends on how far this one has come. *)
LEMMA SerialStep ==
    ASSUME IndexInv, NEW t \in Ingesters, at[t] # "idle",
           \A u \in Handlers \ {t} : at'[u] = at[u], UNCHANGED <<up, overlap>>,
           up /\ ~overlap /\ StepInv(t) =>
               IF at'[t] = "idle" THEN MappedTo(Len(vectors))' /\ gauge' = Len(vectors')
                                  ELSE StepInv(t)'
    PROVE  SerialInv'
<1> SUFFICES ASSUME up, ~overlap PROVE SerialInv'
  BY DEF SerialInv
<1>1. StepInv(t) /\ \A u \in Ingesters \ {t} : at[u] = "idle" /\ at'[u] = "idle"
  BY Facts DEF IndexInv, SerialInv
<1>2. \A u \in Ingesters \ {t} : StepInv(u)'
  BY <1>1 DEF StepInv
<1>3. StepInv(t)' /\ (~Ingesting' => MappedTo(Len(vectors))' /\ gauge' = Len(vectors'))
  <2>1. CASE at'[t] = "idle"
    BY <1>1, <2>1 DEF StepInv
  <2>2. CASE at'[t] # "idle"
    BY <1>1, <2>2 DEF Ingesting
  <2> QED
    BY <2>1, <2>2
<1>4. \A u, v \in Ingesters : at'[u] # "idle" /\ at'[v] # "idle" => u = v
  BY <1>1
<1>5. \A u \in Ingesters : StepInv(u)'
  BY <1>2, <1>3
<1> QED
  BY <1>3, <1>4, <1>5 DEF SerialInv

(* A step of a handler finds the process up, and its thread in its handler. *)
LEMMA Handler ==
    ASSUME IndexInv, NEW t \in Handlers
    PROVE  /\ at[t] # "idle" => up
           /\ at[t] \in IngestSteps => t \in Ingesters /\ chunk[t] \in Chunks /\ chunk[t] \in Stored
           /\ at[t] \in {"search", "lookup"} => t \in Queriers
BY Facts DEF IndexInv, ServingInv, HandlerInv, IngestSteps, Handlers

(* POST /ingest begins, or fails before it has changed the index. *)
LEMMA IngestInv == ASSUME IndexInv, NEW t \in Ingesters, Ingest(t) PROVE IndexInv'
<1> USE DEF IndexInv
<1>0. t \in Handlers /\ up /\ at[t] = "idle" /\ {"add", "idle"} \subseteq Labels
  BY Facts DEF Ingest, Labels, IngestSteps
<1>1. ASSUME NEW c \in Chunks, chunk' = [chunk EXCEPT ![t] = c], Goto(t, "add"),
             overlap' = (overlap \/ Ingesting), UNCHANGED reply
      PROVE  IndexInv'
  <2>1. /\ at' \in [Handlers -> Labels] /\ at'[t] = "add"
        /\ \A u \in Handlers \ {t} : at'[u] = at[u]
    BY <1>0, <1>1, GotoFacts
  <2>2. /\ chunk' \in [Ingesters -> Chunks \cup {NoChunk}] /\ chunk'[t] = c
        /\ \A u \in Ingesters \ {t} : chunk'[u] = chunk[u]
    BY <1>1 DEF IndexTypeOK
  <2>3. overlap' \in BOOLEAN
    BY <1>1
  <2>4. UNCHANGED <<up, source, vectors, chunkAt, gauge, number>>
    BY DEF Ingest
  <2>5. IndexTypeOK'
    BY <1>1, <2>1, <2>2, <2>3, <2>4 DEF IndexTypeOK, Labels, IngestSteps
  <2>6. HandlerInv'
    BY <1>1, <2>1, <2>2, <2>4, Facts DEF HandlerInv, IngestSteps
  <2>7. RoomInv'
    <3>1. Adding' \in SUBSET Ingesters
      BY DEF Adding
    <3>2. Cardinality(Adding') \in Nat /\ Cardinality(Adding') <= Cardinality(Ingesters)
      BY <3>1, SmallerSet, Facts
    <3>3. Len(vectors) + Cardinality(Ingesters) <= MaxVectors
      BY DEF Ingest
    <3> QED
      BY <2>4, <3>2, <3>3, Facts DEF RoomInv, IndexTypeOK
  <2>8. ServingInv'
    BY <1>0, <2>1, <2>4, Facts DEF ServingInv
  <2>9. SerialInv'
    <3>1. SUFFICES ASSUME ~overlap' PROVE SerialInv'
      BY DEF SerialInv
    <3>2. ~overlap /\ ~Ingesting
      BY <1>1, <3>1
    <3>3. MappedTo(Len(vectors))'
      BY <1>0, <2>4, <3>2 DEF SerialInv, MappedTo
    <3>4. \A u \in Ingesters \ {t} : at'[u] = "idle"
      BY <2>1, <3>2, Facts DEF Ingesting
    <3>5. \A u \in Ingesters : StepInv(u)'
      BY <2>1, <3>3, <3>4 DEF StepInv
    <3>6. Ingesting'
      BY <2>1 DEF Ingesting
    <3> QED
      BY <3>4, <3>5, <3>6 DEF SerialInv
  <2> QED
    BY <2>5, <2>6, <2>7, <2>8, <2>9
<1>2. ASSUME Answer(t, "error"), UNCHANGED <<chunk, overlap>> PROVE IndexInv'
  <2>1. /\ at' \in [Handlers -> Labels]
        /\ \A u \in Handlers : at'[u] = at[u] /\ Adding' \in SUBSET Adding
        /\ reply' \in [Handlers -> Stored \cup {NoChunk, "created", "error"}]
    BY <1>0, <1>2, GotoFacts DEF Answer, IndexTypeOK
  <2>2. UNCHANGED <<up, source, vectors, chunkAt, gauge, number>>
    BY DEF Ingest
  <2>3. IndexTypeOK' /\ RoomInv'
    <3>1. IndexTypeOK'
      BY <1>2, <2>1, <2>2 DEF IndexTypeOK, Labels, IngestSteps
    <3> QED
      BY <1>0, <2>1, <2>2, <3>1, SameRoom
  <2>4. HandlerInv' /\ ServingInv'
    BY <1>2, <2>1, <2>2, Facts DEF HandlerInv, ServingInv, IngestSteps
  <2>5. SerialInv'
    BY <1>2, <2>1, <2>2, Facts DEF SerialInv, StepInv, MappedTo, Ingesting
  <2> QED
    BY <2>3, <2>4, <2>5
<1> QED
  BY <1>1, <1>2 DEF Ingest

(* FAISS.add_documents, in its three steps. *)
LEMMA AddVectorInv == ASSUME IndexInv, NEW t \in Handlers, AddVector(t) PROVE IndexInv'
<1> USE DEF IndexInv
<1>0. /\ up /\ t \in Ingesters /\ chunk[t] \in Stored /\ at[t] = "add" /\ "base" \in Labels
      /\ UNCHANGED <<up, source, chunkAt, gauge, chunk, number, reply, overlap>>
  BY Handler DEF AddVector, Labels, IngestSteps
<1>1. /\ at' \in [Handlers -> Labels] /\ at'[t] = "base"
      /\ \A u \in Handlers \ {t} : at'[u] = at[u]
  BY <1>0, GotoFacts DEF AddVector
<1>2. /\ vectors' \in Seq(Stored) /\ Len(vectors') = Len(vectors) + 1 /\ Len(vectors) \in Nat
      /\ \A p \in 1 .. Len(vectors) : vectors'[p] = vectors[p]
      /\ vectors'[Len(vectors) + 1] = chunk[t]
  BY <1>0 DEF AddVector, IndexTypeOK
<1>3. /\ Cardinality(Adding) \in Nat /\ Cardinality(Adding') \in Nat
      /\ Cardinality(Adding') = Cardinality(Adding) - 1
  <2>1. Adding' = Adding \ {t} /\ t \in Adding
    BY <1>0, <1>1, Facts DEF Adding
  <2>2. Adding \ {t} \in SUBSET Adding
    OBVIOUS
  <2> QED
    BY <2>1, <2>2, AddingFacts, SmallerSet, FS_RemoveElement
<1>4. IndexTypeOK' /\ RoomInv'
  <2>1. Len(vectors') + Cardinality(Adding') <= MaxVectors /\ Len(vectors') <= MaxVectors
    BY <1>2, <1>3, Facts DEF RoomInv
  <2> QED
    BY <1>0, <1>1, <1>2, <2>1 DEF IndexTypeOK, RoomInv, Labels, IngestSteps
<1>5. HandlerInv' /\ ServingInv'
  BY <1>0, <1>1, <1>2, Facts DEF HandlerInv, ServingInv, IngestSteps
<1>6. SerialInv'
  <2>1. ASSUME StepInv(t) PROVE StepInv(t)'
    <3>1. Len(vectors) > 0 /\ Len(vectors') - 1 = Len(vectors)
      BY <1>0, <1>2 DEF ServingInv
    <3>2. MappedTo(Len(vectors) - 1)'
      BY <1>0, <1>2, <2>1, <3>1, Facts DEF StepInv, MappedTo, Positions
    <3> QED
      BY <1>1, <1>2, <3>1, <3>2, <1>0 DEF StepInv
  <2> QED
    BY <1>0, <1>1, <2>1, SerialStep
<1> QED
  BY <1>4, <1>5, <1>6

LEMMA ReadBaseInv == ASSUME IndexInv, NEW t \in Handlers, ReadBase(t) PROVE IndexInv'
<1> USE DEF IndexInv
<1>0. /\ up /\ t \in Ingesters /\ at[t] = "base" /\ "map" \in Labels
      /\ UNCHANGED <<up, source, vectors, chunkAt, gauge, chunk, reply, overlap>>
  BY Handler DEF ReadBase, Labels, IngestSteps
<1>1. /\ at' \in [Handlers -> Labels] /\ at'[t] = "map" /\ Adding' \in SUBSET Adding
      /\ \A u \in Handlers \ {t} : at'[u] = at[u]
  BY <1>0, GotoFacts DEF ReadBase
<1>2. /\ number' \in [Handlers -> 0 .. MaxVectors] /\ number'[t] = Mapped
      /\ \A u \in Handlers \ {t} : number'[u] = number[u]
  BY MappedFacts DEF ReadBase, IndexTypeOK
<1>3. IndexTypeOK'
  BY <1>0, <1>1, <1>2 DEF IndexTypeOK, Labels, IngestSteps
<1>4. RoomInv'
  BY <1>0, <1>1, SameRoom
<1>5. HandlerInv' /\ ServingInv'
  BY <1>0, <1>1, <1>2, Facts DEF HandlerInv, ServingInv, IngestSteps
<1>6. SerialInv'
  <2>1. ASSUME StepInv(t) PROVE StepInv(t)'
    <3>1. MappedTo(Len(vectors) - 1) /\ Len(vectors) > 1 /\ Len(vectors) - 1 \in 0 .. MaxVectors
      BY <1>0, <2>1, Facts DEF StepInv, IndexTypeOK
    <3>2. Mapped = Len(vectors) - 1
      BY <3>1, MappedFacts
    <3> QED
      BY <1>0, <1>1, <1>2, <2>1, <3>2 DEF StepInv, MappedTo
  <2> QED
    BY <1>0, <1>1, <2>1, SerialStep
<1> QED
  BY <1>3, <1>4, <1>5, <1>6

LEMMA MapChunkInv == ASSUME IndexInv, NEW t \in Handlers, MapChunk(t) PROVE IndexInv'
<1> USE DEF IndexInv
<1>0. /\ up /\ t \in Ingesters /\ chunk[t] \in Stored /\ at[t] = "map" /\ "total" \in Labels
      /\ UNCHANGED <<up, source, vectors, gauge, chunk, number, reply, overlap>>
  BY Handler DEF MapChunk, Labels, IngestSteps
<1>1. /\ at' \in [Handlers -> Labels] /\ at'[t] = "total" /\ Adding' \in SUBSET Adding
      /\ \A u \in Handlers \ {t} : at'[u] = at[u]
  BY <1>0, GotoFacts DEF MapChunk
<1>2. chunkAt' \in [Positions -> Stored \cup {NoChunk}]
  BY <1>0 DEF MapChunk, IndexTypeOK
<1>3. IndexTypeOK'
  BY <1>0, <1>1, <1>2 DEF IndexTypeOK, Labels, IngestSteps
<1>4. RoomInv'
  BY <1>0, <1>1, SameRoom
<1>5. HandlerInv' /\ ServingInv'
  BY <1>0, <1>1, Facts DEF HandlerInv, ServingInv, IngestSteps
<1>6. SerialInv'
  <2>1. ASSUME StepInv(t) PROVE StepInv(t)'
    <3>1. /\ NextPosition(t) = Len(vectors) /\ Len(vectors) \in Positions
          /\ MappedTo(Len(vectors) - 1) /\ vectors[Len(vectors)] = chunk[t]
      BY <1>0, <2>1, Facts DEF StepInv, NextPosition, IndexTypeOK, Positions
    <3>2. MappedTo(Len(vectors))'
      BY <1>0, <3>1, Facts DEF MapChunk, MappedTo, IndexTypeOK, Positions
    <3> QED
      BY <1>1, <3>2 DEF StepInv
  <2> QED
    BY <1>0, <1>1, <2>1, SerialStep
<1> QED
  BY <1>3, <1>4, <1>5, <1>6

(* _sync_document_gauge, in its two steps. *)
LEMMA ReadTotalInv == ASSUME IndexInv, NEW t \in Handlers, ReadTotal(t) PROVE IndexInv'
<1> USE DEF IndexInv
<1>0. /\ up /\ t \in Ingesters /\ at[t] = "total" /\ "set" \in Labels
      /\ UNCHANGED <<up, source, vectors, chunkAt, gauge, chunk, reply, overlap>>
  BY Handler DEF ReadTotal, Labels, IngestSteps
<1>1. /\ at' \in [Handlers -> Labels] /\ at'[t] = "set" /\ Adding' \in SUBSET Adding
      /\ \A u \in Handlers \ {t} : at'[u] = at[u]
  BY <1>0, GotoFacts DEF ReadTotal
<1>2. Len(vectors) \in 0 .. MaxVectors /\ Len(vectors) > 0
  BY <1>0, Facts DEF IndexTypeOK, ServingInv
<1>3. /\ number' \in [Handlers -> 0 .. MaxVectors] /\ number'[t] = Len(vectors)
      /\ \A u \in Handlers \ {t} : number'[u] = number[u]
  BY <1>2 DEF ReadTotal, Total, IndexTypeOK
<1>4. IndexTypeOK'
  BY <1>0, <1>1, <1>3 DEF IndexTypeOK, Labels, IngestSteps
<1>5. RoomInv'
  BY <1>0, <1>1, SameRoom
<1>6. HandlerInv' /\ ServingInv'
  BY <1>0, <1>1, <1>2, <1>3, Facts DEF HandlerInv, ServingInv, IngestSteps
<1>7. SerialInv'
  <2>1. ASSUME StepInv(t) PROVE StepInv(t)'
    BY <1>0, <1>1, <1>3, <2>1 DEF StepInv, MappedTo
  <2> QED
    BY <1>0, <1>1, <2>1, SerialStep
<1> QED
  BY <1>4, <1>5, <1>6, <1>7

LEMMA SetGaugeInv == ASSUME IndexInv, NEW t \in Handlers, SetGauge(t) PROVE IndexInv'
<1> USE DEF IndexInv
<1>0. /\ up /\ t \in Ingesters /\ at[t] = "set" /\ "idle" \in Labels
      /\ UNCHANGED <<up, source, vectors, chunkAt, chunk, number, overlap>>
  BY Handler DEF SetGauge, Labels, IngestSteps
<1>1. /\ at' \in [Handlers -> Labels] /\ at'[t] = "idle" /\ Adding' \in SUBSET Adding
      /\ \A u \in Handlers \ {t} : at'[u] = at[u]
      /\ reply' \in [Handlers -> Stored \cup {NoChunk, "created", "error"}]
  BY <1>0, GotoFacts DEF SetGauge, Answer, IndexTypeOK
<1>2. gauge' = number[t] /\ gauge' \in 0 .. MaxVectors /\ gauge' > 0
  BY <1>0, Facts DEF SetGauge, IndexTypeOK, ServingInv
<1>3. IndexTypeOK'
  BY <1>0, <1>1, <1>2 DEF IndexTypeOK, Labels, IngestSteps
<1>4. RoomInv'
  BY <1>0, <1>1, SameRoom
<1>5. HandlerInv' /\ ServingInv'
  BY <1>0, <1>1, <1>2, Facts DEF HandlerInv, ServingInv, IngestSteps
<1>6. SerialInv'
  <2>1. StepInv(t) => MappedTo(Len(vectors))' /\ gauge' = Len(vectors')
    BY <1>0, <1>2 DEF StepInv, MappedTo
  <2> QED
    BY <1>0, <1>1, <2>1, SerialStep
<1> QED
  BY <1>3, <1>4, <1>5, <1>6

(* POST /query reads, and disturbs no ingest. *)
LEMMA ReaderInv ==
    ASSUME IndexInv, NEW q \in Queriers, NEW label \in {"idle", "search", "lookup"},
           at' \in [Handlers -> Labels], at'[q] = label, \A u \in Handlers \ {q} : at'[u] = at[u],
           number' \in [Handlers -> 0 .. MaxVectors],
           \A u \in Handlers \ {q} : number'[u] = number[u],
           label = "lookup" => number'[q] \in 1 .. Len(vectors),
           reply' \in [Handlers -> Stored \cup {NoChunk, "created", "error"}], up,
           UNCHANGED <<up, source, vectors, chunkAt, gauge, chunk, overlap>>
    PROVE  IndexInv'
<1> USE DEF IndexInv
<1>0. \A t \in Ingesters : t \in Handlers \ {q}
  BY Facts
<1>1. IndexTypeOK'
  BY DEF IndexTypeOK, Labels, IngestSteps
<1>2. RoomInv'
  <2>1. Adding' \in SUBSET Adding
    BY <1>0 DEF Adding
  <2> QED
    BY <2>1, SameRoom
<1>3. HandlerInv' /\ ServingInv'
  BY <1>0, Facts DEF HandlerInv, ServingInv
<1>4. SerialInv'
  BY <1>0 DEF SerialInv, StepInv, MappedTo, Ingesting
<1> QED
  BY <1>1, <1>2, <1>3, <1>4

LEMMA RetrieveInv ==
    ASSUME IndexInv, NEW q \in Handlers, Search(q) \/ Lookup(q) \/ (q \in Queriers /\ Retrieve(q))
    PROVE  IndexInv'
<1>0. q \in Queriers /\ up /\ {"idle", "search", "lookup"} \subseteq Labels
  BY Handler DEF Search, Lookup, Retrieve, Labels
<1>1. CASE Retrieve(q)
  <2>1. /\ Goto(q, "search") /\ number' = number
        /\ UNCHANGED <<up, source, vectors, chunkAt, gauge, chunk, reply, overlap>>
    BY <1>1 DEF Retrieve
  <2> QED
    BY <1>0, <2>1, GotoFacts, ReaderInv DEF IndexInv, IndexTypeOK
<1>2. CASE Search(q)
  <2>1. PICK p \in 1 .. Len(vectors) : number' = [number EXCEPT ![q] = p]
    BY <1>2 DEF Search
  <2>2. /\ number' \in [Handlers -> 0 .. MaxVectors] /\ number'[q] \in 1 .. Len(vectors)
        /\ \A u \in Handlers \ {q} : number'[u] = number[u]
    BY <2>1, Facts DEF IndexInv, IndexTypeOK
  <2>3. /\ Goto(q, "lookup")
        /\ UNCHANGED <<up, source, vectors, chunkAt, gauge, chunk, reply, overlap>>
    BY <1>2 DEF Search
  <2> QED
    BY <1>0, <2>2, <2>3, GotoFacts, ReaderInv DEF IndexInv, IndexTypeOK
<1>3. CASE Lookup(q)
  <2>1. number[q] \in Positions
    BY <1>0, <1>3, Facts DEF Lookup, IndexInv, HandlerInv, IndexTypeOK, Positions
  <2>2. reply' \in [Handlers -> Stored \cup {NoChunk, "created", "error"}]
    BY <1>3, <2>1 DEF Lookup, Answer, IndexInv, IndexTypeOK
  <2>3. /\ Goto(q, "idle") /\ number' = number
        /\ UNCHANGED <<up, source, vectors, chunkAt, gauge, chunk, overlap>>
    BY <1>3 DEF Lookup, Answer
  <2> QED
    BY <1>0, <2>2, <2>3, GotoFacts, ReaderInv DEF IndexInv, IndexTypeOK
<1> QED
  BY <1>1, <1>2, <1>3

(* Nothing happens. *)
LEMMA SameState == ASSUME IndexInv, UNCHANGED indexVars PROVE IndexInv'
<1> USE DEF IndexInv, indexVars
<1>1. IndexTypeOK'
  BY DEF IndexTypeOK
<1>2. HandlerInv' /\ ServingInv'
  BY DEF HandlerInv, ServingInv
<1>3. RoomInv'
  BY DEF RoomInv, Adding
<1>4. SerialInv'
  BY DEF SerialInv, StepInv, MappedTo, Ingesting
<1> QED
  BY <1>1, <1>2, <1>3, <1>4

(* The invariant that the theorems below rest on. *)
THEOREM IndexInvariant == IndexSpec => []IndexInv
<1>1. IndexInv /\ [IndexNext]_indexVars => IndexInv'
  BY Facts, StartInv, DieInv, IngestInv, AddVectorInv, ReadBaseInv, MapChunkInv, ReadTotalInv,
     SetGaugeInv, RetrieveInv, SameState DEF IndexNext, Handle
<1> QED
  BY <1>1, IndexStarts, PTL DEF IndexSpec

-----------------------------------------------------------------------------
(* The index, the map, the gauge and the handlers keep their types. *)
THEOREM IndexTypes == IndexSpec => []IndexTypeOK
BY IndexInvariant, PTL DEF IndexInv

(* RAGService serves with an index, and as long as ingests come one at a time,
   the vectors, their chunks and the gauge agree when none is under way. *)
THEOREM IndexStaysInStep == IndexSpec => []IndexAgrees
<1>1. IndexInv => IndexAgrees
  <2> SUFFICES ASSUME IndexInv, up PROVE IndexAgrees
    BY DEF IndexAgrees
  <2>1. Len(vectors) > 0 /\ gauge > 0 /\ source # "none"
    BY DEF IndexInv, ServingInv
  <2>2. ASSUME ~Ingesting, ~overlap, NEW p \in 1 .. Len(vectors) PROVE chunkAt[p] = vectors[p]
    BY <2>2, Facts DEF IndexInv, SerialInv, MappedTo, Positions, IndexTypeOK
  <2>3. ~Ingesting /\ ~overlap => gauge = Len(vectors)
    BY DEF IndexInv, SerialInv
  <2> QED
    BY <2>1, <2>2, <2>3 DEF IndexAgrees
<1> QED
  BY <1>1, IndexInvariant, PTL

(* As long as ingests come one at a time, a query is answered from the chunk
   whose vector the search found (rag_pipeline.py, _retrieve). *)
THEOREM NearestChunkAnswers == IndexSpec => AnsweredFromTheNearestChunk
<1> DEFINE Right == \A q \in Queriers :
              at[q] = "lookup" /\ reply'[q] # reply[q] /\ reply'[q] \in Stored /\ ~overlap =>
                  reply'[q] = vectors[number[q]]
<1>1. ASSUME IndexInv, [IndexNext]_indexVars PROVE [Right]_indexVars
  <2> SUFFICES ASSUME NEW q \in Queriers, at[q] = "lookup", reply'[q] # reply[q],
                      reply'[q] \in Stored, ~overlap
               PROVE  reply'[q] = vectors[number[q]]
    OBVIOUS
  <2>1. q \in Handlers /\ q \notin Ingesters /\ up
    BY Facts, Handler, <1>1
  <2>2. Lookup(q)
    <3>1. \A t \in Handlers \ {q} : \A what : Answer(t, what) => reply'[q] = reply[q]
      BY <1>1, <2>1 DEF Answer, IndexInv, IndexTypeOK
    <3> QED
      BY <1>1, <2>1, <3>1, Facts
         DEF IndexNext, Handle, Start, Die, Ingest, AddVector, ReadBase, MapChunk, ReadTotal,
             SetGauge, Retrieve, Search, Lookup, indexVars
  <2>3. number[q] \in 1 .. Len(vectors) /\ number[q] \in Positions
    BY <1>1, Facts DEF IndexInv, HandlerInv, IndexTypeOK, Positions
  <2>4. reply'[q] = chunkAt[number[q]] /\ chunkAt[number[q]] # NoChunk
    BY <1>1, <2>1, <2>2, Facts DEF Lookup, Answer, IndexInv, IndexTypeOK
  <2>5. chunkAt[number[q]] = vectors[number[q]]
    BY <1>1, <2>1, <2>3, <2>4, Facts
       DEF IndexInv, SerialInv, StepInv, MappedTo, HandlerInv, IngestSteps, Ingesting, IndexTypeOK
  <2> QED
    BY <2>4, <2>5
<1> QED
  BY <1>1, IndexInvariant, PTL DEF IndexSpec, AnsweredFromTheNearestChunk
=============================================================================
