------------------------------ MODULE RagBreaker ------------------------------
(***************************************************************************)
(* POST /query of RAGService from the relevance grade on: the LLM call     *)
(* with its retries (tenacity), the circuit breaker around it (pybreaker), *)
(* and the degraded answers.                                               *)
(*                                                                         *)
(* Each query runs in a worker thread. pybreaker holds one lock for the    *)
(* whole of a call, so the threads pass through the breaker one by one.    *)
(* Within one attempt of tenacity the Groq client retries by itself.       *)
(* Time is a Tick of one second for everybody; no time passes in a step    *)
(* of a thread. Groq is up or down, and goes from one to the other at will. *)
(***************************************************************************)
EXTENDS Naturals

CONSTANTS
    Threads,      \* worker threads that serve /query
    FailMax,      \* fail_max: failed calls in a row that open the circuit
    ResetTimeout, \* reset_timeout: seconds until an open circuit lets a probe in
    MaxAttempts,  \* stop_after_attempt
    RequestTime,  \* the longest one request to Groq takes, in seconds
    ClientRetries,\* max_retries of the Groq client, its default
    ClientWait,   \* the longest the client waits between two requests
    Backoff,      \* the wait between two attempts, in seconds
    Horizon,      \* ages are counted up to this many seconds
    NoThread

ASSUME RagBreakerAssumption ==
    /\ NoThread \notin Threads
    /\ {FailMax, ResetTimeout, MaxAttempts, RequestTime, Horizon} \subseteq Nat \ {0}
    /\ {ClientRetries, ClientWait, Backoff} \subseteq Nat

(* The longest that one attempt, and that one call of the breaker, can take. *)
LongestAttempt == (ClientRetries + 1) * RequestTime + ClientRetries * ClientWait
WorstCase == MaxAttempts * LongestAttempt + (MaxAttempts - 1) * Backoff

(* The clock goes further than the calls of an outage are to take. *)
ASSUME HorizonAssumption == FailMax * WorstCase < Horizon

VARIABLES
    groq,    \* "up" or "down"
    circuit, \* "closed", "open" or "half_open"
    fails,   \* the breaker's counter of failed calls in a row
    opened,  \* seconds since the circuit opened
    holder,  \* the thread inside the breaker
    pc,      \* per thread: "idle", "lock", "attempt", "backoff"
    tries,   \* attempts the call in the breaker has made
    timer,   \* seconds the current attempt, or backoff, has taken
    answer,  \* per thread: what the last query was answered with
    (* History. *)
    spent,   \* seconds that the call in the breaker has taken
    inRow,   \* failed calls since the last call that succeeded, up to FailMax
    wasted   \* seconds that calls have held the breaker, Groq being down for all
             \* of them, since the circuit last opened

breakerVars == <<circuit, fails, opened, holder>>
callVars == <<tries, timer>>
history == <<spent, inRow, wasted>>
vars == <<groq, breakerVars, pc, callVars, answer, history>>

Answers == {"none", "no_context", "error", "llm", "circuit_open", "failed"}

TypeOK ==
    /\ groq \in {"up", "down"}
    /\ circuit \in {"closed", "open", "half_open"}
    /\ fails \in 0 .. FailMax
    /\ opened \in 0 .. ResetTimeout
    /\ holder \in Threads \cup {NoThread}
    /\ pc \in [Threads -> {"idle", "lock", "attempt", "backoff"}]
    /\ tries \in 0 .. MaxAttempts
    /\ timer \in 0 .. LongestAttempt + Backoff
    /\ answer \in [Threads -> Answers]
    /\ spent \in 0 .. Horizon
    /\ inRow \in 0 .. FailMax
    /\ wasted \in 0 .. Horizon

Init ==
    /\ groq \in {"up", "down"}
    /\ circuit = "closed" /\ fails = 0 /\ opened = 0 /\ holder = NoThread
    /\ pc = [t \in Threads |-> "idle"]
    /\ tries = 0 /\ timer = 0
    /\ answer = [t \in Threads |-> "none"]
    /\ spent = 0 /\ inRow = 0 /\ wasted = 0

-----------------------------------------------------------------------------
Older(age, bound) == IF age < bound THEN age + 1 ELSE age

(* /query answers: with a 200, however degraded, or with a 500 for an error. *)
Reply(t, result) ==
    /\ pc' = [pc EXCEPT ![t] = "idle"]
    /\ answer' = [answer EXCEPT ![t] = result]

(* A rejected call leaves the circuit and its clock alone. *)
StartOver == opened' = 0 /\ UNCHANGED <<circuit, fails>>
StayOpen == UNCHANGED <<circuit, fails, opened>>

(* A call that succeeds closes the circuit and forgets the failures. *)
Close == circuit' = "closed" /\ fails' = 0 /\ UNCHANGED opened

(* A query arrives and its context is graded, unless retrieval fails. *)
Query(t) ==
    /\ pc[t] = "idle"
    /\ \/ Reply(t, "error")
       \/ Reply(t, "no_context")
       \/ pc' = [pc EXCEPT ![t] = "lock"] /\ UNCHANGED answer
    /\ UNCHANGED <<groq, breakerVars, callVars, history>>

Attempt(t) ==
    /\ pc' = [pc EXCEPT ![t] = "attempt"]
    /\ tries' = tries + 1
    /\ timer' = 0

(* The thread gets the lock. An open circuit rejects the call until the reset
   timeout has elapsed; then this call is the probe of a half-open circuit. *)
Enter(t) ==
    /\ pc[t] = "lock" /\ holder = NoThread
    /\ circuit = "open" => opened = ResetTimeout
    /\ circuit' = IF circuit = "open" THEN "half_open" ELSE circuit
    /\ holder' = t
    /\ Attempt(t)
    /\ UNCHANGED <<groq, fails, opened, answer, history>>

Rejected(t) ==
    /\ pc[t] = "lock" /\ holder = NoThread
    /\ circuit = "open" /\ opened < ResetTimeout
    /\ Reply(t, "circuit_open")
    /\ StayOpen
    /\ UNCHANGED <<groq, holder, callVars, history>>

(* Leaving the breaker: its state and the lock are updated together. *)
Leave(t, result) ==
    /\ holder' = NoThread
    /\ tries' = 0 /\ timer' = 0 /\ spent' = 0
    /\ Reply(t, result)

Succeeds(t) ==
    /\ pc[t] = "attempt" /\ groq = "up"
    /\ Leave(t, "llm")
    /\ Close
    /\ inRow' = 0
    /\ UNCHANGED <<groq, wasted>>

(* stop_after_attempt *)
OneMoreAttempt == tries <= MaxAttempts
AttemptsLeft == tries < MaxAttempts

RetryOutsideTheBreaker(t) ==
    /\ pc[t] = "attempt" /\ groq = "down" /\ AttemptsLeft
    /\ pc' = [pc EXCEPT ![t] = "backoff"]
    /\ timer' = 0
    /\ fails' = Older(fails, FailMax)
    /\ circuit' = IF fails + 1 >= FailMax THEN "open" ELSE circuit
    /\ UNCHANGED <<groq, opened, holder, tries, answer, history>>

(* tenacity sleeps and tries again, still inside the breaker. *)
RetryLater(t) ==
    /\ pc[t] = "attempt" /\ groq = "down" /\ AttemptsLeft
    /\ pc' = [pc EXCEPT ![t] = "backoff"]
    /\ timer' = 0
    /\ UNCHANGED <<groq, breakerVars, tries, answer, history>>

Retry(t) ==
    /\ pc[t] = "backoff" /\ timer = Backoff
    /\ Attempt(t)
    /\ UNCHANGED <<groq, breakerVars, answer, history>>

(* fail_max *)
OneMoreFailure == fails >= FailMax
LastFailure == fails + 1 >= FailMax

(* The last attempt fails. The breaker sees one failure, whatever the number
   of attempts; the one that opens the circuit is reported as such. *)
GivesUp(t) ==
    /\ pc[t] = "attempt" /\ groq = "down" /\ tries = MaxAttempts
    /\ inRow' = Older(inRow, FailMax)
    /\ fails' = Older(fails, FailMax)
    /\ IF circuit = "half_open" \/ LastFailure
       THEN /\ circuit' = "open" /\ opened' = 0 /\ wasted' = 0
            /\ Leave(t, "circuit_open")
       ELSE /\ UNCHANGED <<circuit, opened, wasted>>
            /\ Leave(t, "failed")
    /\ UNCHANGED groq

(* A second passes, but not in the middle of an attempt whose last request has
   run into its timeout or of a backoff that is over. *)
Tick ==
    /\ \A t \in Threads :
        /\ pc[t] = "attempt" => timer < LongestAttempt
        /\ pc[t] = "backoff" => timer < Backoff
    /\ timer' = IF holder = NoThread THEN 0 ELSE timer + 1
    /\ opened' = Older(opened, ResetTimeout)
    /\ IF holder = NoThread
       THEN UNCHANGED <<spent, wasted>>
       ELSE /\ spent' = Older(spent, Horizon)
            /\ wasted' = IF groq = "down" THEN Older(wasted, Horizon) ELSE wasted
    /\ UNCHANGED <<groq, circuit, fails, holder, pc, tries, answer, inRow>>

GroqChanges ==
    /\ groq' = IF groq = "up" THEN "down" ELSE "up"
    /\ wasted' = 0
    /\ UNCHANGED <<breakerVars, pc, callVars, answer, spent, inRow>>

Call(t) == Enter(t) \/ Rejected(t) \/ Succeeds(t) \/ RetryLater(t) \/ Retry(t) \/ GivesUp(t)

Next == Tick \/ GroqChanges \/ \E t \in Threads : Query(t) \/ Call(t)

Spec == Init /\ [][Next]_vars

(* Time passes, and a worker thread that can go on does. *)
FairSpec == Spec /\ WF_vars(Tick) /\ \A t \in Threads : WF_vars(Call(t))

-----------------------------------------------------------------------------
(* While the circuit is open nobody talks to Groq, nor sleeps in order to: the
   retries of a call are over before its failure can open the circuit. *)
OpenSparesGroq ==
    circuit = "open" => \A t \in Threads : pc[t] \notin {"attempt", "backoff"}

(* Threads, locks, attempts and the probing state apart, this is a circuit
   breaker, whose calls are single steps. *)
Breaker == INSTANCE CircuitBreaker WITH
    Callers <- Threads,
    open <- circuit # "closed",
    failures <- inRow,
    waited <- opened,
    told <- answer

(* The circuit spares Groq when it should, and only then: it opens when the last
   FailMax calls all failed, however many attempts each of them made, turns calls
   away until the reset timeout has elapsed and lets one through then. *)
CircuitIsRight == []OpenSparesGroq /\ Breaker!Spec

(* Once Groq is up for good, the circuit closes for good, if queries keep
   coming: rejections do not postpone the probe. *)
RecoversOnceGroqIsBack ==
    <>[](groq = "up") /\ []<>(\E t \in Threads : pc[t] = "lock") => <>[](circuit = "closed")

(* A call holds the breaker, its worker thread and all who wait at the lock for
   no longer than its attempts, the requests in each of them and the waits
   between take. *)
CallIsBounded == holder # NoThread => spent <= WorstCase

(* The threads wait at the lock, not at Groq, so an outage blocks them for one
   call after another. From its begin on that goes on for FailMax calls at the
   most, of whichever threads, until the circuit opens, and with every probe for
   one call: only then do queries "fail immediately instead of queuing up". *)
OutageIsCutShort ==
    wasted <= (IF circuit = "half_open" THEN 1 ELSE FailMax) * WorstCase
=============================================================================
