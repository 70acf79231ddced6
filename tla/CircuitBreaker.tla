---------------------------- MODULE CircuitBreaker ----------------------------
(***************************************************************************)
(* What a circuit breaker promises to those who call through it: a call is *)
(* one step. FailMax failed calls in a row open the circuit; an open one   *)
(* turns every call away for ResetTimeout and then lets one through, whose *)
(* outcome closes it or opens it again. A call that is not made, as there  *)
(* is nothing to ask or no way to, does not count.                         *)
(***************************************************************************)
EXTENDS Naturals

CONSTANTS Callers, FailMax, ResetTimeout

VARIABLES
    open,
    failures, \* failed calls since the last one that succeeded, up to FailMax
    waited,   \* time since the circuit opened, up to ResetTimeout
    told      \* per caller: how its last call ended

vars == <<open, failures, waited, told>>

Init ==
    /\ open = FALSE /\ failures = 0 /\ waited = 0
    /\ told = [c \in Callers |-> "none"]

Tell(c, outcome) == told' = [told EXCEPT ![c] = outcome]

Admits == open => waited = ResetTimeout

Succeed(c) ==
    /\ Admits
    /\ open' = FALSE /\ failures' = 0 /\ UNCHANGED waited
    /\ Tell(c, "llm")

(* The call that opens the circuit is told so. *)
FailAndOpen(c) ==
    /\ Admits /\ (open \/ failures + 1 = FailMax)
    /\ open' = TRUE /\ failures' = FailMax /\ waited' = 0
    /\ Tell(c, "circuit_open")

Fail(c) ==
    /\ ~open /\ failures + 1 < FailMax
    /\ failures' = failures + 1 /\ UNCHANGED <<open, waited>>
    /\ Tell(c, "failed")

TurnAway(c) ==
    /\ ~Admits
    /\ Tell(c, "circuit_open") /\ UNCHANGED <<open, failures, waited>>

NoCall(c) ==
    /\ \E outcome \in {"no_context", "error"} : Tell(c, outcome)
    /\ UNCHANGED <<open, failures, waited>>

Time ==
    /\ waited < ResetTimeout /\ waited' = waited + 1
    /\ UNCHANGED <<open, failures, told>>

Next ==
    \/ Time
    \/ \E c \in Callers :
           Succeed(c) \/ FailAndOpen(c) \/ Fail(c) \/ TurnAway(c) \/ NoCall(c)

Spec == Init /\ [][Next]_vars
=============================================================================
