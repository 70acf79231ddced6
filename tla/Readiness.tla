------------------------------ MODULE Readiness ------------------------------
(***************************************************************************)
(* GET /ready of SecureShip with a table: DescribeTable, whose outcome is  *)
(* kept in _READY_CACHE for READY_CACHE_TTL. The handler runs in worker    *)
(* threads, so several checks can be under way at once, and a slow one may *)
(* come back after a check that began later. Discrete time.                *)
(***************************************************************************)
EXTENDS Integers

CONSTANTS
    Probers,   \* worker threads that serve /ready
    TTL,       \* READY_CACHE_TTL, in ticks
    LoadTicks  \* how long DescribeTable takes at most, all attempts included

ASSUME ReadinessAssumption == TTL \in Nat /\ LoadTicks \in Nat

VARIABLES
    outcome,   \* what becomes of a DescribeTable at this moment
    cache,     \* _READY_CACHE: ok or error, and the age of checked_at
    check,     \* per thread: where it is, and the age of its `now`
    (* History. *)
    saw,       \* per thread: what the outcome has been since its `now`
    since      \* ticks since it was last ok, and last an error

readiness == <<outcome, cache, check, saw, since>>

Outcomes == {"ok", "error"}
Other(o) == IF o = "ok" THEN "error" ELSE "ok"

Horizon == IF TTL < LoadTicks THEN LoadTicks ELSE TTL

(* Ages are told apart up to the first that is too old for every purpose. *)
Ages == 0 .. Horizon + 1
Older(age) == IF age > Horizon THEN age ELSE age + 1

ReadyTypeOK ==
    /\ outcome \in Outcomes
    /\ cache \in [found : Outcomes, age : Ages]
    /\ check \in [Probers -> [pc : {"idle", "load", "read"}, age : 0 .. LoadTicks]]
    /\ saw \in [Probers -> SUBSET Outcomes]
    /\ since \in [Outcomes -> Ages]

(* checked_at is 0.0. *)
ReadyInit ==
    /\ outcome \in Outcomes
    /\ cache = [found |-> "error", age |-> Horizon + 1]
    /\ check = [r \in Probers |-> [pc |-> "idle", age |-> 0]]
    /\ saw = [r \in Probers |-> {}]
    /\ since = [o \in Outcomes |-> IF o = outcome THEN 0 ELSE Horizon + 1]

At(r, pc) == check[r].pc = pc
Move(r, pc) == check' = [check EXCEPT ![r] = [pc |-> pc, age |-> 0]]

-----------------------------------------------------------------------------
(* now = time.time(), and is what is cached older than the TTL? *)
Ask(r) ==
    /\ At(r, "idle")
    /\ IF cache.age > TTL
       THEN Move(r, "load") /\ saw' = [saw EXCEPT ![r] = {outcome}]
       ELSE Move(r, "read") /\ UNCHANGED saw
    /\ UNCHANGED <<outcome, cache, since>>

(* _READY_CACHE.update(checked_at=now, ...), with the `now` from before the
   call to DynamoDB. *)
WhenItReturned(r) == 0
WhenItBegan(r) == check[r].age

Load(r) ==
    /\ At(r, "load")
    /\ \E o \in saw[r] : cache' = [found |-> o, age |-> WhenItBegan(r)]
    /\ Move(r, "read")
    /\ UNCHANGED <<outcome, saw, since>>

(* if not _READY_CACHE["ok"]: read again, and answered. *)
Respond(r) ==
    /\ At(r, "read")
    /\ Move(r, "idle")
    /\ UNCHANGED <<outcome, cache, saw, since>>

(* The table can be reached no more, or again. *)
Toggle ==
    /\ outcome' = Other(outcome)
    /\ saw' = [r \in Probers |-> IF At(r, "load") THEN saw[r] \cup {outcome'} ELSE saw[r]]
    /\ since' = [since EXCEPT ![outcome'] = 0]
    /\ UNCHANGED <<cache, check>>

(* The two reads of the cache are at the same time, as far as ticks go. *)
Wait ==
    /\ \A r \in Probers : ~At(r, "read") /\ (At(r, "load") => check[r].age < LoadTicks)
    /\ check' = [r \in Probers |->
           IF At(r, "load") THEN [check[r] EXCEPT !.age = @ + 1] ELSE check[r]]
    /\ cache' = [cache EXCEPT !.age = Older(@)]
    /\ since' = [since EXCEPT ![Other(outcome)] = Older(@)]
    /\ UNCHANGED <<outcome, saw>>

ReadyNext ==
    \/ \E r \in Probers : Ask(r) \/ Load(r) \/ Respond(r)
    \/ Toggle \/ Wait

ReadySpec == ReadyInit /\ [][ReadyNext]_readiness

-----------------------------------------------------------------------------
(* "/ready fails unless DynamoDB is reachable" (deploy.sh:425), "a replica that
   cannot reach it should be removed from the Service endpoints" (main.py:378):
   what /ready answers was so no longer ago than the TTL, or than the longest
   check if that is longer, for such a check may replace the outcome of one that
   began after it. *)
ReadyIsRecent == \A r \in Probers : At(r, "read") => since[cache.found] <= Horizon
=============================================================================
