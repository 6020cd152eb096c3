----------------------------- MODULE TokenBucket -----------------------------
(***************************************************************************)
(* What a rate limiter promises: one ideal bucket, which fills with time   *)
(* and with nothing else, and which nothing but an admitted request        *)
(* empties (src/gateway/plugins/ratelimit/ratelimit_plugin.py).  There is  *)
(* no script, no key that expires, no field that a refused request writes. *)
(***************************************************************************)
EXTENDS Integers

CONSTANTS Limit, Window, MaxWatch

VARIABLES
    level,     \* what is in the bucket, in units of 1/Window token
    watched,   \* observer: ticks since the observation began
    granted,   \* observer: requests admitted since then
    restarts   \* how often the store of the bucket has restarted

observer == <<watched, granted>>
vars == <<level, observer, restarts>>

Capacity == Limit * Window

Lower(a, b) == IF a <= b THEN a ELSE b

Init == level = Capacity /\ watched = 0 /\ granted = 0 /\ restarts = 0

\* A tick adds what the rate gives, up to the capacity.
Elapse ==
    /\ level' = Lower(Capacity, level + Limit)
    /\ IF watched < MaxWatch
       THEN watched' = watched + 1 /\ UNCHANGED granted
       ELSE watched' = 0 /\ granted' = 0
    /\ UNCHANGED restarts

\* A request is admitted, for a whole token.
Admit ==
    /\ level >= Window
    /\ level' = level - Window
    /\ granted' = IF watched < MaxWatch THEN granted + 1 ELSE granted
    /\ UNCHANGED <<watched, restarts>>

\* The store restarts: a bucket that is lost is a full one.
Restart ==
    /\ restarts' = restarts + 1
    /\ level' \in {level, Capacity}
    /\ watched' = 0 /\ granted' = 0

\* A new observation begins.
Observe ==
    /\ watched' = 0 /\ granted' = 0
    /\ UNCHANGED <<level, restarts>>

Next == Elapse \/ Admit \/ Restart \/ Observe

Spec == Init /\ [][Next]_vars
=============================================================================
