--------------------------- MODULE CircuitBreaker ---------------------------
(***************************************************************************)
(* The distributed circuit breaker of one route                            *)
(* (src/gateway/plugins/circuitbreaker/breaker_plugin.py).                 *)
(*                                                                         *)
(* Its whole state is three Redis keys shared by every worker and pod:     *)
(*   cb:open:<route>       present while the circuit is OPEN               *)
(*   cb:fails:<route>      the failures counted in the current window      *)
(*   cb:half_open:<route>  the lock of the HALF_OPEN probe                 *)
(* A request is a coroutine that suspends at every Redis command, so any   *)
(* number of other requests run between two of its commands: each command  *)
(* is a step of its own, and pc[r] names the command r issues next.        *)
(*                                                                         *)
(* A request that finds cb:open is answered 503 and changes nothing, nor   *)
(* does one whose first command, EXISTS, fails: neither is a step.         *)
(***************************************************************************)
EXTENDS Integers, FiniteSets

CONSTANTS
    Request,     \* the requests that may be in flight together
    Threshold,   \* failure_threshold
    Recovery,    \* int(recovery_timeout), in ticks
    Window,      \* window_seconds, in ticks
    LockTtl,     \* the constant ex=10 of the probe lock, in ticks
    MaxProbe,    \* the longest a probe takes, from lock to verdict, in ticks
    MaxCrashes,  \* bound on requests lost with their worker
    MaxErrors    \* bound on failed Redis commands

ASSUME RequestFinite == IsFiniteSet(Request)
ASSUME BreakerConfig == /\ Threshold \in Nat \ {0}
                        /\ Recovery \in Nat \ {0}
                        /\ Window \in Nat \ {0}
                        /\ LockTtl \in Nat \ {0}
ASSUME BreakerBounds == /\ MaxProbe \in Nat
                        /\ MaxCrashes \in Nat
                        /\ MaxErrors \in Nat

VARIABLES
    open,        \* remaining time to live of cb:open, 0 when it is absent
    fails,       \* value of cb:fails, 0 when it is absent
    failsTtl,    \* remaining time to live of cb:fails, NoTtl when it has none
    halfOpen,    \* remaining time to live of cb:half_open, 0 when it is absent
    pc,          \* the command each request issues next
    probing,     \* is_probing of each request
    caught,      \* the request is in the except clause of __call__
    age,         \* ticks since the request took the probe lock
    healthy,     \* the upstream answers below 500
    crashes,     \* requests lost so far
    errors       \* Redis commands failed so far

redis == <<open, fails, failsTtl, halfOpen>>
locals == <<pc, probing, caught, age>>
faults == <<crashes, errors>>
vars == <<redis, locals, healthy, faults>>

NoTtl == -1

\* The commands issued inside the try block of __call__.
Guarded == {"del_fails", "del_lock", "reopen", "incr", "expire", "trip"}
Command == {"get", "set_nx"} \union Guarded
-----------------------------------------------------------------------------
Init ==
    /\ open = 0 /\ fails = 0 /\ failsTtl = 0 /\ halfOpen = 0
    /\ pc = [r \in Request |-> "idle"]
    /\ probing = [r \in Request |-> FALSE]
    /\ caught = [r \in Request |-> FALSE]
    /\ age = [r \in Request |-> 0]
    /\ healthy = TRUE
    /\ crashes = 0 /\ errors = 0

Goto(r, label) == pc' = [pc EXCEPT ![r] = label]

\* The request is answered, or lost: its locals are gone.
Leave(r) ==
    /\ Goto(r, "idle")
    /\ probing' = [probing EXCEPT ![r] = FALSE]
    /\ caught' = [caught EXCEPT ![r] = FALSE]
    /\ age' = [age EXCEPT ![r] = 0]

Continue(r, label) == Goto(r, label) /\ UNCHANGED <<probing, caught, age>>

\* The first command of _handle_failure.
FailureCommand(r) == IF probing[r] THEN "reopen" ELSE "incr"
-----------------------------------------------------------------------------
(***************************************************************************)
(* What each command does to Redis.                                        *)
(***************************************************************************)
SetOpen == open' = Recovery /\ UNCHANGED <<fails, failsTtl, halfOpen>>

\* Mutant: SET NX without EX.
SetLock_NoExpiry == /\ halfOpen' = IF halfOpen = 0 THEN NoTtl ELSE halfOpen
                    /\ UNCHANGED <<open, fails, failsTtl>>

SetLock == /\ halfOpen' = IF halfOpen = 0 THEN LockTtl ELSE halfOpen
           /\ UNCHANGED <<open, fails, failsTtl>>

DeleteLock == halfOpen' = 0 /\ UNCHANGED <<open, fails, failsTtl>>

\* Mutant: the counter is set to 0 with KEEPTTL instead of deleted.
DeleteFails_KeepTtl == fails' = 0 /\ UNCHANGED <<open, failsTtl, halfOpen>>

DeleteFails == fails' = 0 /\ failsTtl' = 0 /\ UNCHANGED <<open, halfOpen>>

\* INCR creates a key without a time to live and keeps that of an old one.
IncrFails == /\ fails' = fails + 1
             /\ failsTtl' = IF fails = 0 THEN NoTtl ELSE failsTtl
             /\ UNCHANGED <<open, halfOpen>>

\* EXPIRE does nothing to a key that is gone.
ExpireFails == /\ failsTtl' = IF fails = 0 THEN 0 ELSE Window
               /\ UNCHANGED <<open, fails, halfOpen>>

\* Redis executes command c.
Execute(c) ==
    \/ c = "get" /\ UNCHANGED redis
    \/ c = "set_nx" /\ SetLock
    \/ c = "del_fails" /\ DeleteFails
    \/ c = "del_lock" /\ DeleteLock
    \/ c \in {"reopen", "trip"} /\ SetOpen
    \/ c = "incr" /\ IncrFails
    \/ c = "expire" /\ ExpireFails
-----------------------------------------------------------------------------
(***************************************************************************)
(* The steps of a request.                                                 *)
(***************************************************************************)
\* Mutant: the OPEN check is dropped.
Admit_Unchecked(r) ==
    /\ pc[r] = "idle"
    /\ Continue(r, "get")
    /\ UNCHANGED <<redis, healthy, faults>>

\* EXISTS cb:open finds no key.
Admit(r) ==
    /\ pc[r] = "idle"
    /\ open = 0
    /\ Continue(r, "get")
    /\ UNCHANGED <<redis, healthy, faults>>

\* Mutant: > for >= in the threshold test.
GetFails_OffByOne(r) ==
    /\ pc[r] = "get"
    /\ Execute("get")
    /\ Continue(r, IF fails > Threshold THEN "set_nx" ELSE "call")
    /\ UNCHANGED <<healthy, faults>>

\* GET cb:fails: below the threshold the upstream is called at once.
GetFails(r) ==
    /\ pc[r] = "get"
    /\ Execute("get")
    /\ Continue(r, IF fails >= Threshold THEN "set_nx" ELSE "call")
    /\ UNCHANGED <<healthy, faults>>

\* Mutant: SET without NX.
TakeProbe_NoNx(r) ==
    /\ pc[r] = "set_nx"
    /\ Execute("set_nx")
    /\ Goto(r, "call")
    /\ probing' = [probing EXCEPT ![r] = TRUE]
    /\ UNCHANGED <<caught, age, healthy, faults>>

\* SET cb:half_open NX EX 10 takes the lock: the request is the probe.
TakeProbe(r) ==
    /\ pc[r] = "set_nx"
    /\ halfOpen = 0
    /\ Execute("set_nx")
    /\ Goto(r, "call")
    /\ probing' = [probing EXCEPT ![r] = TRUE]
    /\ UNCHANGED <<caught, age, healthy, faults>>

\* The lock is taken: 503, recovery in progress.
RefuseProbe(r) ==
    /\ pc[r] = "set_nx"
    /\ halfOpen # 0
    /\ Execute("set_nx")
    /\ Leave(r)
    /\ UNCHANGED <<healthy, faults>>

\* next() returns a response below 500.  An ordinary request is done: its
\* success leaves the counter as it is.
Succeed(r) ==
    /\ pc[r] = "call"
    /\ healthy
    /\ IF probing[r] THEN Continue(r, "del_fails") ELSE Leave(r)
    /\ UNCHANGED <<redis, healthy, faults>>

\* next() returns a response of 500 or more, inside the try block, or raises
\* and lands in the except clause; _handle_failure runs either way.
Fail(r) ==
    /\ pc[r] = "call"
    /\ ~healthy
    /\ Goto(r, FailureCommand(r))
    /\ \E raised \in BOOLEAN : caught' = [caught EXCEPT ![r] = raised]
    /\ UNCHANGED <<redis, probing, age, healthy, faults>>

\* The probe succeeded: the counter goes first, the lock after it.
ResetFails(r) ==
    /\ pc[r] = "del_fails"
    /\ Execute("del_fails")
    /\ Continue(r, "del_lock")
    /\ UNCHANGED <<healthy, faults>>

\* The probe failed: the circuit opens again before the lock is released.
Reopen(r) ==
    /\ pc[r] = "reopen"
    /\ Execute("reopen")
    /\ Continue(r, "del_lock")
    /\ UNCHANGED <<healthy, faults>>

\* DEL removes the key whoever holds the lock: its value names no owner.
ReleaseProbe(r) ==
    /\ pc[r] = "del_lock"
    /\ Execute("del_lock")
    /\ Leave(r)
    /\ UNCHANGED <<healthy, faults>>

\* Mutant: the window starts at the second failure.
CountFailure_SecondStarts(r) ==
    /\ pc[r] = "incr"
    /\ Execute("incr")
    /\ IF fails = 1 THEN Continue(r, "expire")
       ELSE IF fails + 1 >= Threshold THEN Continue(r, "trip")
       ELSE Leave(r)
    /\ UNCHANGED <<healthy, faults>>

\* INCR cb:fails returns fails + 1, which decides what follows.
CountFailure(r) ==
    /\ pc[r] = "incr"
    /\ Execute("incr")
    /\ IF fails = 0 THEN Continue(r, "expire")
       ELSE IF fails + 1 >= Threshold THEN Continue(r, "trip")
       ELSE Leave(r)
    /\ UNCHANGED <<healthy, faults>>

\* EXPIRE cb:fails after a count of 1, which trips only a threshold of 1.
StartWindow(r) ==
    /\ pc[r] = "expire"
    /\ Execute("expire")
    /\ IF Threshold = 1 THEN Continue(r, "trip") ELSE Leave(r)
    /\ UNCHANGED <<healthy, faults>>

Trip(r) ==
    /\ pc[r] = "trip"
    /\ Execute("trip")
    /\ Leave(r)
    /\ UNCHANGED <<healthy, faults>>
-----------------------------------------------------------------------------
(***************************************************************************)
(* Faults, time and the upstream.                                          *)
(***************************************************************************)
\* The worker dies, or cancels the request: CancelledError is no Exception
\* and skips the except clause, so nothing is undone.
Crash(r) ==
    /\ pc[r] # "idle"
    /\ crashes < MaxCrashes
    /\ crashes' = crashes + 1
    /\ Leave(r)
    /\ UNCHANGED <<redis, healthy, errors>>

\* A Redis command raises, before or after Redis executed it.  Inside the
\* try block the except clause runs _handle_failure from its start; outside
\* of it, or in the except clause itself, the exception ends the request.
RedisError(r) ==
    /\ pc[r] \in Command
    /\ errors < MaxErrors
    /\ errors' = errors + 1
    /\ Execute(pc[r]) \/ UNCHANGED redis
    /\ IF pc[r] \in Guarded /\ ~caught[r]
       THEN /\ Goto(r, FailureCommand(r))
            /\ caught' = [caught EXCEPT ![r] = TRUE]
            /\ UNCHANGED <<probing, age>>
       ELSE Leave(r)
    /\ UNCHANGED <<healthy, crashes>>

Expiring(ttl) == IF ttl > 0 THEN ttl - 1 ELSE ttl

\* Time passes for every key at once; no probe outlives MaxProbe.
Tick ==
    /\ \A r \in Request : probing[r] => age[r] < MaxProbe
    /\ open' = Expiring(open)
    /\ halfOpen' = Expiring(halfOpen)
    /\ failsTtl' = Expiring(failsTtl)
    /\ fails' = IF failsTtl = 1 THEN 0 ELSE fails
    /\ age' = [r \in Request |-> IF probing[r] THEN age[r] + 1 ELSE age[r]]
    /\ UNCHANGED <<pc, probing, caught, healthy, faults>>

UpstreamChanges == healthy' = ~healthy /\ UNCHANGED <<redis, locals, faults>>
-----------------------------------------------------------------------------
Proceed(r) ==
    \/ GetFails(r) \/ TakeProbe(r) \/ RefuseProbe(r)
    \/ Succeed(r) \/ Fail(r)
    \/ ResetFails(r) \/ Reopen(r) \/ ReleaseProbe(r)
    \/ CountFailure(r) \/ StartWindow(r) \/ Trip(r)

Next ==
    \/ \E r \in Request : Admit(r) \/ Proceed(r) \/ Crash(r) \/ RedisError(r)
    \/ Tick
    \/ UpstreamChanges

Spec == Init /\ [][Next]_vars

(***************************************************************************)
(* A request in flight goes on: the event loop runs it, Redis answers or   *)
(* errs, and the upstream answers or times out.  Time passes.  Requests    *)
(* keep arriving at the route.  Nothing is assumed of the upstream.        *)
(***************************************************************************)
Fairness ==
    /\ \A r \in Request : WF_vars(Proceed(r)) /\ WF_vars(Admit(r))
    /\ WF_vars(Tick)

FairSpec == Spec /\ Fairness
-----------------------------------------------------------------------------
(***************************************************************************)
(* Properties.                                                             *)
(***************************************************************************)
\* A counter and its time to live are absent together.
KeysOK ==
    /\ open \in 0..Recovery
    /\ fails \in Nat
    /\ failsTtl \in {NoTtl} \union 0..Window
    /\ fails = 0 <=> failsTtl = 0
    /\ halfOpen \in 0..LockTtl

LocalsOK ==
    /\ pc \in [Request -> {"idle", "call"} \union Command]
    /\ probing \in [Request -> BOOLEAN]
    /\ caught \in [Request -> BOOLEAN]
    /\ age \in [Request -> Nat]

\* Types of the variables.
TypeOK ==
    /\ KeysOK
    /\ LocalsOK
    /\ healthy \in BOOLEAN
    /\ crashes \in 0..MaxCrashes
    /\ errors \in 0..MaxErrors

\* At most one request at a time is the HALF_OPEN probe ("Use SET NX to
\* ensure only one worker probes", breaker_plugin.py:77), whatever requests
\* are lost, and each failed command adds at most one more: a DEL that raises
\* after Redis executed it leaves its request a probe without a lock, and when
\* the except clause deletes the key again it deletes the next probe's lock.
\* It needs probes that are over before their lock expires.
ProbeMutex == Cardinality({r \in Request : probing[r]}) <= 1 + errors

\* The failure counter never outlives its window: a counter without a time
\* to live belongs to a request that is about to set one, unless a request
\* was lost or a command failed between the two.
CounterExpires ==
    failsTtl = NoTtl /\ crashes = 0 /\ errors = 0
        => \E r \in Request : pc[r] = "expire"

\* However many requests race past the check, the counter exceeds the
\* threshold by less than the requests in flight (and one per Redis error).
CountBounded == fails < Threshold + Cardinality(Request) + errors

\* The state machine of the plugin's docstring, read off the keys.
Mode == IF open > 0 THEN "OPEN"
        ELSE IF fails >= Threshold THEN "HALF_OPEN"
        ELSE "CLOSED"

\* Requests in flight may renew OPEN, but only finitely often: it ends.
OpenEnds == open > 0 ~> open = 0

\* Once the upstream is well for good the circuit closes for good, whatever
\* crashed or failed before: no lock and no counter blocks it for ever.
Recovers == <>[]healthy => <>[](Mode = "CLOSED")
=============================================================================
