---------------------------- MODULE RateLimiter ----------------------------
(***************************************************************************)
(* The distributed token bucket of one rate limit key                      *)
(* (src/gateway/plugins/ratelimit/ratelimit_plugin.py).                    *)
(*                                                                         *)
(* The bucket lives in Redis and only the Lua script touches it.  Each     *)
(* worker process caches the script's SHA for ever and stamps a request    *)
(* with its own clock before it sends EVALSHA, so requests may reach Redis *)
(* in another order than that of their stamps, and with clocks that differ *)
(* between pods.                                                           *)
(*                                                                         *)
(* Time is counted in ticks and read relative to Redis' clock.  Tokens are *)
(* counted in units of 1/Window, which makes the rate Limit / Window an    *)
(* integer: a tick adds Limit units and a request takes Window of them.    *)
(***************************************************************************)
EXTENDS Integers

CONSTANTS
    Request,      \* the requests that may be in flight together
    Worker,       \* the gateway's worker processes
    Limit,        \* limit, the capacity of the bucket
    Window,       \* window, in ticks
    Skew,         \* how far each worker's clock is ahead of Redis'
    MaxDelay,     \* the longest from time.time() to the script, in ticks
    MaxErrors,    \* bound on failed Redis commands
    MaxRestarts,  \* bound on Redis restarts
    MaxWatch      \* the longest observation, in ticks

ASSUME LimiterConfig == Limit \in Nat \ {0} /\ Window \in Nat \ {0}
ASSUME LimiterClocks == Skew \in [Worker -> Nat] /\ MaxDelay \in Nat
ASSUME LimiterBounds == /\ MaxErrors \in Nat
                        /\ MaxRestarts \in Nat
                        /\ MaxWatch \in Nat

VARIABLES
    tokens,    \* the field "tokens" of the bucket
    age,       \* Redis' clock minus the field "last_refill"
    ttl,       \* remaining time to live of the bucket, 0 when it is absent
    loaded,    \* Redis has the script
    cached,    \* the worker has its SHA in _SCRIPT_SHA_CACHE
    pc,        \* the command each request issues next
    worker,    \* the worker that runs it
    delay,     \* ticks since it read time.time()
    watched,   \* observer: ticks since the observation began
    granted,   \* observer: requests the script has let through since then
    errors,    \* Redis commands failed so far
    restarts   \* Redis restarts so far

bucket == <<tokens, age, ttl>>
scripts == <<loaded, cached>>
locals == <<pc, worker, delay>>
observer == <<watched, granted>>
faults == <<errors, restarts>>
vars == <<bucket, scripts, locals, observer, faults>>

Capacity == Limit * Window

Lower(a, b) == IF a <= b THEN a ELSE b

\* EXPIRE key math.ceil(capacity / rate) + 2
BucketTtl == Window + 2
-----------------------------------------------------------------------------
Init ==
    /\ tokens = 0 /\ age = 0 /\ ttl = 0
    /\ loaded = FALSE
    /\ cached = [w \in Worker |-> FALSE]
    /\ pc = [r \in Request |-> "idle"]
    /\ worker \in [Request -> Worker]
    /\ delay = [r \in Request |-> 0]
    /\ watched = 0 /\ granted = 0
    /\ errors = 0 /\ restarts = 0

\* The request is forwarded or answered 429.
Leave(r) ==
    /\ pc' = [pc EXCEPT ![r] = "idle"]
    /\ delay' = [delay EXCEPT ![r] = 0]
    /\ UNCHANGED worker
-----------------------------------------------------------------------------
(***************************************************************************)
(* The Lua script, run for a request whose stamp lies lag ticks behind     *)
(* Redis' clock (before it when lag is negative).                          *)
(***************************************************************************)
\* Mutant: math.min(capacity, ...) is missing.
Refilled_Uncapped(lag) ==
    IF ttl = 0 THEN Capacity
    ELSE tokens + (IF age > lag THEN age - lag ELSE 0) * Limit

Refilled(lag) ==
    IF ttl = 0 THEN Capacity
    ELSE LET elapsed == IF age > lag THEN age - lag ELSE 0
         IN  Lower(Capacity, tokens + elapsed * Limit)

Allowed(lag) == Refilled(lag) >= Window

\* Mutant: last_refill is written only when the request is allowed.
Script_StampsAllowed(lag) ==
    /\ tokens' = IF Allowed(lag) THEN Refilled(lag) - Window ELSE Refilled(lag)
    /\ age' = IF Allowed(lag) THEN lag ELSE age
    /\ ttl' = BucketTtl
    /\ granted' = IF Allowed(lag) /\ watched < MaxWatch THEN granted + 1 ELSE granted
    /\ UNCHANGED watched

\* Mutant: a refused request writes last_refill but not the refilled tokens.
Script_LosesRefill(lag) ==
    /\ tokens' = IF Allowed(lag) THEN Refilled(lag) - Window ELSE tokens
    /\ age' = lag
    /\ ttl' = BucketTtl
    /\ granted' = IF Allowed(lag) /\ watched < MaxWatch THEN granted + 1 ELSE granted
    /\ UNCHANGED watched

Script(lag) ==
    /\ tokens' = IF Allowed(lag) THEN Refilled(lag) - Window ELSE Refilled(lag)
    /\ age' = lag
    /\ ttl' = BucketTtl
    /\ granted' = IF Allowed(lag) /\ watched < MaxWatch THEN granted + 1 ELSE granted
    /\ UNCHANGED watched

Lag(r) == delay[r] - Skew[worker[r]]
-----------------------------------------------------------------------------
(***************************************************************************)
(* The steps of a request.                                                 *)
(***************************************************************************)
\* A request reaches a worker: with the SHA in its cache it reads the clock
\* and sends EVALSHA, otherwise SCRIPT LOAD.
Arrive(r) ==
    /\ pc[r] = "idle"
    /\ \E w \in Worker :
         /\ worker' = [worker EXCEPT ![r] = w]
         /\ pc' = [pc EXCEPT ![r] = IF cached[w] THEN "evalsha" ELSE "load"]
    /\ UNCHANGED <<bucket, scripts, delay, observer, faults>>

LoadScript(r) ==
    /\ pc[r] = "load"
    /\ loaded' = TRUE
    /\ cached' = [cached EXCEPT ![worker[r]] = TRUE]
    /\ pc' = [pc EXCEPT ![r] = "evalsha"]
    /\ UNCHANGED <<bucket, worker, delay, observer, faults>>

Evaluate(r) ==
    /\ pc[r] = "evalsha"
    /\ loaded
    /\ Script(Lag(r))
    /\ Leave(r)
    /\ UNCHANGED <<scripts, faults>>

\* Redis knows no script of that SHA and answers NOSCRIPT: the handler for
\* every exception lets the request pass, and the SHA stays cached.
NoScript(r) ==
    /\ pc[r] = "evalsha"
    /\ ~loaded
    /\ Leave(r)
    /\ UNCHANGED <<bucket, scripts, observer, faults>>

\* A command raises, before or after Redis executed it: the request passes.
RedisError(r) ==
    /\ pc[r] \in {"load", "evalsha"}
    /\ errors < MaxErrors
    /\ errors' = errors + 1
    /\ Leave(r)
    /\ \/ UNCHANGED <<bucket, scripts, observer>>
       \/ /\ pc[r] = "load"
          /\ loaded' = TRUE
          /\ UNCHANGED <<bucket, cached, observer>>
       \/ /\ pc[r] = "evalsha" /\ loaded
          /\ Script(Lag(r))
          /\ UNCHANGED scripts
    /\ UNCHANGED restarts
-----------------------------------------------------------------------------
(***************************************************************************)
(* Time, Redis and the observer.                                           *)
(***************************************************************************)
\* Time passes; a command reaches Redis within MaxDelay of its stamp.
Tick ==
    /\ \A r \in Request : pc[r] = "evalsha" => delay[r] < MaxDelay
    /\ ttl' = IF ttl > 0 THEN ttl - 1 ELSE 0
    /\ age' = IF ttl > 1 THEN age + 1 ELSE 0
    /\ tokens' = IF ttl > 1 THEN tokens ELSE 0
    /\ delay' = [r \in Request |-> IF pc[r] = "evalsha" THEN delay[r] + 1 ELSE 0]
    /\ IF watched < MaxWatch
       THEN watched' = watched + 1 /\ UNCHANGED granted
       ELSE watched' = 0 /\ granted' = 0
    /\ UNCHANGED <<scripts, pc, worker, faults>>

\* Redis restarts: the script is gone, the bucket too unless Redis persists
\* its keys.  An observation does not span a restart.
Restart ==
    /\ restarts < MaxRestarts
    /\ restarts' = restarts + 1
    /\ UNCHANGED bucket \/ (tokens' = 0 /\ age' = 0 /\ ttl' = 0)
    /\ loaded' = FALSE
    /\ watched' = 0 /\ granted' = 0
    /\ UNCHANGED <<cached, locals, errors>>

\* An observation begins at any moment, so a bound on granted is a bound
\* for every interval of time shorter than MaxWatch ticks.
Observe ==
    /\ watched' = 0 /\ granted' = 0
    /\ UNCHANGED <<bucket, scripts, locals, faults>>
-----------------------------------------------------------------------------
Proceed(r) == LoadScript(r) \/ Evaluate(r) \/ NoScript(r)

Next ==
    \/ \E r \in Request : Arrive(r) \/ Proceed(r) \/ RedisError(r)
    \/ Tick
    \/ Restart
    \/ Observe

Spec == Init /\ [][Next]_vars

\* Commands are answered, time passes and the client keeps sending.
Fairness ==
    /\ \A r \in Request : WF_vars(Proceed(r)) /\ WF_vars(Arrive(r))
    /\ WF_vars(Tick)

FairSpec == Spec /\ Fairness
-----------------------------------------------------------------------------
(***************************************************************************)
(* Properties.                                                             *)
(***************************************************************************)
BucketOK ==
    /\ tokens \in 0..Capacity
    /\ age \in Int
    /\ ttl \in 0..BucketTtl

LocalsOK ==
    /\ pc \in [Request -> {"idle", "load", "evalsha"}]
    /\ worker \in [Request -> Worker]
    /\ delay \in [Request -> Nat]

\* Types of the variables; the bucket never holds more than its capacity.
TypeOK ==
    /\ BucketOK
    /\ loaded \in BOOLEAN /\ cached \in [Worker -> BOOLEAN]
    /\ LocalsOK
    /\ watched \in 0..MaxWatch /\ granted \in Nat
    /\ errors \in 0..MaxErrors /\ restarts \in 0..MaxRestarts

\* The contract of a token bucket: in any interval the script lets through
\* at most the capacity plus what the rate adds in that time.
AdmissionBound == granted * Window <= Capacity + watched * Limit

\* What the script would find in the bucket now is the level of an ideal
\* token bucket: an admitted request takes one token from it and nothing else
\* lowers it, and a tick adds the rate to it.  Neither a key that expires, nor
\* the fields a refused request writes, nor a command that failed after Redis
\* executed it makes a difference.
Ideal == INSTANCE TokenBucket WITH level <- Refilled(0)
ImplementsBucket == Ideal!Spec

\* While time passes and Redis does not restart, a client that keeps sending
\* is served again and again: calls refused in between never use up or
\* postpone the refill.
GrantsRecur ==
    [](restarts = 0) /\ []<><<Tick>>_vars => []<><<\E r \in Request : Evaluate(r) /\ Allowed(Lag(r))>>_vars

\* "If Redis fails, fail open" (line 143): once Redis answers again a worker
\* does not go on letting every request pass.
LimitsAgain == \A w \in Worker : []<>(cached[w] => loaded)
=============================================================================
