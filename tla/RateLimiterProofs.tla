------------------------- MODULE RateLimiterProofs -------------------------
(***************************************************************************)
(* Theorems about RateLimiter, for every limit and window and for any      *)
(* number of requests and workers.                                         *)
(***************************************************************************)
EXTENDS RateLimiter, TLAPS

LEMMA CapacityNat == Capacity \in Nat /\ Capacity >= Window
  BY LimiterConfig DEF Capacity

\* A tick adds Limit to a product of ticks and rate.
LEMMA NextProduct ==
    ASSUME NEW n \in Int, NEW k \in Int
    PROVE  n * k \in Int /\ (n + 1) * k = n * k + k
  OBVIOUS

\* An observation begins with nothing counted.
LEMMA ZeroProducts == 0 * Window = 0 /\ 0 * Limit = 0
  BY LimiterConfig

\* What the script finds in the bucket is between nothing and the capacity.
LEMMA RefilledRange ==
    ASSUME BucketOK, NEW lag \in Int
    PROVE  Refilled(lag) \in 0..Capacity
  <1>1. CASE ttl = 0
    BY <1>1, CapacityNat DEF Refilled
  <1>2. CASE ttl # 0
    <2> DEFINE elapsed == IF age > lag THEN age - lag ELSE 0
    <2>1. elapsed \in Nat
      BY DEF BucketOK
    <2>2. elapsed * Limit \in Nat
      BY <2>1, LimiterConfig
    <2>3. tokens + elapsed * Limit \in Nat
      BY <2>2, CapacityNat DEF BucketOK
    <2>4. Refilled(lag) = Lower(Capacity, tokens + elapsed * Limit)
      BY <1>2 DEF Refilled
    <2> HIDE DEF elapsed
    <2>. QED  BY <2>3, <2>4, CapacityNat DEF Lower
  <1>. QED  BY <1>1, <1>2

\* The script keeps the bucket and the observer in their types.
LEMMA ScriptTypes ==
    ASSUME TypeOK, NEW lag \in Int, Script(lag)
    PROVE  /\ BucketOK'
           /\ watched' = watched
           /\ granted' \in Nat
  <1>1. Refilled(lag) \in 0..Capacity
    BY RefilledRange DEF TypeOK
  <1>2. tokens' \in 0..Capacity
    BY <1>1, LimiterConfig, CapacityNat DEF Script, Allowed
  <1>. QED  BY <1>2, LimiterConfig DEF Script, TypeOK, BucketOK, BucketTtl

LEMMA LagInt ==
    ASSUME TypeOK, NEW r \in Request
    PROVE  Lag(r) \in Int
  BY LimiterClocks DEF TypeOK, LocalsOK, Lag

LEMMA NextTypes == TypeOK /\ [Next]_vars => TypeOK'
  <1> SUFFICES ASSUME TypeOK, [Next]_vars PROVE TypeOK'
    OBVIOUS
  <1>1. ASSUME NEW r \in Request, Arrive(r) PROVE TypeOK'
    BY <1>1 DEF Arrive, TypeOK, BucketOK, LocalsOK, bucket, scripts, observer, faults
  <1>2. ASSUME NEW r \in Request, LoadScript(r) PROVE TypeOK'
    BY <1>2 DEF LoadScript, TypeOK, BucketOK, LocalsOK, bucket, observer, faults
  <1>3. ASSUME NEW r \in Request, Evaluate(r) PROVE TypeOK'
    BY <1>3, ScriptTypes, LagInt DEF Evaluate, Leave, TypeOK, LocalsOK, scripts, faults
  <1>4. ASSUME NEW r \in Request, NoScript(r) PROVE TypeOK'
    BY <1>4 DEF NoScript, Leave, TypeOK, BucketOK, LocalsOK, bucket, scripts, observer, faults
  <1>5. ASSUME NEW r \in Request, RedisError(r) PROVE TypeOK'
    <2>1. /\ BucketOK' /\ watched' \in 0..MaxWatch /\ granted' \in Nat
          /\ loaded' \in BOOLEAN /\ cached' \in [Worker -> BOOLEAN]
      BY <1>5, ScriptTypes, LagInt
         DEF RedisError, TypeOK, BucketOK, bucket, scripts, observer
    <2>2. LocalsOK'
      BY <1>5 DEF RedisError, Leave, TypeOK, LocalsOK
    <2>. QED  BY <1>5, <2>1, <2>2, LimiterBounds DEF RedisError, TypeOK
  <1>6. CASE Tick
    <2>1. BucketOK'
      BY <1>6, LimiterConfig, CapacityNat DEF Tick, TypeOK, BucketOK, BucketTtl
    <2>2. watched' \in 0..MaxWatch /\ granted' \in Nat
      BY <1>6, LimiterBounds DEF Tick, TypeOK
    <2>3. LocalsOK'
      BY <1>6 DEF Tick, TypeOK, LocalsOK
    <2>. QED  BY <1>6, <2>1, <2>2, <2>3 DEF Tick, TypeOK, scripts, faults
  <1>7. CASE Restart
    <2>1. BucketOK'
      BY <1>7, LimiterConfig, CapacityNat DEF Restart, TypeOK, BucketOK, BucketTtl, bucket
    <2>2. LocalsOK'
      BY <1>7 DEF Restart, TypeOK, LocalsOK, locals
    <2>3. loaded' \in BOOLEAN /\ cached' \in [Worker -> BOOLEAN]
      BY <1>7 DEF Restart, TypeOK
    <2>4. /\ watched' \in 0..MaxWatch /\ granted' \in Nat
          /\ errors' \in 0..MaxErrors /\ restarts' \in 0..MaxRestarts
      BY <1>7, LimiterBounds DEF Restart, TypeOK
    <2>. QED  BY <2>1, <2>2, <2>3, <2>4 DEF TypeOK
  <1>8. CASE Observe
    BY <1>8, LimiterBounds
       DEF Observe, TypeOK, BucketOK, LocalsOK, bucket, scripts, locals, faults
  <1>9. CASE UNCHANGED vars
    BY <1>9 DEF vars, TypeOK, BucketOK, LocalsOK, bucket, scripts, locals, observer, faults
  <1>. QED
    BY <1>1, <1>2, <1>3, <1>4, <1>5, <1>6, <1>7, <1>8, <1>9 DEF Next, Proceed

\* The bucket, the caches and the requests keep their types, and the bucket
\* never holds more than its capacity.
THEOREM LimiterTypeCorrect == Spec => []TypeOK
  <1>1. Init => TypeOK
    <2>1. Init => BucketOK
      BY LimiterConfig, CapacityNat DEF Init, BucketOK, BucketTtl
    <2>2. Init => LocalsOK
      BY DEF Init, LocalsOK
    <2>3. Init => loaded \in BOOLEAN /\ cached \in [Worker -> BOOLEAN]
      BY DEF Init
    <2>4. Init => /\ watched \in 0..MaxWatch /\ granted \in Nat
                  /\ errors \in 0..MaxErrors /\ restarts \in 0..MaxRestarts
      BY LimiterBounds DEF Init
    <2>. QED  BY <2>1, <2>2, <2>3, <2>4 DEF TypeOK
  <1>. QED  BY <1>1, NextTypes, PTL DEF Spec
-----------------------------------------------------------------------------
(***************************************************************************)
(* The bound on admissions, with clocks in step and commands that reach    *)
(* Redis within the tick of their stamp.  The potential is what the script *)
(* would find in the bucket now, Refilled(0): a tick raises it by at most  *)
(* Limit, a grant lowers it by Window, and the key expires only when it is *)
(* the whole capacity anyway.                                              *)
(***************************************************************************)
BoundInv ==
    /\ \A r \in Request : delay[r] = 0
    /\ ttl > 0 => age >= 0 /\ ttl + age = BucketTtl
    /\ granted * Window + Refilled(0) <= Capacity + watched * Limit

InStepClocks == MaxDelay = 0 /\ \A w \in Worker : Skew[w] = 0

LEMMA NoLag ==
    ASSUME InStepClocks, TypeOK, BoundInv, NEW r \in Request
    PROVE  Lag(r) = 0
  BY DEF InStepClocks, TypeOK, LocalsOK, BoundInv, Lag

\* The potential is that of an unchanged bucket when the bucket is unchanged.
LEMMA SamePotential ==
    ASSUME UNCHANGED bucket
    PROVE  Refilled(0)' = Refilled(0)
  BY DEF bucket, Refilled

\* The script takes Window from the potential when it lets a request through
\* and leaves it as it is otherwise.
LEMMA ScriptPotential ==
    ASSUME TypeOK, Script(0)
    PROVE  /\ Refilled(0) \in 0..Capacity /\ Refilled(0)' \in 0..Capacity
           /\ Refilled(0)' = IF Allowed(0) THEN Refilled(0) - Window ELSE Refilled(0)
  <1>1. Refilled(0) \in 0..Capacity
    BY RefilledRange DEF TypeOK
  <1>2. tokens' = IF Allowed(0) THEN Refilled(0) - Window ELSE Refilled(0)
    BY DEF Script
  <1>3. tokens' \in 0..Capacity
    BY <1>1, <1>2, LimiterConfig, CapacityNat DEF Allowed
  <1>4. Refilled(0)' = tokens'
    <2>1. 0 * Limit = 0 /\ ttl' # 0 /\ ~(age' > 0)
      BY LimiterConfig DEF Script, BucketTtl
    <2>2. Refilled(0)' = Lower(Capacity, tokens' + 0 * Limit)
      BY <2>1 DEF Refilled
    <2>. QED  BY <2>1, <2>2, <1>3, CapacityNat DEF Lower
  <1>. QED  BY <1>1, <1>2, <1>3, <1>4

\* Running the script keeps the bound: what it grants leaves the potential.
LEMMA ScriptBound ==
    ASSUME TypeOK, BoundInv, Script(0)
    PROVE  /\ ttl' > 0 /\ age' >= 0 /\ ttl' + age' = BucketTtl
           /\ granted' * Window + Refilled(0)' <= Capacity + watched' * Limit
  <1>1. ttl' = Window + 2 /\ age' = 0 /\ watched' = watched
    BY DEF Script, BucketTtl
  <1>2. granted * Window \in Int /\ (granted + 1) * Window = granted * Window + Window
    BY NextProduct, LimiterConfig DEF TypeOK
  <1>3. watched * Limit \in Int
    BY LimiterConfig, LimiterBounds DEF TypeOK
  <1>4. granted' * Window + Refilled(0)' <= granted * Window + Refilled(0)
    BY <1>2, ScriptPotential, LimiterConfig DEF Script
  <1>5. granted' * Window + Refilled(0)' <= Capacity + watched * Limit
    <2>1. granted' * Window \in Int
      BY <1>2, LimiterConfig DEF Script
    <2>. QED  BY <1>2, <1>3, <1>4, <2>1, ScriptPotential, CapacityNat DEF BoundInv
  <1>. QED  BY <1>1, <1>5, LimiterConfig DEF BucketTtl

\* A tick adds Limit to the potential, up to the capacity; the key expires
\* only when the whole capacity would be refilled anyway.
LEMMA TickPotential ==
    ASSUME TypeOK, BoundInv, Tick
    PROVE  /\ Refilled(0)' \in 0..Capacity
           /\ Refilled(0)' <= Refilled(0) + Limit
           /\ Refilled(0)' = Lower(Capacity, Refilled(0) + Limit)
  <1>1. Refilled(0) \in 0..Capacity
    BY RefilledRange DEF TypeOK
  <1>2. CASE ttl = 0
    BY <1>2, LimiterConfig, CapacityNat DEF Tick, Refilled, Lower
  <1>3. CASE ttl = 1
    <2>1. age = Window + 1
      BY <1>3, LimiterConfig DEF BoundInv, BucketTtl, TypeOK, BucketOK
    <2>2. age * Limit = Capacity + Limit
      BY <2>1, NextProduct, LimiterConfig DEF Capacity
    <2>3. tokens + age * Limit >= Capacity
      BY <2>2, CapacityNat, LimiterConfig DEF TypeOK, BucketOK
    <2>4. Refilled(0) = Capacity
      BY <1>3, <2>1, <2>2, <2>3, CapacityNat, LimiterConfig
         DEF Refilled, Lower, TypeOK, BucketOK
    <2>5. Refilled(0)' = Capacity
      BY <1>3 DEF Tick, Refilled
    <2>. QED  BY <2>4, <2>5, CapacityNat, LimiterConfig DEF Lower
  <1>4. CASE ttl > 1
    <2>1. /\ age \in Nat /\ age' = age + 1 /\ ttl' > 0
          /\ tokens' = tokens /\ tokens \in 0..Capacity
      BY <1>4 DEF Tick, TypeOK, BucketOK, BoundInv
    <2>2. age * Limit \in Nat /\ (age + 1) * Limit = age * Limit + Limit
      BY <2>1, NextProduct, LimiterConfig
    <2>3. Refilled(0) = Lower(Capacity, tokens + age * Limit)
      BY <1>4, <2>1, <2>2, CapacityNat, LimiterConfig DEF Refilled, Lower
    <2>4. Refilled(0)' = Lower(Capacity, tokens + (age * Limit + Limit))
      BY <2>1, <2>2, CapacityNat, LimiterConfig DEF Refilled, Lower
    <2>. QED  BY <2>1, <2>2, <2>3, <2>4, CapacityNat, LimiterConfig DEF Lower
  <1>. QED  BY <1>2, <1>3, <1>4 DEF TypeOK, BucketOK

LEMMA TickBound ==
    ASSUME InStepClocks, TypeOK, BoundInv, Tick
    PROVE  BoundInv'
  <1>1. \A r \in Request : delay'[r] = 0
    BY DEF Tick, InStepClocks, TypeOK, LocalsOK, BoundInv
  <1>2. ttl' > 0 => age' >= 0 /\ ttl' + age' = BucketTtl
    BY DEF Tick, TypeOK, BucketOK, BoundInv, BucketTtl
  <1>3. granted' * Window + Refilled(0)' <= Capacity + watched' * Limit
    <2>1. Refilled(0) \in 0..Capacity
      BY RefilledRange DEF TypeOK
    <2>2. granted * Window \in Int
      BY LimiterConfig DEF TypeOK
    <2>3. watched * Limit \in Int /\ (watched + 1) * Limit = watched * Limit + Limit
      BY NextProduct, LimiterConfig, LimiterBounds DEF TypeOK
    <2>4. CASE watched < MaxWatch
      <3>1. watched' = watched + 1 /\ granted' = granted
        BY <2>4 DEF Tick
      <3>. QED
        BY <2>1, <2>2, <2>3, <3>1, TickPotential, CapacityNat, LimiterConfig DEF BoundInv
    <2>5. CASE ~(watched < MaxWatch)
      <3>1. watched' = 0 /\ granted' = 0
        BY <2>5 DEF Tick
      <3>. QED  BY <3>1, ZeroProducts, TickPotential, CapacityNat
    <2>. QED  BY <2>4, <2>5
  <1>. QED  BY <1>1, <1>2, <1>3 DEF BoundInv

\* A bucket that does not exist yet is full.
LEMMA InitBound == Init => BoundInv
  BY ZeroProducts, CapacityNat DEF Init, BoundInv, Refilled

\* Every step keeps the bound.
LEMMA NextBound ==
    ASSUME InStepClocks, TypeOK, BoundInv, [Next]_vars
    PROVE  BoundInv'
  <1>1. ASSUME NEW r \in Request, Arrive(r) \/ LoadScript(r) PROVE BoundInv'
    BY <1>1, SamePotential DEF Arrive, LoadScript, BoundInv, bucket, observer
  <1>2. ASSUME NEW r \in Request, Evaluate(r) PROVE BoundInv'
    <2>1. Script(0)
      BY <1>2, NoLag DEF Evaluate
    <2>2. \A s \in Request : delay'[s] = 0
      BY <1>2 DEF Evaluate, Leave, BoundInv, TypeOK, LocalsOK
    <2>. QED  BY <2>1, <2>2, ScriptBound DEF BoundInv
  <1>3. ASSUME NEW r \in Request, NoScript(r) PROVE BoundInv'
    BY <1>3, SamePotential
       DEF NoScript, Leave, BoundInv, TypeOK, LocalsOK, bucket, observer
  <1>4. ASSUME NEW r \in Request, RedisError(r) PROVE BoundInv'
    <2>1. \A s \in Request : delay'[s] = 0
      BY <1>4 DEF RedisError, Leave, BoundInv, TypeOK, LocalsOK
    <2>2. CASE UNCHANGED <<bucket, observer>>
      BY <2>1, <2>2, SamePotential DEF BoundInv, bucket, observer
    <2>3. CASE Script(Lag(r))
      BY <2>1, <2>3, NoLag, ScriptBound DEF BoundInv
    <2>. QED  BY <1>4, <2>2, <2>3 DEF RedisError
  <1>5. CASE Tick
    BY <1>5, TickBound
  <1>6. CASE Restart
    <2>1. Refilled(0) \in 0..Capacity
      BY RefilledRange DEF TypeOK
    <2>2. granted' = 0 /\ watched' = 0 /\ delay' = delay
      BY <1>6 DEF Restart, locals
    <2>3. CASE UNCHANGED bucket
      BY ZeroProducts, <2>1, <2>2, <2>3, SamePotential, CapacityNat DEF BoundInv, bucket
    <2>4. CASE ttl' = 0
      BY ZeroProducts, <2>2, <2>4, CapacityNat DEF BoundInv, Refilled
    <2>. QED  BY <1>6, <2>3, <2>4 DEF Restart
  <1>7. CASE Observe
    <2>1. Refilled(0) \in 0..Capacity
      BY RefilledRange DEF TypeOK
    <2>. QED
      BY <1>7, ZeroProducts, <2>1, SamePotential, CapacityNat DEF Observe, BoundInv, bucket, locals
  <1>8. CASE UNCHANGED vars
    BY <1>8, SamePotential DEF vars, BoundInv, bucket, locals, observer
  <1>. QED
    BY <1>1, <1>2, <1>3, <1>4, <1>5, <1>6, <1>7, <1>8 DEF Next, Proceed

\* In no interval does the script let through more than the capacity plus
\* what the rate adds in that time, whatever fails and restarts.
THEOREM AdmissionsBounded ==
    ASSUME InStepClocks
    PROVE  Spec => []AdmissionBound
  <1>1. BoundInv /\ TypeOK => AdmissionBound
    <2> SUFFICES ASSUME BoundInv, TypeOK PROVE AdmissionBound
      OBVIOUS
    <2>1. Refilled(0) \in 0..Capacity
      BY RefilledRange DEF TypeOK
    <2>2. granted * Window \in Int /\ watched * Limit \in Int
      BY LimiterConfig, LimiterBounds DEF TypeOK
    <2>. QED  BY <2>1, <2>2, CapacityNat DEF BoundInv, AdmissionBound
  <1>. QED  BY <1>1, InitBound, NextBound, LimiterTypeCorrect, PTL DEF Spec
-----------------------------------------------------------------------------
(***************************************************************************)
(* The limiter implements the ideal bucket whose level is the potential.   *)
(* A tick is an Elapse, a script that lets a request through an Admit,     *)
(* whether its answer arrives or not, and every other step of a request is *)
(* a stutter: a refused request writes three fields and changes no level.  *)
(***************************************************************************)
LEMMA ScriptRefines ==
    ASSUME TypeOK, Script(0), UNCHANGED restarts
    PROVE  [Ideal!Next]_(Ideal!vars)
  <1>1. CASE Allowed(0)
    <2>1. Ideal!Admit
      BY <1>1, ScriptPotential DEF Ideal!Admit, Script, Allowed
    <2>. QED  BY <2>1 DEF Ideal!Next
  <1>2. CASE ~Allowed(0)
    BY <1>2, ScriptPotential DEF Ideal!vars, Ideal!observer, Script
  <1>. QED  BY <1>1, <1>2

LEMMA NextRefines ==
    ASSUME InStepClocks, TypeOK, BoundInv, [Next]_vars
    PROVE  [Ideal!Next]_(Ideal!vars)
  <1>1. ASSUME UNCHANGED <<bucket, observer, restarts>> PROVE [Ideal!Next]_(Ideal!vars)
    BY <1>1, SamePotential DEF Ideal!vars, Ideal!observer, bucket, observer
  <1>2. ASSUME NEW r \in Request, Arrive(r) \/ LoadScript(r) \/ NoScript(r)
        PROVE  [Ideal!Next]_(Ideal!vars)
    BY <1>1, <1>2 DEF Arrive, LoadScript, NoScript, faults
  <1>3. ASSUME NEW r \in Request, Evaluate(r) \/ RedisError(r)
        PROVE  [Ideal!Next]_(Ideal!vars)
    <2>1. UNCHANGED restarts /\ (UNCHANGED <<bucket, observer>> \/ Script(0))
      BY <1>3, NoLag DEF Evaluate, RedisError, faults
    <2>. QED  BY <1>1, <2>1, ScriptRefines
  <1>4. CASE Tick
    <2>1. Ideal!Elapse
      BY <1>4, TickPotential DEF Tick, faults, Ideal!Elapse, Ideal!Lower, Lower, Ideal!Capacity, Capacity
    <2>. QED  BY <2>1 DEF Ideal!Next
  <1>5. CASE Restart
    <2>1. UNCHANGED bucket \/ ttl' = 0
      BY <1>5 DEF Restart
    <2>2. Refilled(0)' = Refilled(0) \/ Refilled(0)' = Capacity
      BY <2>1, SamePotential DEF Refilled
    <2>3. Ideal!Restart
      BY <1>5, <2>2 DEF Restart, Ideal!Restart, Ideal!Capacity, Capacity
    <2>. QED  BY <2>3 DEF Ideal!Next
  <1>6. CASE Observe
    <2>1. Ideal!Observe
      BY <1>6, SamePotential DEF Observe, Ideal!Observe, bucket, faults
    <2>. QED  BY <2>1 DEF Ideal!Next
  <1>7. CASE UNCHANGED vars
    BY <1>1, <1>7 DEF vars, faults
  <1>. QED  BY <1>2, <1>3, <1>4, <1>5, <1>6, <1>7 DEF Next, Proceed

\* When the workers' clocks agree and stamps are not delayed, the bucket in
\* Redis behaves like the ideal one: it admits exactly when there is a token,
\* every admission costs one, and refused, failed and repeated requests cost
\* nothing, whatever raced, failed, expired and restarted.
THEOREM BucketImplemented ==
    ASSUME InStepClocks
    PROVE  Spec => ImplementsBucket
  <1>1. Init => Ideal!Init
    BY DEF Init, Ideal!Init, Refilled, Ideal!Capacity, Capacity
  <1>. QED
    BY <1>1, InitBound, NextBound, NextRefines, LimiterTypeCorrect, PTL
       DEF Spec, ImplementsBucket, Ideal!Spec
=============================================================================
