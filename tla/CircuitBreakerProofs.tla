------------------------ MODULE CircuitBreakerProofs ------------------------
(***************************************************************************)
(* Theorems about CircuitBreaker, for every set of requests and every      *)
(* configuration its ASSUMEs allow.                                        *)
(***************************************************************************)
EXTENDS CircuitBreaker, FiniteSetTheorems, TLAPS

-----------------------------------------------------------------------------
(***************************************************************************)
(* Type correctness.                                                       *)
(***************************************************************************)
\* Redis keeps its keys in their types whatever command it executes.
LEMMA ExecuteTypes ==
    ASSUME KeysOK, NEW c, Execute(c)
    PROVE  KeysOK'
  BY BreakerConfig DEF KeysOK, Execute, redis, NoTtl, SetOpen, SetLock,
     DeleteLock, DeleteFails, IncrFails, ExpireFails

\* Leave answers a request, Continue sends it to another command: both keep
\* the locals in their types.
LEMMA LeaveTypes ==
    ASSUME LocalsOK, NEW r \in Request, Leave(r)
    PROVE  LocalsOK'
  BY DEF LocalsOK, Leave, Goto

LEMMA ContinueTypes ==
    ASSUME LocalsOK, NEW r \in Request,
           NEW l \in {"idle", "call"} \union Command, Continue(r, l)
    PROVE  LocalsOK'
  BY DEF LocalsOK, Continue, Goto

\* A request that goes on keeps every type.
LEMMA ProceedTypes ==
    ASSUME TypeOK, NEW r \in Request, Proceed(r)
    PROVE  TypeOK'
  <1> USE DEF TypeOK, Command, Guarded
  <1>1. CASE GetFails(r)
    BY <1>1, ExecuteTypes, ContinueTypes DEF GetFails, faults
  <1>2. CASE TakeProbe(r)
    <2>1. LocalsOK'
      BY <1>2 DEF TakeProbe, LocalsOK, Goto
    <2>. QED  BY <1>2, <2>1, ExecuteTypes DEF TakeProbe, faults
  <1>3. CASE RefuseProbe(r)
    BY <1>3, ExecuteTypes, LeaveTypes DEF RefuseProbe, faults
  <1>4. CASE Succeed(r)
    <2>1. LocalsOK'
      BY <1>4, ContinueTypes, LeaveTypes DEF Succeed
    <2>. QED  BY <1>4, <2>1 DEF Succeed, redis, faults, KeysOK
  <1>5. CASE Fail(r)
    <2>1. LocalsOK'
      BY <1>5 DEF Fail, FailureCommand, LocalsOK, Goto
    <2>. QED  BY <1>5, <2>1 DEF Fail, redis, faults, KeysOK
  <1>6. CASE ResetFails(r)
    BY <1>6, ExecuteTypes, ContinueTypes DEF ResetFails, faults
  <1>7. CASE Reopen(r)
    BY <1>7, ExecuteTypes, ContinueTypes DEF Reopen, faults
  <1>8. CASE ReleaseProbe(r)
    BY <1>8, ExecuteTypes, LeaveTypes DEF ReleaseProbe, faults
  <1>9. CASE CountFailure(r)
    BY <1>9, ExecuteTypes, ContinueTypes, LeaveTypes DEF CountFailure, faults
  <1>10. CASE StartWindow(r)
    BY <1>10, ExecuteTypes, ContinueTypes, LeaveTypes DEF StartWindow, faults
  <1>11. CASE Trip(r)
    BY <1>11, ExecuteTypes, LeaveTypes DEF Trip, faults
  <1>. QED
    BY <1>1, <1>2, <1>3, <1>4, <1>5, <1>6, <1>7, <1>8, <1>9, <1>10, <1>11 DEF Proceed

\* A failed Redis command, executed or not, keeps every type.
LEMMA RedisErrorTypes ==
    ASSUME TypeOK, NEW r \in Request, RedisError(r)
    PROVE  TypeOK'
  <1>1. KeysOK'
    BY ExecuteTypes DEF TypeOK, RedisError, redis, KeysOK
  <1>2. LocalsOK'
    <2>1. CASE pc[r] \in Guarded /\ ~caught[r]
      BY <2>1 DEF RedisError, FailureCommand, TypeOK, LocalsOK, Goto, Command, Guarded
    <2>2. CASE ~(pc[r] \in Guarded /\ ~caught[r])
      BY <2>2, LeaveTypes DEF RedisError, TypeOK
    <2>. QED  BY <2>1, <2>2
  <1>. QED  BY <1>1, <1>2, BreakerBounds DEF RedisError, TypeOK

LEMMA NextTypes ==
    TypeOK /\ [Next]_vars => TypeOK'
  <1> SUFFICES ASSUME TypeOK, [Next]_vars PROVE TypeOK'
    OBVIOUS
  <1>1. ASSUME NEW r \in Request, Admit(r) PROVE TypeOK'
    <2>1. LocalsOK'
      BY <1>1, ContinueTypes DEF Admit, TypeOK, Command
    <2>. QED  BY <1>1, <2>1 DEF Admit, TypeOK, KeysOK, redis, faults
  <1>2. ASSUME NEW r \in Request, Proceed(r) PROVE TypeOK'
    BY <1>2, ProceedTypes
  <1>3. ASSUME NEW r \in Request, Crash(r) PROVE TypeOK'
    <2>1. LocalsOK'
      BY <1>3, LeaveTypes DEF Crash, TypeOK
    <2>. QED  BY <1>3, <2>1, BreakerBounds DEF Crash, TypeOK, KeysOK, redis
  <1>4. ASSUME NEW r \in Request, RedisError(r) PROVE TypeOK'
    BY <1>4, RedisErrorTypes
  <1>5. CASE Tick
    BY <1>5, BreakerConfig
       DEF Tick, TypeOK, KeysOK, LocalsOK, Expiring, NoTtl, faults
  <1>6. CASE UpstreamChanges
    BY <1>6 DEF UpstreamChanges, TypeOK, KeysOK, LocalsOK, redis, locals, faults
  <1>7. CASE UNCHANGED vars
    BY <1>7 DEF vars, TypeOK, KeysOK, LocalsOK, redis, locals, faults
  <1>. QED  BY <1>1, <1>2, <1>3, <1>4, <1>5, <1>6, <1>7 DEF Next

\* The keys and the locals of every request keep their types, and a counter
\* is never without an entry for its time to live, nor the reverse.
THEOREM TypeCorrect == Spec => []TypeOK
  <1>1. Init => TypeOK
    BY BreakerConfig, BreakerBounds DEF Init, TypeOK, KeysOK, LocalsOK
  <1>. QED  BY <1>1, NextTypes, PTL DEF Spec

-----------------------------------------------------------------------------
(***************************************************************************)
(* The probes at work at once.  A probe that has run for age ticks finds   *)
(* LockTtl - age ticks on its lock, so the lock is Held as long as a probe *)
(* of its own is at work and nobody else deletes it.  One probe may hold   *)
(* the lock; every other one was parted from its lock by a failed command. *)
(***************************************************************************)
Probing == {r \in Request : probing[r]}

Held == \E r \in Request : probing[r] /\ halfOpen > 0 /\ halfOpen + age[r] = LockTtl

ProbeBound == Cardinality(Probing) <= errors + (IF Held THEN 1 ELSE 0)

ProbeLocals ==
    \A r \in Request :
      /\ pc[r] \in {"del_fails", "del_lock", "reopen"} => probing[r]
      /\ pc[r] \in {"idle", "get", "set_nx", "incr", "expire", "trip"} => ~probing[r]
      /\ age[r] <= MaxProbe
      /\ ~probing[r] => age[r] = 0

\* The probes are finitely many; one more or one less counts for one.
LEMMA ProbingCount ==
    ASSUME NEW r \in Request
    PROVE  /\ Cardinality(Probing) \in Nat
           /\ Cardinality(Probing \union {r}) \in Nat
           /\ Cardinality(Probing \union {r}) <= Cardinality(Probing) + 1
           /\ Cardinality(Probing \ {r}) \in Nat
           /\ r \in Probing => Cardinality(Probing \ {r}) = Cardinality(Probing) - 1
           /\ r \notin Probing => Cardinality(Probing \ {r}) = Cardinality(Probing)
  <1>1. IsFiniteSet(Probing)
    BY RequestFinite, FS_Subset DEF Probing
  <1>2. /\ IsFiniteSet(Probing \union {r}) /\ IsFiniteSet(Probing \ {r})
        /\ Cardinality(Probing \union {r})
             = IF r \in Probing THEN Cardinality(Probing) ELSE Cardinality(Probing) + 1
        /\ Cardinality(Probing \ {r})
             = IF r \in Probing THEN Cardinality(Probing) - 1 ELSE Cardinality(Probing)
    BY <1>1, FS_AddElement, FS_RemoveElement
  <1>3. /\ Cardinality(Probing) \in Nat
        /\ Cardinality(Probing \union {r}) \in Nat
        /\ Cardinality(Probing \ {r}) \in Nat
    BY <1>1, <1>2, FS_CardinalityType
  <1>. QED  BY <1>2, <1>3

\* Every step keeps a request's place in the code and its part in probing
\* together.
LEMMA ProbeLocalsKept ==
    TypeOK /\ ProbeLocals /\ [Next]_vars => ProbeLocals'
  <1> SUFFICES ASSUME TypeOK, ProbeLocals, [Next]_vars PROVE ProbeLocals'
    OBVIOUS
  <1> USE BreakerConfig, BreakerBounds
      DEF ProbeLocals, TypeOK, LocalsOK, Goto, Leave, Continue, FailureCommand
  <1>1. ASSUME NEW r \in Request, Admit(r) \/ Crash(r) PROVE ProbeLocals'
    BY <1>1 DEF Admit, Crash
  <1>2. ASSUME NEW r \in Request, Proceed(r) PROVE ProbeLocals'
    <2>1. CASE GetFails(r) \/ TakeProbe(r) \/ RefuseProbe(r)
      BY <2>1 DEF GetFails, TakeProbe, RefuseProbe
    <2>2. CASE Succeed(r) \/ Fail(r)
      BY <2>2 DEF Succeed, Fail
    <2>3. CASE ResetFails(r) \/ Reopen(r) \/ ReleaseProbe(r)
      BY <2>3 DEF ResetFails, Reopen, ReleaseProbe
    <2>4. CASE CountFailure(r) \/ StartWindow(r) \/ Trip(r)
      BY <2>4 DEF CountFailure, StartWindow, Trip
    <2>. QED  BY <1>2, <2>1, <2>2, <2>3, <2>4 DEF Proceed
  <1>3. ASSUME NEW r \in Request, RedisError(r) PROVE ProbeLocals'
    BY <1>3 DEF RedisError
  <1>4. CASE Tick
    BY <1>4 DEF Tick
  <1>5. CASE UpstreamChanges \/ UNCHANGED vars
    BY <1>5 DEF UpstreamChanges, vars, locals
  <1>. QED  BY <1>1, <1>2, <1>3, <1>4, <1>5 DEF Next

\* A step that touches neither the probes nor the lock keeps the bound.
LEMMA ProbesUntouched ==
    ASSUME ProbeBound, probing' = probing, age' = age, halfOpen' = halfOpen, errors' = errors
    PROVE  ProbeBound'
  BY DEF ProbeBound, Probing, Held

\* So does a request that leaves: a probe makes room for the next one, even
\* when it takes the lock with it, and any other request leaves the lock.
LEMMA LeavingKeepsBound ==
    ASSUME TypeOK, ProbeBound, NEW r \in Request, Leave(r), errors' = errors,
           probing[r] \/ halfOpen' = halfOpen
    PROVE  ProbeBound'
  <1>1. Probing' = Probing \ {r}
    BY DEF Probing, Leave, TypeOK, LocalsOK
  <1>2. errors \in Nat
    BY BreakerBounds DEF TypeOK
  <1>3. Cardinality(Probing) \in Nat
    BY ProbingCount
  <1>4. CASE probing[r]
    <2>1. Cardinality(Probing') = Cardinality(Probing) - 1
      BY <1>1, <1>4, ProbingCount DEF Probing
    <2>. QED  BY <1>2, <1>3, <2>1 DEF ProbeBound
  <1>5. CASE ~probing[r]
    <2>1. Cardinality(Probing') = Cardinality(Probing)
      BY <1>1, <1>5, ProbingCount DEF Probing
    <2>2. Held => Held'
      BY <1>5 DEF Held, Leave, TypeOK, LocalsOK
    <2>. QED  BY <1>2, <1>3, <2>1, <2>2 DEF ProbeBound
  <1>. QED  BY <1>4, <1>5

\* The lock is free when a request takes it, so no probe holds it and the
\* request is the one that may.
LEMMA TakingKeepsBound ==
    ASSUME TypeOK, ProbeLocals, ProbeBound, NEW r \in Request, TakeProbe(r)
    PROVE  ProbeBound'
  <1>1. Probing' = Probing \union {r}
    BY DEF TakeProbe, Probing, TypeOK, LocalsOK
  <1>2. ~Held
    BY DEF TakeProbe, Held
  <1>3. Held'
    <2>1. probing'[r] /\ age'[r] = 0 /\ halfOpen' = LockTtl
      BY DEF TakeProbe, Execute, SetLock, ProbeLocals, TypeOK, LocalsOK
    <2>. QED  BY <2>1, BreakerConfig DEF Held
  <1>4. errors' = errors /\ errors \in Nat
    BY BreakerBounds DEF TakeProbe, faults, TypeOK
  <1>5. /\ Cardinality(Probing) \in Nat /\ Cardinality(Probing') \in Nat
        /\ Cardinality(Probing') <= Cardinality(Probing) + 1
    BY <1>1, ProbingCount
  <1>. QED  BY <1>2, <1>3, <1>4, <1>5 DEF ProbeBound

\* A request that goes on keeps the bound.
LEMMA ProceedProbes ==
    ASSUME TypeOK, ProbeLocals, ProbeBound, NEW r \in Request, Proceed(r)
    PROVE  ProbeBound'
  <1> USE ProbesUntouched, LeavingKeepsBound DEF Execute, redis, faults, Continue, Goto
  <1>1. CASE GetFails(r)
    BY <1>1 DEF GetFails
  <1>2. CASE TakeProbe(r)
    BY <1>2, TakingKeepsBound
  <1>3. CASE RefuseProbe(r)
    BY <1>3 DEF RefuseProbe, SetLock
  <1>4. CASE Succeed(r) \/ Fail(r)
    BY <1>4 DEF Succeed, Fail
  <1>5. CASE ResetFails(r) \/ Reopen(r)
    BY <1>5 DEF ResetFails, DeleteFails, Reopen, SetOpen
  <1>6. CASE ReleaseProbe(r)
    <2>1. probing[r]
      BY <1>6 DEF ReleaseProbe, ProbeLocals
    <2>. QED  BY <1>6, <2>1 DEF ReleaseProbe
  <1>7. CASE CountFailure(r)
    BY <1>7 DEF CountFailure, IncrFails
  <1>8. CASE StartWindow(r)
    BY <1>8 DEF StartWindow, ExpireFails
  <1>9. CASE Trip(r)
    BY <1>9 DEF Trip, SetOpen
  <1>. QED
    BY <1>1, <1>2, <1>3, <1>4, <1>5, <1>6, <1>7, <1>8, <1>9 DEF Proceed

\* A failed command may part one probe from its lock; the error pays for it.
LEMMA RedisErrorProbes ==
    ASSUME TypeOK, ProbeBound, NEW r \in Request, RedisError(r)
    PROVE  ProbeBound'
  <1>1. Probing' = Probing \/ Probing' = Probing \ {r}
    BY DEF RedisError, Leave, Probing, TypeOK, LocalsOK
  <1>2. errors' = errors + 1 /\ errors \in Nat
    BY BreakerBounds DEF RedisError, TypeOK
  <1>3. Cardinality(Probing) \in Nat /\ Cardinality(Probing \ {r}) \in Nat
        /\ Cardinality(Probing \ {r}) <= Cardinality(Probing)
    <2>. DEFINE n == Cardinality(Probing)
                m == Cardinality(Probing \ {r})
    <2>1. n \in Nat /\ m \in Nat /\ (m = n - 1 \/ m = n)
      BY ProbingCount
    <2>. HIDE DEF n, m
    <2>2. m <= n
      BY <2>1
    <2>. QED  BY <2>1, <2>2 DEF n, m
  <1>4. Cardinality(Probing') \in Nat /\ Cardinality(Probing') <= Cardinality(Probing)
    BY <1>1, <1>3
  <1>. QED  BY <1>2, <1>3, <1>4 DEF ProbeBound

\* Time takes the lock from no probe that is over before it expires.
LEMMA TickProbes ==
    ASSUME MaxProbe < LockTtl, TypeOK, ProbeLocals, ProbeBound, Tick
    PROVE  ProbeBound'
  <1>1. Probing' = Probing /\ errors' = errors
    BY DEF Tick, Probing, faults
  <1>2. Held => Held'
    <2> SUFFICES ASSUME NEW r \in Request, probing[r], halfOpen > 0,
                        halfOpen + age[r] = LockTtl
                 PROVE  Held'
      BY DEF Held
    <2>1. age[r] < MaxProbe /\ age[r] \in Nat /\ halfOpen \in Nat
      BY DEF Tick, TypeOK, LocalsOK, KeysOK
    <2>2. probing'[r] /\ age'[r] = age[r] + 1 /\ halfOpen' = halfOpen - 1
      BY DEF Tick, Expiring
    <2>3. halfOpen' > 0 /\ halfOpen' + age'[r] = LockTtl
      BY <2>1, <2>2, BreakerConfig, BreakerBounds
    <2>. QED  BY <2>2, <2>3 DEF Held
  <1>3. errors \in Nat
    BY BreakerBounds DEF TypeOK
  <1>4. Cardinality(Probing') = Cardinality(Probing) /\ Cardinality(Probing) \in Nat
    BY <1>1, RequestFinite, FS_Subset, FS_CardinalityType DEF Probing
  <1>. QED  BY <1>1, <1>2, <1>3, <1>4 DEF ProbeBound

\* If a probe is always over before its lock expires, one request probes at
\* a time, and each failed Redis command adds at most one more, however many
\* workers crash.
THEOREM ProbesExclude ==
    ASSUME MaxProbe < LockTtl
    PROVE  Spec => []ProbeMutex
  <1> DEFINE Inv == ProbeLocals /\ ProbeBound
  <1>1. Init => Inv
    <2> SUFFICES ASSUME Init PROVE Inv
      OBVIOUS
    <2>1. Probing = {}
      BY DEF Init, Probing
    <2>2. ProbeBound
      BY <2>1, FS_EmptySet DEF Init, ProbeBound
    <2>. QED  BY <2>2, BreakerBounds DEF Init, ProbeLocals
  <1>2. Inv /\ TypeOK /\ [Next]_vars => Inv'
    <2> SUFFICES ASSUME Inv, TypeOK, [Next]_vars PROVE ProbeBound'
      BY ProbeLocalsKept
    <2>1. ASSUME NEW r \in Request, Admit(r) PROVE ProbeBound'
      BY <2>1, ProbesUntouched DEF Admit, Continue, redis, faults
    <2>2. ASSUME NEW r \in Request, Proceed(r) PROVE ProbeBound'
      BY <2>2, ProceedProbes
    <2>3. ASSUME NEW r \in Request, Crash(r) PROVE ProbeBound'
      BY <2>3, LeavingKeepsBound DEF Crash, redis
    <2>4. ASSUME NEW r \in Request, RedisError(r) PROVE ProbeBound'
      BY <2>4, RedisErrorProbes
    <2>5. CASE Tick
      BY <2>5, TickProbes
    <2>6. CASE UpstreamChanges \/ UNCHANGED vars
      BY <2>6, ProbesUntouched DEF UpstreamChanges, vars, redis, locals, faults
    <2>. QED  BY <2>1, <2>2, <2>3, <2>4, <2>5, <2>6 DEF Next
  <1>3. Inv /\ TypeOK => ProbeMutex
    <2> SUFFICES ASSUME Inv, TypeOK PROVE ProbeMutex
      OBVIOUS
    <2>1. Cardinality(Probing) \in Nat /\ errors \in Nat
      BY RequestFinite, FS_Subset, FS_CardinalityType, BreakerBounds DEF Probing, TypeOK
    <2>2. Cardinality(Probing) <= 1 + errors
      BY <2>1 DEF ProbeBound
    <2>. QED  BY <2>2 DEF ProbeMutex, Probing
  <1>. QED  BY <1>1, <1>2, <1>3, TypeCorrect, PTL DEF Spec

-----------------------------------------------------------------------------
(***************************************************************************)
(* The failure counter and its window.  The invariant is inductive as it   *)
(* stands: the request whose INCR created the counter is at its EXPIRE.    *)
(***************************************************************************)
\* Until a request is lost or a command fails, a counter without a time to
\* live belongs to a request that is about to set one.
THEOREM CountersExpire == Spec => []CounterExpires
  <1>1. Init => CounterExpires
    BY DEF Init, CounterExpires, NoTtl
  <1>2. CounterExpires /\ TypeOK /\ [Next]_vars => CounterExpires'
    <2> SUFFICES ASSUME CounterExpires, TypeOK, [Next]_vars PROVE CounterExpires'
      OBVIOUS
    <2> USE BreakerConfig DEF CounterExpires, TypeOK, KeysOK, LocalsOK, NoTtl, faults
    <2>1. ASSUME NEW r \in Request, Admit(r) PROVE CounterExpires'
      BY <2>1 DEF Admit, Continue, Goto, redis
    <2>2. ASSUME NEW r \in Request, Proceed(r) PROVE CounterExpires'
      <3> USE DEF Execute, Goto, Leave, Continue, redis
      <3>1. CASE GetFails(r)
        BY <3>1 DEF GetFails
      <3>2. CASE TakeProbe(r) \/ RefuseProbe(r)
        BY <3>2 DEF TakeProbe, RefuseProbe, SetLock
      <3>3. CASE Succeed(r) \/ Fail(r)
        BY <3>3 DEF Succeed, Fail
      <3>4. CASE ResetFails(r)
        BY <3>4 DEF ResetFails, DeleteFails
      <3>5. CASE Reopen(r)
        BY <3>5 DEF Reopen, SetOpen
      <3>6. CASE ReleaseProbe(r)
        BY <3>6 DEF ReleaseProbe, DeleteLock
      <3>7. CASE CountFailure(r)
        BY <3>7 DEF CountFailure, IncrFails
      <3>8. CASE StartWindow(r)
        BY <3>8 DEF StartWindow, ExpireFails
      <3>9. CASE Trip(r)
        BY <3>9 DEF Trip, SetOpen
      <3>. QED  BY <2>2, <3>1, <3>2, <3>3, <3>4, <3>5, <3>6, <3>7, <3>8, <3>9 DEF Proceed
    <2>3. ASSUME NEW r \in Request, Crash(r) \/ RedisError(r) PROVE CounterExpires'
      BY <2>3, BreakerBounds DEF Crash, RedisError
    <2>4. CASE Tick
      BY <2>4 DEF Tick, Expiring
    <2>5. CASE UpstreamChanges \/ UNCHANGED vars
      BY <2>5 DEF UpstreamChanges, vars, redis, locals
    <2>. QED  BY <2>1, <2>2, <2>3, <2>4, <2>5 DEF Next
  <1>. QED  BY <1>1, <1>2, TypeCorrect, PTL DEF Spec

-----------------------------------------------------------------------------
(***************************************************************************)
(* The overshoot of the failure counter.  Every request that passed GET    *)
(* below the threshold may still add one to the counter, so it is the sum  *)
(* of the counter and those requests that stays bounded.                   *)
(***************************************************************************)
Admitted == {r \in Request : pc[r] \in {"call", "incr"} /\ ~probing[r]}

CountInv ==
    /\ fails + Cardinality(Admitted) < Threshold + Cardinality(Request) + errors
    /\ \A r \in Request : pc[r] \in {"idle", "get", "set_nx", "incr"} => ~probing[r]

\* The admitted requests are finitely many, at most all of them.
LEMMA AdmittedCount ==
    /\ Cardinality(Request) \in Nat
    /\ Cardinality(Admitted) \in Nat
    /\ Cardinality(Admitted) <= Cardinality(Request)
  BY RequestFinite, FS_CardinalityType, FS_Subset DEF Admitted

\* A request that joins them adds at most one to their number.
LEMMA AdmittedJoin ==
    ASSUME NEW r \in Request
    PROVE  /\ Cardinality(Admitted \union {r}) \in Nat
           /\ Cardinality(Admitted \union {r}) <= Cardinality(Request)
           /\ Cardinality(Admitted \union {r}) <= Cardinality(Admitted) + 1
           /\ r \in Admitted => Cardinality(Admitted \union {r}) = Cardinality(Admitted)
  <1>1. Admitted \in SUBSET Request /\ Admitted \union {r} \in SUBSET Request
    BY DEF Admitted
  <1>2. IsFiniteSet(Admitted)
    BY <1>1, RequestFinite, FS_Subset
  <1>. QED
    BY <1>1, <1>2, RequestFinite, AdmittedCount, FS_CardinalityType, FS_Subset, FS_AddElement

\* One that leaves them takes one from it.
LEMMA AdmittedLeave ==
    ASSUME NEW r \in Request
    PROVE  /\ Cardinality(Admitted \ {r}) \in Nat
           /\ Cardinality(Admitted \ {r}) <= Cardinality(Admitted)
           /\ r \in Admitted => Cardinality(Admitted \ {r}) = Cardinality(Admitted) - 1
  <1>1. IsFiniteSet(Admitted)
    BY RequestFinite, FS_Subset DEF Admitted
  <1>2. /\ IsFiniteSet(Admitted \ {r})
        /\ Cardinality(Admitted \ {r})
             = IF r \in Admitted THEN Cardinality(Admitted) - 1 ELSE Cardinality(Admitted)
    BY <1>1, FS_RemoveElement
  <1>3. Cardinality(Admitted \ {r}) \in Nat
    BY <1>2, FS_CardinalityType
  <1>. QED  BY <1>2, <1>3, AdmittedCount

\* A request that goes on preserves the bound.
LEMMA ProceedCount ==
    ASSUME TypeOK, CountInv, NEW r \in Request, Proceed(r)
    PROVE  CountInv'
  <1> USE AdmittedCount, AdmittedJoin, AdmittedLeave, BreakerConfig
      DEF CountInv, TypeOK, KeysOK, LocalsOK, Execute, redis, faults,
          Goto, Leave, Continue
  <1>1. CASE GetFails(r)
    <2>1. Admitted' = IF fails >= Threshold THEN Admitted
                      ELSE IF probing[r] THEN Admitted ELSE Admitted \union {r}
      BY <1>1 DEF GetFails, Admitted
    <2>. QED  BY <1>1, <2>1 DEF GetFails
  <1>2. CASE TakeProbe(r)
    <2>1. Admitted' = Admitted
      BY <1>2 DEF TakeProbe, Admitted
    <2>. QED  BY <1>2, <2>1 DEF TakeProbe, SetLock
  <1>3. CASE RefuseProbe(r)
    <2>1. Admitted' = Admitted
      BY <1>3 DEF RefuseProbe, Admitted
    <2>. QED  BY <1>3, <2>1 DEF RefuseProbe, SetLock
  <1>4. CASE Succeed(r)
    <2>1. Admitted' = IF probing[r] THEN Admitted ELSE Admitted \ {r}
      BY <1>4 DEF Succeed, Admitted
    <2>. QED  BY <1>4, <2>1 DEF Succeed
  <1>5. CASE Fail(r)
    <2>1. Admitted' = Admitted
      BY <1>5 DEF Fail, FailureCommand, Admitted
    <2>. QED  BY <1>5, <2>1 DEF Fail, FailureCommand
  <1>6. CASE ResetFails(r)
    <2>1. Admitted' = Admitted
      BY <1>6 DEF ResetFails, Admitted
    <2>. QED  BY <1>6, <2>1 DEF ResetFails, DeleteFails
  <1>7. CASE Reopen(r)
    <2>1. Admitted' = Admitted
      BY <1>7 DEF Reopen, Admitted
    <2>. QED  BY <1>7, <2>1 DEF Reopen, SetOpen
  <1>8. CASE ReleaseProbe(r)
    <2>1. Admitted' = Admitted
      BY <1>8 DEF ReleaseProbe, Admitted
    <2>. QED  BY <1>8, <2>1 DEF ReleaseProbe, DeleteLock
  <1>9. CASE CountFailure(r)
    <2>1. r \in Admitted /\ Admitted' = Admitted \ {r}
      BY <1>9 DEF CountFailure, Admitted
    <2>. QED  BY <1>9, <2>1 DEF CountFailure, IncrFails
  <1>10. CASE StartWindow(r)
    <2>1. Admitted' = Admitted
      BY <1>10 DEF StartWindow, Admitted
    <2>. QED  BY <1>10, <2>1 DEF StartWindow, ExpireFails
  <1>11. CASE Trip(r)
    <2>1. Admitted' = Admitted
      BY <1>11 DEF Trip, Admitted
    <2>. QED  BY <1>11, <2>1 DEF Trip, SetOpen
  <1>. QED
    BY <1>1, <1>2, <1>3, <1>4, <1>5, <1>6, <1>7, <1>8, <1>9, <1>10, <1>11 DEF Proceed

\* A failed command adds at most one to the sum: it was executed and counted,
\* or it sends the request back to count again, and an INCR from the except
\* clause is the request's last.
LEMMA RedisErrorCount ==
    ASSUME TypeOK, CountInv, NEW r \in Request, RedisError(r)
    PROVE  CountInv'
  <1> USE DEF CountInv, TypeOK, KeysOK, LocalsOK
  <1>1. errors' = errors + 1 /\ errors \in Nat
    BY BreakerBounds DEF RedisError
  <1>2. /\ fails' \in Nat
        /\ fails' <= fails + 1
        /\ pc[r] # "incr" => fails' <= fails
    BY DEF RedisError, Execute, redis, SetOpen, SetLock, DeleteLock, DeleteFails,
       IncrFails, ExpireFails
  <1>3. pc[r] = "incr" => r \in Admitted
    BY DEF Admitted
  <1>4. \/ Admitted' = Admitted
        \/ Admitted' = Admitted \union {r}
        \/ Admitted' = Admitted \ {r}
    BY DEF RedisError, Leave, FailureCommand, Goto, Admitted, Guarded, Command
  <1>5. /\ Cardinality(Admitted') \in Nat
        /\ Cardinality(Admitted') <= Cardinality(Admitted) + 1
        /\ pc[r] = "incr" => Cardinality(Admitted') <= Cardinality(Admitted)
    BY <1>3, <1>4, AdmittedCount, AdmittedJoin, AdmittedLeave
  <1>6. fails' + Cardinality(Admitted') <= fails + Cardinality(Admitted) + 1
    BY <1>2, <1>5, AdmittedCount
  <1>7. \A s \in Request : pc'[s] \in {"idle", "get", "set_nx", "incr"} => ~probing'[s]
    BY DEF RedisError, Leave, FailureCommand, Goto
  <1>. QED
    BY <1>1, <1>2, <1>5, <1>6, <1>7, AdmittedCount, BreakerConfig

\* Whatever races, crashes and fails, the counter exceeds the threshold by
\* less than the number of requests in flight, plus one per Redis error.
THEOREM CountsBounded == Spec => []CountBounded
  <1>1. Init => CountInv
    <2> SUFFICES ASSUME Init PROVE CountInv
      OBVIOUS
    <2>1. Admitted = {}
      BY DEF Init, Admitted
    <2>. QED  BY <2>1, AdmittedCount, FS_EmptySet, BreakerConfig DEF Init, CountInv
  <1>2. CountInv /\ TypeOK /\ [Next]_vars => CountInv'
    <2> SUFFICES ASSUME CountInv, TypeOK, [Next]_vars PROVE CountInv'
      OBVIOUS
    <2> USE DEF CountInv, TypeOK, KeysOK, LocalsOK
    <2>1. ASSUME NEW r \in Request, Admit(r) PROVE CountInv'
      <3>1. Admitted' = Admitted \ {r}
        BY <2>1 DEF Admit, Continue, Goto, Admitted
      <3>. QED
        BY <2>1, <3>1, AdmittedCount, AdmittedLeave, BreakerConfig DEF Admit, Continue, Goto, redis, faults
    <2>2. ASSUME NEW r \in Request, Proceed(r) PROVE CountInv'
      BY <2>2, ProceedCount
    <2>3. ASSUME NEW r \in Request, Crash(r) PROVE CountInv'
      <3>1. Admitted' = Admitted \ {r}
        BY <2>3 DEF Crash, Leave, Goto, Admitted
      <3>2. fails' = fails /\ errors' = errors /\ errors \in Nat
        BY <2>3, BreakerBounds DEF Crash, redis
      <3>3. \A s \in Request : pc'[s] \in {"idle", "get", "set_nx", "incr"} => ~probing'[s]
        BY <2>3 DEF Crash, Leave, Goto
      <3>. QED  BY <3>1, <3>2, <3>3, AdmittedCount, AdmittedLeave, BreakerConfig
    <2>4. ASSUME NEW r \in Request, RedisError(r) PROVE CountInv'
      BY <2>4, RedisErrorCount
    <2>5. CASE Tick
      <3>1. Admitted' = Admitted
        BY <2>5 DEF Tick, Admitted
      <3>. QED  BY <2>5, <3>1, AdmittedCount, BreakerConfig DEF Tick, faults
    <2>6. CASE UpstreamChanges \/ UNCHANGED vars
      <3>1. Admitted' = Admitted
        BY <2>6 DEF UpstreamChanges, vars, locals, Admitted
      <3>. QED  BY <2>6, <3>1 DEF UpstreamChanges, vars, redis, locals, faults
    <2>. QED  BY <2>1, <2>2, <2>3, <2>4, <2>5, <2>6 DEF Next
  <1>3. CountInv /\ TypeOK => CountBounded
    BY AdmittedCount, BreakerConfig DEF CountInv, CountBounded, TypeOK, KeysOK
  <1>. QED  BY <1>1, <1>2, <1>3, TypeCorrect, PTL DEF Spec
=============================================================================
