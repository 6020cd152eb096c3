-------------------------- MODULE AdminKeysProofs --------------------------
(***************************************************************************)
(* Theorems about AdminKeys, for any number of workers and keys and any    *)
(* crashes.                                                                *)
(***************************************************************************)
EXTENDS AdminKeys, SequenceTheorems, WellFoundedInduction, TLAPS

\* No key is active before it was issued, in the file or in any list.
ActiveIssued ==
    /\ Bootstrap \subseteq issued
    /\ \A k \in Key : file[k].active => k \in issued
    /\ \A w \in Worker, k \in Key : mem[w][k].active => k \in issued

\* Before the first file there was nothing to revoke.
NothingRevoked == disk = "missing" => revoked = {}

IInv == TypeOK /\ ActiveIssued /\ NothingRevoked /\ Revoked
-----------------------------------------------------------------------------
\* The settings' keys are a list of keys.
LEMMA BootstrappedTable == Bootstrapped \in Table
  BY DEF Bootstrapped, Table, KeyRecord, Role

\* A set of numbers has a least one.
LEMMA LeastNumber ==
    ASSUME NEW S \in SUBSET Nat, S # {}
    PROVE  Min(S) \in S /\ \A y \in S : Min(S) <= y
  <1> DEFINE R == {ss \in Nat \X Nat : ss[1] < ss[2]}
  <1>1. IsWellFoundedOn(R, Nat)
    BY NatLessThanWellFounded DEF OpToRel
  <1> HIDE DEF R
  <1>2. PICK x \in S : \A y \in S : ~(<<y, x>> \in R)
    BY <1>1, WFMin
  <1>3. ASSUME NEW y \in S PROVE x <= y
    <2>1. y < x => <<y, x>> \in R
      BY DEF R
    <2>. QED
      BY <1>2, <2>1
  <1>. QED
    BY <1>3 DEF Min

\* The first index in a set, or the one after the last when there is none.
LEMMA FirstIndex ==
    ASSUME NEW n \in Nat, NEW live \in SUBSET (1..n), NEW first,
           first = IF live = {} THEN n + 1 ELSE Min(live)
    PROVE  first \in 1..(n + 1) /\ \A i \in 1..(first - 1) : i \notin live
  <1>1. CASE live = {}
    BY <1>1
  <1>2. CASE live # {}
    <2>1. first \in live /\ \A y \in live : first <= y
      <3>1. live \in SUBSET Nat
        OBVIOUS
      <3>. QED
        BY <1>2, <3>1, LeastNumber
    <2>2. first \in 1..n
      BY <2>1
    <2>. QED
      BY <2>1, <2>2
  <1>. QED
    BY <1>1, <1>2

\* Recent drops a prefix, of slots that are out of the window.
LEMMA RecentTimes ==
    ASSUME NEW times \in Seq(Nat), now \in Nat
    PROVE  \E d \in 0..Len(times) :
              /\ Recent(times) \in Seq(Nat)
              /\ Len(Recent(times)) = Len(times) - d
              /\ \A i \in 1..(Len(times) - d) : Recent(times)[i] = times[d + i]
              /\ \A i \in 1..d : now - times[i] >= Window
  <1> DEFINE live == {i \in 1..Len(times) : now - times[i] < Window}
             first == IF live = {} THEN Len(times) + 1 ELSE Min(live)
  <1>1. Recent(times) = SubSeq(times, first, Len(times))
    BY DEF Recent
  <1>2. live \in SUBSET Nat /\ live \subseteq 1..Len(times)
    OBVIOUS
  <1>3. \A i \in (1..Len(times)) \ live : now - times[i] >= Window
    BY ConstantsOK
  <1> HIDE DEF live
  <1>4. first \in 1..(Len(times) + 1) /\ \A i \in 1..(first - 1) : i \notin live
    <2>1. first = IF live = {} THEN Len(times) + 1 ELSE Min(live)
      OBVIOUS
    <2>2. Len(times) \in Nat /\ live \in SUBSET (1..Len(times))
      BY <1>2
    <2> HIDE DEF first
    <2>. QED
      BY <2>1, <2>2, FirstIndex
  <1> HIDE DEF first
  <1>5. /\ SubSeq(times, first, Len(times)) \in Seq(Nat)
        /\ Len(SubSeq(times, first, Len(times))) = Len(times) - first + 1
        /\ \A i \in 1..(Len(times) - first + 1) :
              SubSeq(times, first, Len(times))[i] = times[first + i - 1]
    BY <1>4
  <1>6. first - 1 \in 0..Len(times) /\ \A i \in 1..(first - 1) : now - times[i] >= Window
    BY <1>3, <1>4
  <1>7. /\ Len(Recent(times)) = Len(times) - (first - 1)
        /\ \A i \in 1..(Len(times) - (first - 1)) : Recent(times)[i] = times[(first - 1) + i]
    BY <1>1, <1>4, <1>5
  <1>. QED
    BY <1>1, <1>5, <1>6, <1>7

\* A grant, and a refusal, keep the windows in their types.
LEMMA GrantTypes ==
    ASSUME TypeOK, NEW w \in Worker, NEW k \in Key, Grant(w, k)
    PROVE  /\ w \in running /\ ~job[w].busy
           /\ slots' \in [Worker -> [Key -> Seq(Nat)]]
           /\ grants' \in [Worker -> [Key -> Seq(Nat)]]
  <1>1. Append(Recent(slots[w][k]), now) \in Seq(Nat) /\ Append(grants[w][k], now) \in Seq(Nat)
    BY RecentTimes DEF TypeOK
  <1>. QED
    BY <1>1 DEF TypeOK, Grant, MayWrite

\* A worker that persists a list of issued keys, in which no key is active
\* that was inactive in its own, keeps the store right: its write revives
\* nothing unless it is behind.
LEMMA PersistKeeps ==
    ASSUME IInv, NEW w \in running, NEW table \in Table, NEW dropped \in SUBSET issued,
           Persist(w, table, dropped), UNCHANGED running,
           issued \subseteq issued', issued' \subseteq Key,
           \A k \in dropped : ~table[k].active,
           \A k \in Key : table[k].active => k \in issued',
           \A k \in issued : table[k].active => mem[w][k].active
    PROVE  /\ disk' \in {"missing", "torn", "whole"} /\ file' \in Table
           /\ mem' \in [Worker -> Table] /\ behind' \subseteq running' /\ revoked' \subseteq issued'
           /\ ActiveIssued' /\ NothingRevoked' /\ Revoked'
  <1>. w \in Worker
    BY DEF IInv, TypeOK
  <1>1. /\ disk' = "whole" /\ file' = table /\ behind' = running \ {w}
        /\ mem' \in [Worker -> Table] /\ mem'[w] = table
        /\ \A v \in Worker \ {w} : mem'[v] = mem[v]
    BY DEF Persist, IInv, TypeOK
  <1>2. revoked' \subseteq issued /\ \A k \in revoked' : ~table[k].active
    <2>1. CASE w \in behind
      BY <2>1 DEF Persist
    <2>2. CASE w \notin behind
      BY <2>2 DEF Persist, IInv, TypeOK, Revoked
    <2>. QED
      BY <2>1, <2>2
  <1>3. ActiveIssued'
    BY <1>1 DEF IInv, ActiveIssued
  <1>4. NothingRevoked' /\ Revoked'
    BY <1>1, <1>2 DEF NothingRevoked, Revoked
  <1>. QED
    BY <1>1, <1>2, <1>3, <1>4
-----------------------------------------------------------------------------
\* Before any worker is started there is nothing but the settings' keys.
LEMMA InitIInv == Init => IInv
  <1>. SUFFICES ASSUME Init PROVE IInv
    OBVIOUS
  <1>1. TypeOK
    BY BootstrappedTable, ConstantsOK DEF Init, TypeOK, Idle, Job, Role
  <1>2. ActiveIssued
    BY DEF Init, ActiveIssued, Bootstrapped
  <1>. QED
    BY <1>1, <1>2 DEF Init, IInv, NothingRevoked, Revoked

\* A rotation issues a key of its own.
LEMMA RotateKeeps ==
    ASSUME IInv, NEW w \in Worker, NEW k \in Key, NEW new \in Key, NEW role \in Role,
           NEW life \in Lifetime, NEW drop \in Key \union {NoKey},
           Rotate(w, k, new, role, life, drop)
    PROVE  IInv'
  <1> DEFINE record == [role |-> role, active |-> TRUE,
                        expires |-> IF life = 0 THEN 0 ELSE now + life]
             table == [mem[w] EXCEPT ![new] = record]
  <1>1. /\ w \in running /\ slots' \in [Worker -> [Key -> Seq(Nat)]]
        /\ grants' \in [Worker -> [Key -> Seq(Nat)]]
    BY GrantTypes DEF Rotate, IInv
  <1>2. record \in KeyRecord
    BY ConstantsOK DEF IInv, TypeOK, KeyRecord
  <1>3. table \in Table
    BY <1>2 DEF IInv, TypeOK, Table
  <1>4. Persist(w, table, {}) /\ new \notin issued /\ issued' = issued \union {new}
        /\ UNCHANGED <<running, now>>
    BY DEF Rotate
  <1>5. \A j \in Key \ {new} : table[j] = mem[w][j]
    BY DEF IInv, TypeOK, Table
  <1>6. \A j \in Key : table[j].active => j \in issued'
    BY <1>4, <1>5 DEF IInv, ActiveIssued
  <1>7. \A j \in issued : table[j].active => mem[w][j].active
    BY <1>4, <1>5 DEF IInv, TypeOK
  <1> HIDE DEF table
  <1>8. /\ disk' \in {"missing", "torn", "whole"} /\ file' \in Table
        /\ mem' \in [Worker -> Table] /\ behind' \subseteq running' /\ revoked' \subseteq issued'
        /\ ActiveIssued' /\ NothingRevoked' /\ Revoked'
    <2>1. issued \subseteq issued' /\ issued' \subseteq Key /\ {} \in SUBSET issued
      BY <1>4 DEF IInv, TypeOK
    <2>. QED
      BY <1>1, <1>3, <1>4, <1>6, <1>7, <2>1, PersistKeeps
  <1>9. job' \in [Worker -> Job] /\ \A v \in Worker : job'[v].busy => v \in running'
    BY <1>1, <1>4 DEF Rotate, IInv, TypeOK, Job
  <1>. QED
    BY <1>1, <1>4, <1>8, <1>9 DEF IInv, TypeOK

\* A deactivation of an active key.
LEMMA DeactivatedKeeps ==
    ASSUME IInv, NEW w \in running, NEW k, Deactivated(w, k), UNCHANGED <<running, issued>>
    PROVE  /\ disk' \in {"missing", "torn", "whole"} /\ file' \in Table
           /\ mem' \in [Worker -> Table] /\ behind' \subseteq running' /\ revoked' \subseteq issued'
           /\ ActiveIssued' /\ NothingRevoked' /\ Revoked'
  <1> DEFINE table == [mem[w] EXCEPT ![k].active = FALSE]
  <1>1. w \in Worker /\ k \in Key /\ mem[w][k].active /\ Persist(w, table, {k}) /\ mem[w] \in Table
    BY DEF Deactivated, IInv, TypeOK
  <1>2. table \in Table /\ ~table[k].active /\ \A j \in Key \ {k} : table[j] = mem[w][j]
    BY <1>1 DEF Table, KeyRecord
  <1>3. {k} \in SUBSET issued /\ issued \subseteq Key
    BY <1>1 DEF IInv, TypeOK, ActiveIssued
  <1>4. \A j \in Key : table[j].active => mem[w][j].active
    BY <1>1, <1>2
  <1> HIDE DEF table
  <1>. QED
    BY <1>1, <1>2, <1>3, <1>4, PersistKeeps DEF IInv, ActiveIssued

\* Each request of an administrator.
LEMMA RequestKeeps ==
    ASSUME IInv, NEW w \in Worker, NEW k \in Key, Request(w, k) PROVE IInv'
  <1>1. ASSUME NEW drop \in Key, Deactivate(w, k, drop) PROVE IInv'
    <2>1. /\ w \in running /\ slots' \in [Worker -> [Key -> Seq(Nat)]]
          /\ grants' \in [Worker -> [Key -> Seq(Nat)]]
      BY <1>1, GrantTypes DEF Deactivate, IInv
    <2>. QED
      BY <1>1, <2>1, DeactivatedKeeps DEF Deactivate, IInv, TypeOK
  <1>2. CASE OtherWrite(w, k)
    <2>1. /\ slots' \in [Worker -> [Key -> Seq(Nat)]]
          /\ grants' \in [Worker -> [Key -> Seq(Nat)]]
      BY <1>2, GrantTypes DEF OtherWrite, IInv
    <2>. QED
      BY <1>2, <2>1 DEF OtherWrite, IInv, TypeOK, ActiveIssued, NothingRevoked, Revoked
  <1>3. CASE Limited(w, k)
    <2>1. slots' \in [Worker -> [Key -> Seq(Nat)]]
      BY <1>3, RecentTimes DEF Limited, IInv, TypeOK
    <2>. QED
      BY <1>3, <2>1 DEF Limited, IInv, TypeOK, ActiveIssued, NothingRevoked, Revoked
  <1>. QED
    BY <1>1, <1>2, <1>3, RotateKeeps DEF Request

\* The second half of a rotation.
LEMMA FinishKeeps ==
    ASSUME IInv, NEW w \in Worker, FinishRotation(w) PROVE IInv'
  <1>1. job' \in [Worker -> Job] /\ \A v \in Worker : job'[v].busy => v \in running
    BY DEF FinishRotation, IInv, TypeOK, Job, Idle, Role
  <1>2. CASE Deactivated(w, job[w].drop)
    <2>1. w \in running
      BY DEF FinishRotation, IInv, TypeOK
    <2>. QED
      BY <1>1, <1>2, <2>1, DeactivatedKeeps DEF FinishRotation, IInv, TypeOK
  <1>3. CASE UNCHANGED <<disk, file, mem, behind, revoked>>
    BY <1>1, <1>3 DEF FinishRotation, IInv, TypeOK, ActiveIssued, NothingRevoked, Revoked
  <1>. QED
    BY <1>2, <1>3 DEF FinishRotation

\* A worker that starts takes over the file.
LEMMA StartKeeps ==
    ASSUME IInv, NEW w \in Worker, Start(w) PROVE IInv'
  <1>1. file' \in Table /\ mem' \in [Worker -> Table] /\ mem'[w] = file'
        /\ \A v \in Worker \ {w} : mem'[v] = mem[v]
    BY BootstrappedTable DEF Start, IInv, TypeOK
  <1>2. /\ slots' \in [Worker -> [Key -> Seq(Nat)]]
        /\ grants' \in [Worker -> [Key -> Seq(Nat)]]
    BY DEF Start, IInv, TypeOK
  <1>3. \A k \in Key : file'[k].active => k \in issued
    BY DEF Start, IInv, ActiveIssued, Bootstrapped
  <1>4. TypeOK'
    BY <1>1, <1>2 DEF Start, IInv, TypeOK
  <1>5. ActiveIssued'
    BY <1>1, <1>3 DEF Start, IInv, ActiveIssued
  <1>6. \A k \in revoked : ~file'[k].active
    BY DEF Start, IInv, TypeOK, NothingRevoked, Revoked
  <1>7. NothingRevoked' /\ Revoked'
    BY <1>1, <1>6 DEF Start, IInv, TypeOK, NothingRevoked, Revoked
  <1>. QED
    BY <1>4, <1>5, <1>7 DEF IInv

\* A worker that crashes takes its list with it.
LEMMA CrashKeeps ==
    ASSUME IInv, NEW w \in Worker, Crash(w) \/ CrashWriting(w) PROVE IInv'
  <1>0. Idle \in Job /\ ~Idle.busy
    BY DEF Idle, Job, Role
  <1>1. job' \in [Worker -> Job] /\ \A v \in Worker : job'[v].busy => v \in running'
    BY <1>0 DEF Crash, CrashWriting, IInv, TypeOK
  <1>2. TypeOK'
    BY <1>1 DEF Crash, CrashWriting, IInv, TypeOK
  <1>. QED
    BY <1>2 DEF Crash, CrashWriting, IInv, TypeOK, ActiveIssued, NothingRevoked, Revoked

\* IInv is inductive.
LEMMA NextIInv == IInv /\ [Next]_vars => IInv'
  <1>. SUFFICES ASSUME IInv, [Next]_vars PROVE IInv'
    OBVIOUS
  <1>1. CASE Tick
    BY <1>1 DEF Tick, IInv, TypeOK, ActiveIssued, NothingRevoked, Revoked
  <1>2. CASE UNCHANGED vars
    BY <1>2 DEF vars, IInv, TypeOK, ActiveIssued, NothingRevoked, Revoked
  <1>. QED
    BY <1>1, <1>2, RequestKeeps, FinishKeeps, StartKeeps, CrashKeeps DEF Next
-----------------------------------------------------------------------------
\* Keys, jobs and windows keep their types.
THEOREM KeysTypeCorrect == Spec => []TypeOK
  <1>1. IInv => TypeOK
    BY DEF IInv
  <1>. QED
    BY <1>1, InitIInv, NextIInv, PTL DEF Spec

\* A key reported as deactivated stays out of the file, and out of every worker
\* that has not missed a write, through all crashes and restarts, until a
\* worker that has missed one writes (security.py:176-188).
THEOREM RevokedStaysOut == Spec => []Revoked
  <1>1. IInv => Revoked
    BY DEF IInv
  <1>. QED
    BY <1>1, InitIInv, NextIInv, PTL DEF Spec
-----------------------------------------------------------------------------
\* Where there is a single worker, no worker is ever behind.
OneWorker == \A v, w \in Worker : v = w

NoneBehind == behind = {}

\* A write of the only worker goes past nobody, and revives nothing.
LEMMA PersistFinal ==
    ASSUME OneWorker, TypeOK, NoneBehind, NEW w \in running, NEW table, NEW dropped,
           Persist(w, table, dropped)
    PROVE  NoneBehind' /\ revoked \subseteq revoked'
  BY DEF OneWorker, TypeOK, NoneBehind, Persist

LEMMA NextFinal ==
    OneWorker /\ IInv /\ NoneBehind /\ [Next]_vars => NoneBehind' /\ revoked \subseteq revoked'
  <1>. SUFFICES ASSUME OneWorker, IInv, NoneBehind, [Next]_vars
                PROVE  NoneBehind' /\ revoked \subseteq revoked'
    OBVIOUS
  <1>. TypeOK
    BY DEF IInv
  <1>1. ASSUME NEW w \in running, NEW k, Deactivated(w, k)
        PROVE  NoneBehind' /\ revoked \subseteq revoked'
    BY <1>1, PersistFinal DEF Deactivated
  <1>2. ASSUME NEW w \in Worker, NEW k \in Key, Request(w, k)
        PROVE  NoneBehind' /\ revoked \subseteq revoked'
    <2>1. ASSUME NEW new, NEW role, NEW life, NEW drop, Rotate(w, k, new, role, life, drop)
          PROVE  NoneBehind' /\ revoked \subseteq revoked'
      BY <2>1, PersistFinal DEF Rotate, Grant, MayWrite
    <2>2. ASSUME NEW drop, Deactivate(w, k, drop)
          PROVE  NoneBehind' /\ revoked \subseteq revoked'
      BY <1>1, <2>2 DEF Deactivate, Grant, MayWrite
    <2>. QED
      BY <1>2, <2>1, <2>2 DEF Request, OtherWrite, Limited, NoneBehind
  <1>3. ASSUME NEW w \in Worker, FinishRotation(w)
        PROVE  NoneBehind' /\ revoked \subseteq revoked'
    BY <1>1, <1>3 DEF FinishRotation, TypeOK, NoneBehind
  <1>4. ASSUME NEW w \in Worker, Start(w) \/ Crash(w) \/ CrashWriting(w)
        PROVE  NoneBehind' /\ revoked \subseteq revoked'
    BY <1>4 DEF Start, Crash, CrashWriting, NoneBehind
  <1>. QED
    BY <1>2, <1>3, <1>4 DEF Next, Tick, vars, NoneBehind

\* With a single worker, which is what Kubernetes runs, a deactivation is final: a
\* key stays revoked through every later write, crash and start, and with
\* RevokedStaysOut it is then active in no list and no file
\* (deactivate_key, security.py:176-188).
THEOREM DeactivationIsFinal ==
    ASSUME OneWorker
    PROVE  Spec => [][revoked \subseteq revoked']_vars
  <1>1. Init => NoneBehind
    BY DEF Init, NoneBehind
  <1>2. OneWorker
    OBVIOUS
  <1>. QED
    BY <1>1, <1>2, InitIInv, NextIInv, NextFinal, PTL DEF Spec
-----------------------------------------------------------------------------
(***************************************************************************)
(* The rolling window.  The slots of a key are the youngest of its grants, *)
(* and the grants that have lost their slot are out of the window.         *)
(***************************************************************************)
Covers(kept, all) ==
    /\ Len(kept) <= Len(all)
    /\ \A i \in 1..Len(kept) : kept[i] = all[Len(all) - Len(kept) + i]
    /\ \A i \in 1..(Len(all) - Len(kept)) : now - all[i] >= Window

Spread(all) == \A i \in 1..(Len(all) - Limit) : all[i + Limit] - all[i] >= Window

Windows == \A w \in Worker, k \in Key :
              Covers(slots[w][k], grants[w][k]) /\ Spread(grants[w][k])

WInv == IInv /\ Windows

\* Dropping old slots leaves the slots the youngest of the grants.
LEMMA RecentCovers ==
    ASSUME now \in Nat, NEW kept \in Seq(Nat), NEW all \in Seq(Nat), Covers(kept, all)
    PROVE  Recent(kept) \in Seq(Nat) /\ Covers(Recent(kept), all)
  <1>1. PICK d \in 0..Len(kept) :
              /\ Recent(kept) \in Seq(Nat)
              /\ Len(Recent(kept)) = Len(kept) - d
              /\ \A i \in 1..(Len(kept) - d) : Recent(kept)[i] = kept[d + i]
              /\ \A i \in 1..d : now - kept[i] >= Window
    BY RecentTimes
  <1> DEFINE n == Len(kept)
             m == Len(all)
  <1>2. n \in Nat /\ m \in Nat /\ n <= m
    BY DEF Covers
  <1>3. ASSUME NEW i \in 1..(n - d)
        PROVE  Recent(kept)[i] = all[m - (n - d) + i]
    <2>1. d + i \in 1..n /\ m - n + (d + i) = m - (n - d) + i
      BY <1>2
    <2>. QED
      BY <1>1, <2>1 DEF Covers
  <1>4. ASSUME NEW i \in 1..(m - (n - d)) PROVE now - all[i] >= Window
    <2>1. CASE i <= m - n
      BY <1>2, <2>1 DEF Covers
    <2>2. CASE i > m - n
      <3>1. i - (m - n) \in 1..d /\ i - (m - n) \in 1..n /\ m - n + (i - (m - n)) = i
        BY <1>1, <1>2, <2>2
      <3>2. kept[i - (m - n)] = all[i]
        BY <3>1 DEF Covers
      <3>. QED
        BY <1>1, <3>1, <3>2
    <2>. QED
      BY <1>2, <2>1, <2>2
  <1>. QED
    BY <1>1, <1>2, <1>3, <1>4 DEF Covers

\* A grant while fewer than Limit slots are taken keeps the grants spread.
LEMMA GrantSpreads ==
    ASSUME now \in Nat, NEW kept \in Seq(Nat), NEW all \in Seq(Nat),
           Covers(kept, all), Spread(all), Len(kept) < Limit
    PROVE  Covers(Append(kept, now), Append(all, now)) /\ Spread(Append(all, now))
  <1> DEFINE n == Len(kept)
             m == Len(all)
             longer == Append(all, now)
  <1>1. n \in Nat /\ m \in Nat /\ n <= m /\ Limit \in Nat \ {0}
    BY ConstantsOK DEF Covers
  <1>2. /\ Len(longer) = m + 1 /\ longer[m + 1] = now
        /\ \A i \in 1..m : longer[i] = all[i]
    OBVIOUS
  <1>3. /\ Len(Append(kept, now)) = n + 1 /\ Append(kept, now)[n + 1] = now
        /\ \A i \in 1..n : Append(kept, now)[i] = kept[i]
    OBVIOUS
  <1> HIDE DEF longer
  <1>4. ASSUME NEW i \in 1..(n + 1) PROVE Append(kept, now)[i] = longer[m - n + i]
    <2>1. CASE i = n + 1
      BY <1>1, <1>2, <1>3, <2>1
    <2>2. CASE i \in 1..n
      <3>1. m - n + i \in 1..m
        BY <1>1, <2>2
      <3>. QED
        BY <1>2, <1>3, <2>2, <3>1 DEF Covers
    <2>. QED
      BY <1>1, <2>1, <2>2
  <1>5. \A i \in 1..(m - n) : now - longer[i] >= Window
    <2>1. \A i \in 1..(m - n) : i \in 1..m
      BY <1>1
    <2>. QED
      BY <1>2, <2>1 DEF Covers
  <1>6. ASSUME NEW i \in 1..(m + 1 - Limit) PROVE longer[i + Limit] - longer[i] >= Window
    <2>1. CASE i = m + 1 - Limit
      <3>1. i \in 1..(m - n) /\ i + Limit = m + 1
        BY <1>1, <2>1
      <3>. QED
        BY <1>2, <1>5, <3>1
    <2>2. CASE i \in 1..(m - Limit)
      <3>1. i \in 1..m /\ i + Limit \in 1..m
        BY <1>1, <2>2
      <3>. QED
        BY <1>2, <2>2, <3>1 DEF Spread
    <2>. QED
      BY <1>1, <2>1, <2>2
  <1>7. Covers(Append(kept, now), longer)
    <2>1. (m + 1) - (n + 1) = m - n /\ n + 1 <= m + 1
      BY <1>1
    <2>. QED
      BY <1>2, <1>3, <1>4, <1>5, <2>1 DEF Covers
  <1>8. Spread(longer)
    <2>1. Len(longer) - Limit = m + 1 - Limit
      BY <1>1, <1>2
    <2> HIDE DEF m
    <2>. QED
      BY <1>6, <2>1 DEF Spread
  <1>. QED
    BY <1>7, <1>8 DEF longer

\* A granted write action.
LEMMA GrantKeepsWindows ==
    ASSUME WInv, NEW w \in Worker, NEW k \in Key, Grant(w, k), now' = now PROVE Windows'
  <1>. now \in Nat /\ slots[w][k] \in Seq(Nat) /\ grants[w][k] \in Seq(Nat)
    BY DEF WInv, IInv, TypeOK
  <1>1. /\ slots'[w][k] = Append(Recent(slots[w][k]), now)
        /\ grants'[w][k] = Append(grants[w][k], now)
        /\ \A v \in Worker, j \in Key : v # w \/ j # k =>
              slots'[v][j] = slots[v][j] /\ grants'[v][j] = grants[v][j]
    BY DEF Grant, WInv, IInv, TypeOK
  <1>2. Covers(Recent(slots[w][k]), grants[w][k]) /\ Recent(slots[w][k]) \in Seq(Nat)
    BY RecentCovers DEF WInv, Windows
  <1>3. Covers(slots'[w][k], grants'[w][k]) /\ Spread(grants'[w][k])
    BY <1>1, <1>2, GrantSpreads DEF WInv, Windows, Grant, Free
  <1>4. ASSUME NEW v \in Worker, NEW j \in Key
        PROVE  Covers(slots'[v][j], grants'[v][j]) /\ Spread(grants'[v][j])
    BY <1>1, <1>3 DEF WInv, Windows
  <1>. QED
    BY <1>4 DEF Windows, Covers, Spread

\* A refused one, and a start, which empties the windows of the worker.
LEMMA OthersKeepWindows ==
    ASSUME WInv, NEW w \in Worker, now' = now,
           \/ UNCHANGED <<slots, grants>>
           \/ \E k \in Key : Limited(w, k)
           \/ Start(w)
    PROVE  Windows'
  <1>1. CASE UNCHANGED <<slots, grants>>
    BY <1>1 DEF WInv, Windows, Covers, Spread
  <1>2. ASSUME NEW k \in Key, Limited(w, k) PROVE Windows'
    <2>. now \in Nat /\ slots[w][k] \in Seq(Nat) /\ grants[w][k] \in Seq(Nat)
      BY DEF WInv, IInv, TypeOK
    <2>1. /\ slots'[w][k] = Recent(slots[w][k]) /\ grants' = grants
          /\ \A v \in Worker, j \in Key : v # w \/ j # k => slots'[v][j] = slots[v][j]
      BY <1>2 DEF Limited, WInv, IInv, TypeOK
    <2>2. Covers(Recent(slots[w][k]), grants[w][k])
      BY RecentCovers DEF WInv, Windows
    <2>3. ASSUME NEW v \in Worker, NEW j \in Key
          PROVE  Covers(slots'[v][j], grants'[v][j]) /\ Spread(grants'[v][j])
      BY <2>1, <2>2 DEF WInv, Windows
    <2>. QED
      BY <2>3 DEF Windows, Covers, Spread
  <1>3. CASE Start(w)
    <2>1. /\ \A j \in Key : slots'[w][j] = <<>> /\ grants'[w][j] = <<>>
          /\ \A v \in Worker \ {w}, j \in Key :
                slots'[v][j] = slots[v][j] /\ grants'[v][j] = grants[v][j]
      BY <1>3 DEF Start, WInv, IInv, TypeOK
    <2>2. Covers(<<>>, <<>>) /\ Spread(<<>>)
      BY ConstantsOK DEF Covers, Spread
    <2>3. ASSUME NEW v \in Worker, NEW j \in Key
          PROVE  Covers(slots'[v][j], grants'[v][j]) /\ Spread(grants'[v][j])
      BY <2>1, <2>2 DEF WInv, Windows
    <2>. QED
      BY <2>3 DEF Windows, Covers, Spread
  <1>. QED
    BY <1>1, <1>2, <1>3

\* Time only takes slots further out of the window.
LEMMA TickKeepsWindows ==
    ASSUME WInv, Tick PROVE Windows'
  <1>1. now' = now + 1 /\ now \in Nat /\ UNCHANGED <<slots, grants>> /\ Window \in Nat
    BY ConstantsOK DEF Tick, WInv, IInv, TypeOK
  <1>2. ASSUME NEW w \in Worker, NEW k \in Key
        PROVE  \A i \in 1..(Len(grants[w][k]) - Len(slots[w][k])) :
                  now' - grants[w][k][i] >= Window
    <2>1. /\ grants[w][k] \in Seq(Nat) /\ slots[w][k] \in Seq(Nat)
          /\ Covers(slots[w][k], grants[w][k])
      BY DEF WInv, IInv, TypeOK, Windows
    <2>2. ASSUME NEW i \in 1..(Len(grants[w][k]) - Len(slots[w][k]))
          PROVE  now' - grants[w][k][i] >= Window
      <3>. Len(slots[w][k]) \in Nat /\ Len(grants[w][k]) \in Nat
        BY <2>1
      <3>1. i \in 1..Len(grants[w][k]) /\ grants[w][k][i] \in Nat
        BY <2>1
      <3>2. now - grants[w][k][i] >= Window
        BY <2>1 DEF Covers
      <3>. QED
        BY <1>1, <3>1, <3>2
    <2>. QED
      BY <2>2
  <1>. QED
    BY <1>1, <1>2 DEF WInv, Windows, Covers, Spread

\* WInv is inductive.
LEMMA InitWInv == Init => WInv
  <1>. SUFFICES ASSUME Init PROVE WInv
    OBVIOUS
  <1>1. Covers(<<>>, <<>>) /\ Spread(<<>>)
    BY ConstantsOK DEF Covers, Spread
  <1>. QED
    BY <1>1, InitIInv DEF Init, WInv, Windows

LEMMA NextWInv == WInv /\ [Next]_vars => WInv'
  <1>. SUFFICES ASSUME WInv, [Next]_vars PROVE WInv'
    OBVIOUS
  <1>1. IInv'
    BY NextIInv DEF WInv
  <1>2. ASSUME NEW w \in Worker, NEW k \in Key, Request(w, k) PROVE Windows'
    <2>1. now' = now /\ (Grant(w, k) \/ Limited(w, k))
      BY <1>2 DEF Request, Rotate, Deactivate, OtherWrite, Limited
    <2>. QED
      BY <2>1, GrantKeepsWindows, OthersKeepWindows
  <1>3. ASSUME NEW w \in Worker,
               FinishRotation(w) \/ Start(w) \/ Crash(w) \/ CrashWriting(w)
        PROVE  Windows'
    <2>1. now' = now /\ (UNCHANGED <<slots, grants>> \/ Start(w))
      BY <1>3 DEF FinishRotation, Start, Crash, CrashWriting
    <2>. QED
      BY <2>1, OthersKeepWindows
  <1>4. CASE UNCHANGED vars
    <2>1. UNCHANGED <<slots, grants, now>>
      BY <1>4 DEF vars
    <2>. QED
      BY <1>1, <2>1 DEF WInv, Windows, Covers, Spread
  <1>. QED
    BY <1>1, <1>2, <1>3, <1>4, TickKeepsWindows DEF Next, WInv

\* No key is granted more than Limit write actions in any window of a life of a
\* worker, for any limit and any window (app.py:52-62).
THEOREM WindowsBounded == Spec => []WindowBound
  <1>1. WInv => WindowBound
    BY DEF WInv, Windows, Spread, WindowBound
  <1>. QED
    BY <1>1, InitWInv, NextWInv, PTL DEF Spec
-----------------------------------------------------------------------------
(***************************************************************************)
(* Rotation.  While a rotation to a write key waits for its second half,   *)
(* its worker has a write key other than the one that will go.             *)
(***************************************************************************)
WriterLeft ==
    \A w \in Worker : job[w].busy /\ job[w].role = "write" =>
        \E k \in Key \ {job[w].drop} : Writes(mem[w][k])

JInv == IInv /\ WriterLeft

\* What RotationKeeps says of one step.
Cause(w) ==
    \/ ~job[w].busy /\ ~job'[w].busy /\ mem'[w] # mem[w]
    \/ job[w].busy /\ ~job'[w].busy /\ job[w].role = "read"

KeepsWriter ==
    Manageable /\ ~Manageable' /\ now' = now /\ disk' = "whole" => \E w \in running : Cause(w)

\* The key that asks for a rotation can write after it as well, and so can the
\* new one if that is its role.
LEMMA RotateLeavesWriter ==
    ASSUME JInv, NEW w \in Worker, NEW k \in Key, NEW new \in Key, NEW role \in Role,
           NEW life \in Lifetime, NEW drop \in Key \union {NoKey},
           Rotate(w, k, new, role, life, drop)
    PROVE  WriterLeft' /\ KeepsWriter
  <1>1. /\ Writes(mem[w][k]) /\ new \notin issued /\ now' = now /\ now \in Nat
        /\ mem \in [Worker -> Table] /\ ~job[w].busy /\ job \in [Worker -> Job]
    BY DEF JInv, IInv, TypeOK, Rotate, Grant, MayWrite
  <1>2. k # new
    BY <1>1 DEF JInv, IInv, ActiveIssued, Writes, Live
  <1> DEFINE record == [role |-> role, active |-> TRUE,
                        expires |-> IF life = 0 THEN 0 ELSE now + life]
  <1>3. /\ mem' = [mem EXCEPT ![w] = [mem[w] EXCEPT ![new] = record]]
        /\ file' = [mem[w] EXCEPT ![new] = record] /\ disk' = "whole"
        /\ job' = [job EXCEPT ![w] = [busy |-> TRUE, role |-> role, drop |-> drop]]
    BY DEF Rotate, Persist
  <1>4. /\ mem'[w][k] = mem[w][k] /\ file'[k] = mem[w][k] /\ mem'[w][new] = record
        /\ \A v \in Worker \ {w} : mem'[v] = mem[v] /\ job'[v] = job[v]
        /\ job'[w].role = role /\ job'[w].drop = drop
    BY <1>1, <1>2, <1>3 DEF Table
  <1>5. Writes(mem[w][k])' /\ Writes(file[k])'
    BY <1>1, <1>4 DEF Writes, Live
  <1>6. Manageable'
    BY <1>3, <1>5 DEF Manageable
  <1>7. role = "write" => Writes(mem[w][new])'
    <2>1. life = 0 \/ now < now + life
      BY <1>1, ConstantsOK
    <2>. QED
      BY <1>1, <1>4, <2>1 DEF Writes, Live
  <1>8. WriterLeft'
    <2>1. ASSUME NEW v \in Worker, job'[v].busy, job'[v].role = "write"
          PROVE  \E j \in Key \ {job'[v].drop} : Writes(mem[v][j])'
      <3>1. CASE v = w
        BY <1>2, <1>4, <1>5, <1>7, <2>1, <3>1
      <3>2. CASE v # w
        BY <1>1, <1>4, <2>1, <3>2 DEF JInv, WriterLeft, Writes, Live
      <3>. QED
        BY <3>1, <3>2
    <2>. QED
      BY <2>1 DEF WriterLeft
  <1>. QED
    BY <1>6, <1>8 DEF KeepsWriter

\* Other requests change no rotation; a deactivation changes the list.
LEMMA RequestLeavesWriter ==
    ASSUME JInv, NEW w \in Worker, NEW k \in Key, Request(w, k)
    PROVE  WriterLeft' /\ KeepsWriter
  <1>1. ASSUME NEW drop \in Key, Deactivate(w, k, drop) PROVE WriterLeft' /\ KeepsWriter
    <2>1. /\ w \in running /\ ~job[w].busy /\ job' = job /\ now' = now
          /\ mem \in [Worker -> Table] /\ mem[w][drop].active
          /\ mem' = [mem EXCEPT ![w] = [mem[w] EXCEPT ![drop].active = FALSE]]
      BY <1>1 DEF JInv, IInv, TypeOK, Deactivate, Deactivated, Persist, Grant, MayWrite
    <2>2. mem[w] \in [Key -> KeyRecord] /\ mem'[w] = [mem[w] EXCEPT ![drop].active = FALSE]
      BY <2>1 DEF Table
    <2>3. mem'[w][drop] = [mem[w][drop] EXCEPT !.active = FALSE] /\ mem[w][drop] \in KeyRecord
      BY <2>2
    <2>4. ~mem'[w][drop].active
      BY <2>3 DEF KeyRecord
    <2>5. mem'[w] # mem[w]
      BY <2>1, <2>4
    <2>6. WriterLeft'
      BY <2>1 DEF JInv, WriterLeft, Writes, Live
    <2>. QED
      BY <2>1, <2>5, <2>6 DEF KeepsWriter, Cause
  <1>2. CASE OtherWrite(w, k) \/ Limited(w, k)
    BY <1>2 DEF OtherWrite, Limited, JInv, WriterLeft, Writes, Live, KeepsWriter, Manageable
  <1>. QED
    BY <1>1, <1>2, RotateLeavesWriter DEF Request

\* The second half of a rotation to a write key leaves a write key in the file.
LEMMA FinishLeavesWriter ==
    ASSUME JInv, NEW w \in Worker, FinishRotation(w)
    PROVE  WriterLeft' /\ KeepsWriter
  <1>1. /\ job[w].busy /\ w \in running /\ job \in [Worker -> Job] /\ now' = now
        /\ job' = [job EXCEPT ![w] = Idle] /\ job[w].role \in Role
        /\ mem \in [Worker -> Table]
    BY DEF JInv, IInv, TypeOK, FinishRotation, Job
  <1>2. ~job'[w].busy /\ \A v \in Worker \ {w} : job'[v] = job[v]
    BY <1>1 DEF Idle
  <1>3. CASE Deactivated(w, job[w].drop)
    <2> DEFINE table == [mem[w] EXCEPT ![job[w].drop].active = FALSE]
    <2>1. /\ mem' = [mem EXCEPT ![w] = table] /\ file' = table /\ disk' = "whole"
          /\ \A j \in Key \ {job[w].drop} : table[j] = mem[w][j]
      BY <1>1, <1>3 DEF Deactivated, Persist, Table
    <2> HIDE DEF table
    <2>2. job[w].role = "write" => Manageable'
      <3>1. ASSUME NEW j \in Key \ {job[w].drop}, Writes(mem[w][j]) PROVE Writes(file[j])'
        BY <1>1, <2>1, <3>1 DEF Writes, Live
      <3>. QED
        BY <1>1, <2>1, <3>1 DEF JInv, WriterLeft, Manageable
    <2>3. KeepsWriter
      BY <1>1, <1>2, <2>2 DEF KeepsWriter, Cause, Role
    <2>4. WriterLeft'
      BY <1>1, <1>2, <2>1 DEF JInv, WriterLeft, Writes, Live
    <2>. QED
      BY <2>3, <2>4
  <1>4. CASE UNCHANGED <<disk, file, mem, behind, revoked>>
    BY <1>1, <1>2, <1>4 DEF JInv, WriterLeft, Writes, Live, KeepsWriter, Manageable
  <1>. QED
    BY <1>3, <1>4 DEF FinishRotation

LEMMA NextJInv == JInv /\ [Next]_vars => JInv' /\ [KeepsWriter]_vars
  <1>. SUFFICES ASSUME JInv, [Next]_vars PROVE JInv' /\ [KeepsWriter]_vars
    OBVIOUS
  <1>1. IInv'
    BY NextIInv DEF JInv
  <1>2. ASSUME NEW w \in Worker, Start(w) PROVE WriterLeft' /\ KeepsWriter
    <2>1. /\ ~job[w].busy /\ job' = job /\ now' = now /\ (disk = "whole" => file' = file)
          /\ \A v \in Worker \ {w} : mem'[v] = mem[v]
      BY <1>2 DEF Start, JInv, IInv, TypeOK
    <2>. QED
      BY <2>1 DEF JInv, WriterLeft, Writes, Live, KeepsWriter, Manageable
  <1>3. ASSUME NEW w \in Worker, Crash(w) \/ CrashWriting(w) PROVE WriterLeft' /\ KeepsWriter
    <2>1. /\ job' = [job EXCEPT ![w] = Idle] /\ mem' = mem /\ now' = now /\ file' = file
          /\ disk' = disk \/ disk' = "torn"
      BY <1>3 DEF Crash, CrashWriting
    <2>2. ~job'[w].busy /\ \A v \in Worker \ {w} : job'[v] = job[v]
      BY <2>1 DEF JInv, IInv, TypeOK, Idle
    <2>. QED
      BY <2>1, <2>2 DEF JInv, WriterLeft, Writes, Live, KeepsWriter, Manageable
  <1>4. CASE Tick
    BY <1>1, <1>4 DEF Tick, JInv, IInv, TypeOK, WriterLeft, KeepsWriter
  <1>5. CASE UNCHANGED vars
    BY <1>1, <1>5 DEF vars, JInv, WriterLeft, Writes, Live
  <1>. QED
    BY <1>1, <1>2, <1>3, <1>4, <1>5, RequestLeavesWriter, FinishLeavesWriter DEF Next, JInv

\* A rotation to a write key never takes the last write key out of the file, for
\* any number of workers that write in between and any crash (app.py:629-636).
THEOREM RotationsKeepWriters == Spec => RotationKeeps
  <1>1. Init => JInv
    BY InitIInv DEF JInv, WriterLeft, Init, Idle
  <1>2. KeepsWriter =>
          (Manageable /\ ~Manageable' /\ now' = now /\ disk' = "whole"
             => \E w \in running :
                   \/ ~job[w].busy /\ ~job'[w].busy /\ mem'[w] # mem[w]
                   \/ job[w].busy /\ ~job'[w].busy /\ job[w].role = "read")
    BY DEF KeepsWriter, Cause
  <1>. QED
    BY <1>1, <1>2, NextJInv, PTL DEF Spec, RotationKeeps
=============================================================================
