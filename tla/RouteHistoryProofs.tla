------------------------- MODULE RouteHistoryProofs -------------------------
(***************************************************************************)
(* Theorems about RouteHistory, for any ids and contents, any retention,   *)
(* and any number of changes, handlers and crashes.                        *)
(***************************************************************************)
EXTENDS RouteHistory, SequenceTheorems, FiniteSetTheorems, TLAPS

Unique(t) == \A i, j \in DOMAIN t : t[i].id = t[j].id => i = j
GoodTable == {t \in Seq(Route) : Unique(t)}

\* The contents of a hash: a table without its order.
GoodHash ==
    {S \in SUBSET Route : IsFiniteSet(S) /\ \A r, s \in S : r.id = s.id => r = s}

TablesOK ==
    /\ table \in GoodTable /\ file \in GoodTable
    /\ stored \in GoodHash /\ underway \subseteq GoodHash

\* Entries of changes, numbered upwards.
Recorded == {e \in Entry : e.before \union e.after # None}
LogOK(log) == log \in Seq(Recorded) /\ \A i, j \in DOMAIN log : i < j => log[i].no < log[j].no

HistoryOK ==
    /\ maxEntries \in Nat /\ count \in 0..MaxChanges
    /\ LogOK(entries) /\ \A i \in DOMAIN entries : entries[i].no <= count
    /\ \/ pending = <<>>
       \/ \E e \in Recorded : e.no = count + 1 /\ pending = <<e>>
    /\ disk = Kept(entries)

IInv == TablesOK /\ HistoryOK
-----------------------------------------------------------------------------
(***************************************************************************)
(* Tables                                                                  *)
(***************************************************************************)
\* A sequence without its k-th element.
LEMMA RemovedAt ==
    ASSUME NEW t \in Seq(Route), NEW k \in 1..Len(t)
    PROVE  /\ RemoveAt(t, k) \in Seq(Route)
           /\ DOMAIN RemoveAt(t, k) = 1..(Len(t) - 1)
           /\ \A i \in 1..(Len(t) - 1) :
                 RemoveAt(t, k)[i] = IF i < k THEN t[i] ELSE t[i + 1]
  <1> DEFINE n == Len(t)
             next == RemoveAt(t, k)
  <1>1. n \in Nat /\ k \in 1..n
    OBVIOUS
  <1>2. next = SubSeq(t, 1, k - 1) \o SubSeq(t, k + 1, n)
    BY DEF RemoveAt
  <1> DEFINE left == SubSeq(t, 1, k - 1)
             right == SubSeq(t, k + 1, n)
  <1>3. /\ left \in Seq(Route) /\ Len(left) = k - 1
        /\ \A i \in 1..(k - 1) : left[i] = t[i]
    BY <1>1, SubSeqProperties
  <1>4. /\ right \in Seq(Route) /\ Len(right) = n - k
        /\ \A i \in 1..(n - k) : right[i] = t[i + k]
    <2>1. k + 1 \in 1..(n + 1) /\ n \in (k + 1 - 1)..n
      BY <1>1
    <2>2. /\ right \in Seq(Route)
          /\ Len(right) = IF k + 1 <= n THEN n - (k + 1) + 1 ELSE 0
          /\ \A i \in 1..(n - (k + 1) + 1) : right[i] = t[k + 1 + i - 1]
      BY <1>1, <2>1, SubSeqProperties
    <2>3. /\ (IF k + 1 <= n THEN n - (k + 1) + 1 ELSE 0) = n - k
          /\ n - (k + 1) + 1 = n - k
          /\ \A i \in 1..(n - k) : k + 1 + i - 1 = i + k
      <3> HIDE DEF n
      <3>1. n \in Nat /\ k \in Nat /\ k <= n
        BY <1>1
      <3>. QED
        BY <3>1
    <2> HIDE DEF right
    <2>4. \A i \in 1..(n - k) : right[i] = t[i + k]
      BY <2>2, <2>3
    <2>. QED
      BY <2>2, <2>3, <2>4
  <1> HIDE DEF n, left, right, next
  <1>5. /\ next \in Seq(Route) /\ Len(next) = n - 1
        /\ \A i \in 1..(n - 1) : next[i] = IF i < k THEN t[i] ELSE t[i + 1]
    <2>1. /\ next \in Seq(Route) /\ Len(next) = n - 1
          /\ \A i \in 1..(n - 1) :
                next[i] = IF i <= k - 1 THEN left[i] ELSE right[i - (k - 1)]
      <3>1. next = left \o right
        BY <1>2 DEF left, right
      <3>2. /\ left \o right \in Seq(Route)
            /\ Len(left \o right) = Len(left) + Len(right)
            /\ \A i \in 1..(Len(left) + Len(right)) :
                  (left \o right)[i] = IF i <= Len(left) THEN left[i] ELSE right[i - Len(left)]
        BY <1>3, <1>4, ConcatProperties
      <3>3. k - 1 + (n - k) = n - 1
        BY <1>1
      <3>. QED
        BY <1>3, <1>4, <3>1, <3>2, <3>3
    <2>2. ASSUME NEW i \in 1..(n - 1)
          PROVE  /\ i < k => i <= k - 1 /\ i \in 1..(k - 1)
                 /\ ~(i < k) => /\ ~(i <= k - 1) /\ i - (k - 1) \in 1..(n - k)
                                 /\ i - (k - 1) + k = i + 1
      BY <1>1
    <2>. QED
      BY <1>3, <1>4, <2>1, <2>2
  <1>. QED
    BY <1>1, <1>5 DEF n, next

\* What the loader's operations leave behind.
LEMMA CreatedGood ==
    ASSUME NEW t \in GoodTable, NEW r \in Route, NEW next \in Created(t, r)
    PROVE  next \in GoodTable
  <1>1. next = Append(t, r) /\ \A i \in 1..Len(t) : t[i].id # r.id
    BY DEF Created, Ids, GoodTable
  <1>2. /\ next \in Seq(Route) /\ Len(next) = Len(t) + 1 /\ Len(t) \in Nat
        /\ \A i \in 1..Len(t) : next[i] = t[i]
        /\ next[Len(t) + 1] = r
    BY <1>1, AppendProperties DEF GoodTable
  <1>3. ASSUME NEW i \in 1..Len(next), NEW j \in 1..Len(next), next[i].id = next[j].id
        PROVE  i = j
    <2>1. \A m \in 1..Len(next) : m \in 1..Len(t) \/ m = Len(t) + 1
      BY <1>2
    <2>. QED
      BY <1>1, <1>2, <1>3, <2>1 DEF GoodTable, Unique
  <1>. QED
    BY <1>2, <1>3 DEF GoodTable, Unique

LEMMA UpdatedGood ==
    ASSUME NEW t \in GoodTable, NEW id, NEW r \in Route, NEW next \in Updated(t, id, r)
    PROVE  next \in GoodTable
  <1>1. /\ next = [i \in DOMAIN t |-> IF t[i].id = id THEN r ELSE t[i]]
        /\ r.id = id \/ \A i \in 1..Len(t) : t[i].id # r.id
    BY DEF Updated, Ids, GoodTable
  <1>2. t \in Seq(Route) /\ DOMAIN t = 1..Len(t) /\ Len(t) \in Nat
    BY DEF GoodTable
  <1>3. next \in [1..Len(t) -> Route]
    BY <1>1, <1>2
  <1>4. next \in Seq(Route) /\ DOMAIN next = 1..Len(t)
    BY <1>2, <1>3
  <1>5. ASSUME NEW i \in 1..Len(t), NEW j \in 1..Len(t), next[i].id = next[j].id
        PROVE  i = j
    BY <1>1, <1>2, <1>5 DEF GoodTable, Unique
  <1>. QED
    BY <1>4, <1>5 DEF GoodTable, Unique

LEMMA DeletedGood ==
    ASSUME NEW t \in GoodTable, NEW id, NEW next \in Deleted(t, id)
    PROVE  next \in GoodTable
  <1> DEFINE n == Len(t)
  <1>1. t \in Seq(Route) /\ n \in Nat /\ DOMAIN t = 1..n
    BY DEF GoodTable
  <1>2. PICK k \in 1..n : next = RemoveAt(t, k)
    BY <1>1 DEF Deleted
  <1>5. /\ next \in Seq(Route) /\ DOMAIN next = 1..(n - 1)
        /\ \A i \in 1..(n - 1) : next[i] = IF i < k THEN t[i] ELSE t[i + 1]
    BY <1>1, <1>2, RemovedAt
  <1> HIDE DEF n
  <1>6. ASSUME NEW i \in 1..(n - 1), NEW j \in 1..(n - 1), next[i].id = next[j].id
        PROVE  i = j
    <2> DEFINE at(m) == IF m < k THEN m ELSE m + 1
    <2>1. \A m \in 1..(n - 1) : at(m) \in 1..n /\ next[m] = t[at(m)]
      BY <1>1, <1>5
    <2>2. at(i) = at(j)
      <3> HIDE DEF at
      <3>. QED
        BY <1>1, <1>6, <2>1 DEF GoodTable, Unique
    <2>. QED
      BY <1>1, <2>2
  <1>. QED
    BY <1>1, <1>5, <1>6 DEF GoodTable, Unique

\* A table and a hash have the same routes.
LEMMA RoutesGood ==
    ASSUME NEW t \in GoodTable PROVE Routes(t) \in GoodHash
  <1>1. t \in Seq(Route) /\ Len(t) \in Nat /\ DOMAIN t = 1..Len(t)
    BY DEF GoodTable
  <1>2. IsFiniteSet(1..Len(t))
    BY <1>1, FS_Interval
  <1> DEFINE f == [i \in 1..Len(t) |-> t[i]]
  <1>3. f \in Surjection(1..Len(t), Routes(t))
    BY <1>1 DEF Surjection, Routes
  <1>4. IsFiniteSet(Routes(t))
    BY <1>2, <1>3, FS_Surjection
  <1>. QED
    BY <1>1, <1>4 DEF GoodTable, GoodHash, Unique, Routes

LEMMA SequencesGood ==
    ASSUME NEW S \in GoodHash, NEW t \in SetToSeqs(S) PROVE t \in GoodTable
  <1>1. Cardinality(S) \in Nat
    BY FS_CardinalityType DEF GoodHash
  <1>2. /\ t \in [1..Cardinality(S) -> S]
        /\ \A i, j \in 1..Cardinality(S) : i # j => t[i] # t[j]
    BY DEF SetToSeqs
  <1>3. t \in Seq(Route) /\ DOMAIN t = 1..Cardinality(S)
    BY <1>1, <1>2 DEF GoodHash
  <1>. QED
    BY <1>2, <1>3 DEF GoodHash, GoodTable, Unique

\* A table has at most one route of an id.
LEMMA FindSnapshot ==
    ASSUME NEW t \in GoodTable, NEW id
    PROVE  Find(t, id) \in Snapshot /\ (id \in Ids(t) => Find(t, id) # None)
  <1>1. t \in Seq(Route) /\ \A i \in DOMAIN t : t[i] \in Route
    BY DEF GoodTable
  <1>2. id \in Ids(t) => Find(t, id) # {}
    BY DEF Ids, Find, Routes
  <1>3. \A r, s \in Find(t, id) : r = s
    BY DEF GoodTable, Unique, Find, Routes
  <1>4. Find(t, id) \subseteq Route
    BY <1>1 DEF Find, Routes
  <1>5. CASE Find(t, id) # {}
    <2>1. PICK r \in Find(t, id) : TRUE
      BY <1>5
    <2>2. Find(t, id) = {r}
      BY <1>3, <2>1
    <2>. QED
      BY <1>2, <1>4, <2>1, <2>2 DEF Snapshot, None
  <1>. QED
    BY <1>2, <1>5 DEF Snapshot, None
-----------------------------------------------------------------------------
(***************************************************************************)
(* Rollback                                                                *)
(***************************************************************************)
UndoOK(u) ==
    /\ u.table \in GoodTable
    /\ u.before \in Snapshot /\ u.after \in Snapshot
    /\ u.before \union u.after # None

\* What an upsert, and the undoing of a deletion, come to.
LEMMA UpsertOK ==
    ASSUME table \in GoodTable, NEW r \in Route, NEW u \in Upsert(r) PROVE UndoOK(u)
  <1>1. PICK t : /\ t \in Updated(table, r.id, r) \/ t \in Created(table, r)
                 /\ u = [table |-> t, before |-> Find(table, r.id), after |-> {r}]
    BY DEF Upsert
  <1>2. t \in GoodTable
    BY <1>1, UpdatedGood, CreatedGood
  <1>. QED
    BY <1>1, <1>2, FindSnapshot DEF UndoOK, Snapshot, None

LEMMA UndoneOK ==
    ASSUME table \in GoodTable, NEW e \in Recorded, NEW u \in Undone(e) PROVE UndoOK(u)
  <1>1. /\ \A r \in e.before : r \in Route
        /\ \A r \in e.after : r \in Route
    BY DEF Recorded, Entry, Snapshot, None
  <1>2. CASE e.before = None
    <2>1. PICK r \in e.after : \E t \in Deleted(table, r.id) :
             u = [table |-> t, before |-> Find(table, r.id), after |-> None]
      BY <1>2 DEF Undone
    <2>2. PICK t \in Deleted(table, r.id) :
             u = [table |-> t, before |-> Find(table, r.id), after |-> None]
      BY <2>1
    <2>3. t \in GoodTable /\ r.id \in Ids(table)
      BY <2>2, DeletedGood DEF Deleted, Ids
    <2>. QED
      BY <2>2, <2>3, FindSnapshot DEF UndoOK, Snapshot, None
  <1>3. CASE e.before # None
    <2>1. PICK r \in e.before :
             \/ u \in Upsert(r)
             \/ \E a \in e.after : \E t \in Updated(table, a.id, r) :
                   u = [table |-> t, before |-> Find(table, a.id), after |-> {r}]
      BY <1>3 DEF Undone
    <2>2. CASE u \in Upsert(r)
      BY <1>1, <2>2, UpsertOK
    <2>3. CASE \E a \in e.after : \E t \in Updated(table, a.id, r) :
                   u = [table |-> t, before |-> Find(table, a.id), after |-> {r}]
      <3>1. PICK a \in e.after : \E t \in Updated(table, a.id, r) :
               u = [table |-> t, before |-> Find(table, a.id), after |-> {r}]
        BY <2>3
      <3>. PICK t \in Updated(table, a.id, r) :
               u = [table |-> t, before |-> Find(table, a.id), after |-> {r}]
        BY <3>1
      <3>2. t \in GoodTable
        BY <1>1, UpdatedGood
      <3>. QED
        BY <1>1, <3>2, FindSnapshot DEF UndoOK, Snapshot, None
    <2>. QED
      BY <2>1, <2>2, <2>3
  <1>. QED
    BY <1>2, <1>3
-----------------------------------------------------------------------------
(***************************************************************************)
(* The history file                                                        *)
(***************************************************************************)
\* Kept drops a prefix.
LEMMA KeptSuffix ==
    ASSUME maxEntries \in Nat, NEW S, NEW all \in Seq(S)
    PROVE  \E d \in 0..Len(all) :
              /\ Kept(all) \in Seq(S) /\ Len(Kept(all)) = Len(all) - d
              /\ \A i \in 1..(Len(all) - d) : Kept(all)[i] = all[i + d]
              /\ d = IF maxEntries = 0 \/ Len(all) <= maxEntries THEN 0
                     ELSE Len(all) - maxEntries
  <1> DEFINE n == Len(all)
  <1>1. n \in Nat
    OBVIOUS
  <1>2. CASE maxEntries = 0 \/ n <= maxEntries
    <2>1. Kept(all) = all
      BY <1>2 DEF Kept
    <2>2. 0 \in 0..n /\ n - 0 = n /\ \A i \in 1..n : all[i + 0] = all[i]
      BY <1>1
    <2>. QED
      BY <1>2, <2>1, <2>2
  <1>3. CASE ~(maxEntries = 0 \/ n <= maxEntries)
    <2> DEFINE d == n - maxEntries
    <2>1. Kept(all) = SubSeq(all, d + 1, n)
      BY <1>3 DEF Kept
    <2>2. d \in 0..n /\ d + 1 \in 1..(n + 1)
      BY <1>1, <1>3
    <2> HIDE DEF d
    <2>3. /\ SubSeq(all, d + 1, n) \in Seq(S) /\ Len(SubSeq(all, d + 1, n)) = n - d
          /\ \A i \in 1..(n - d) : SubSeq(all, d + 1, n)[i] = all[i + d]
      BY <1>1, <2>2
    <2>. QED
      BY <1>3, <2>1, <2>2, <2>3 DEF d
  <1>. QED
    BY <1>2, <1>3

\* A history that was cut once is kept whole.
LEMMA KeptTwice ==
    ASSUME maxEntries \in Nat, NEW S, NEW all \in Seq(S)
    PROVE  Kept(Kept(all)) = Kept(all)
  <1>1. /\ Kept(all) \in Seq(S)
        /\ maxEntries = 0 \/ Len(Kept(all)) <= maxEntries
    BY KeptSuffix
  <1>. QED
    BY <1>1 DEF Kept

LEMMA KeptLog ==
    ASSUME maxEntries \in Nat, NEW all, LogOK(all)
    PROVE  /\ LogOK(Kept(all))
           /\ \A i \in DOMAIN Kept(all) : \E j \in DOMAIN all : Kept(all)[i] = all[j]
  <1>1. PICK d \in 0..Len(all) :
           /\ Kept(all) \in Seq(Recorded) /\ Len(Kept(all)) = Len(all) - d
           /\ \A i \in 1..(Len(all) - d) : Kept(all)[i] = all[i + d]
    BY KeptSuffix DEF LogOK
  <1>2. Len(all) \in Nat /\ DOMAIN all = 1..Len(all)
    BY DEF LogOK
  <1>3. DOMAIN Kept(all) = 1..(Len(all) - d)
    BY <1>1
  <1>4. \A i \in 1..(Len(all) - d) : i + d \in 1..Len(all)
    BY <1>2
  <1>5. ASSUME NEW i \in DOMAIN Kept(all), NEW j \in DOMAIN Kept(all), i < j
        PROVE  Kept(all)[i].no < Kept(all)[j].no
    <2>1. i + d < j + d /\ i + d \in DOMAIN all /\ j + d \in DOMAIN all
      BY <1>2, <1>3, <1>4, <1>5
    <2>. QED
      BY <1>1, <1>3, <2>1 DEF LogOK
  <1>. QED
    BY <1>1, <1>2, <1>3, <1>4, <1>5 DEF LogOK
-----------------------------------------------------------------------------
(***************************************************************************)
(* The invariant                                                           *)
(***************************************************************************)
\* A worker starts with one route at most, in memory, file and hash.
LEMMA InitIInv == Init => IInv
  <1>. SUFFICES ASSUME Init PROVE IInv
    OBVIOUS
  <1>1. table \in GoodTable
    <2>1. \A r \in Route : <<r>> \in Seq(Route) /\ Unique(<<r>>)
      BY DEF Unique
    <2>2. <<>> \in Seq(Route) /\ Unique(<<>>)
      BY DEF Unique
    <2>. QED
      BY <2>1, <2>2 DEF Init, GoodTable
  <1>2. TablesOK
    BY <1>1, RoutesGood DEF Init, TablesOK
  <1>3. HistoryOK
    BY ConstantsOK DEF Init, HistoryOK, LogOK, Kept
  <1>. QED
    BY <1>2, <1>3 DEF IInv

\* A change leaves good tables and one entry to be logged.
LEMMA ChangeKeeps ==
    ASSUME IInv, NEW next \in GoodTable, NEW before \in Snapshot, NEW after \in Snapshot,
           before \union after # None, Change(next, before, after)
    PROVE  IInv'
  <1>1. TablesOK'
    BY DEF IInv, TablesOK, Change
  <1> DEFINE e == [no |-> count + 1, before |-> before, after |-> after]
  <1>2. e \in Recorded /\ e.no = count + 1 /\ pending' = <<e>>
    BY ConstantsOK DEF IInv, HistoryOK, Change, Recorded, Entry
  <1>3. HistoryOK'
    BY <1>2 DEF IInv, HistoryOK, LogOK, Change, Kept
  <1>. QED
    BY <1>1, <1>3 DEF IInv

LEMMA RequestKeeps == ASSUME IInv, Request PROVE IInv'
  <1>1. table \in GoodTable
    BY DEF IInv, TablesOK
  <1>2. None \in Snapshot /\ \A r \in Route : {r} \in Snapshot /\ {r} # None
    BY DEF Snapshot, None
  <1>3. ASSUME NEW r \in Route, Create(r) PROVE IInv'
    <2>1. PICK next \in Created(table, r) : Change(next, None, {r})
      BY <1>3 DEF Create
    <2>2. next \in GoodTable /\ None \union {r} # None
      BY <1>1, CreatedGood DEF None
    <2>. QED
      BY <1>2, <2>1, <2>2, ChangeKeeps
  <1>4. ASSUME NEW id \in Id, NEW r \in Route, Update(id, r) PROVE IInv'
    <2>1. PICK next \in Updated(table, id, r) : Change(next, Find(table, id), {r})
      BY <1>4 DEF Update
    <2>2. /\ next \in GoodTable /\ Find(table, id) \in Snapshot
          /\ Find(table, id) \union {r} # None
      BY <1>1, UpdatedGood, FindSnapshot DEF None
    <2>. QED
      BY <1>2, <2>1, <2>2, ChangeKeeps
  <1>5. ASSUME NEW id \in Id, Delete(id) PROVE IInv'
    <2>1. PICK next \in Deleted(table, id) : Change(next, Find(table, id), None)
      BY <1>5 DEF Delete
    <2>2. id \in Ids(table)
      BY <2>1 DEF Deleted, Ids
    <2>3. /\ next \in GoodTable /\ Find(table, id) \in Snapshot
          /\ Find(table, id) \union None # None
      BY <1>1, <2>2, DeletedGood, FindSnapshot DEF None
    <2>. QED
      BY <1>2, <2>1, <2>3, ChangeKeeps
  <1>6. ASSUME NEW i \in DOMAIN entries, Rollback(i) PROVE IInv'
    <2>1. entries[i] \in Recorded
      BY DEF IInv, HistoryOK, LogOK
    <2>2. PICK u \in Undone(entries[i]) : Change(u.table, u.before, u.after)
      BY <1>6 DEF Rollback
    <2>3. UndoOK(u)
      BY <1>1, <2>1, UndoneOK
    <2>. QED
      BY <2>2, <2>3, ChangeKeeps DEF UndoOK
  <1>. QED
    BY <1>3, <1>4, <1>5, <1>6 DEF Request

\* The entry that is appended has the next number.
LEMMA LoggedKeeps == ASSUME IInv, Logged PROVE IInv'
  <1>1. TablesOK'
    BY RoutesGood DEF IInv, TablesOK, Logged
  <1>2. PICK e \in Recorded : e.no = count + 1 /\ pending = <<e>>
    BY DEF IInv, HistoryOK, Logged
  <1> DEFINE n == Len(entries)
  <1>3. entries \in Seq(Recorded) /\ n \in Nat /\ DOMAIN entries = 1..n
    BY DEF IInv, HistoryOK, LogOK
  <1>4. /\ entries' \in Seq(Recorded) /\ Len(entries') = n + 1
        /\ \A i \in 1..(n + 1) : entries'[i] = IF i <= n THEN entries[i] ELSE e
    <2>1. entries' = entries \o <<e>>
      BY <1>2 DEF Logged
    <2>2. <<e>> \in Seq(Recorded) /\ Len(<<e>>) = 1 /\ <<e>>[1] = e
      OBVIOUS
    <2>3. /\ entries' \in Seq(Recorded) /\ Len(entries') = n + 1
          /\ \A i \in 1..(n + 1) : entries'[i] = IF i <= n THEN entries[i] ELSE <<e>>[i - n]
      BY <1>3, <2>1, <2>2, ConcatProperties
    <2>4. \A i \in 1..(n + 1) : ~(i <= n) => i - n = 1
      BY <1>3
    <2>. QED
      BY <2>2, <2>3, <2>4
  <1>5. count' = count + 1 /\ count \in Nat /\ count' \in 0..MaxChanges
    <2>1. e.no \in 1..MaxChanges
      BY DEF Recorded, Entry
    <2>. QED
      BY <1>2, <2>1 DEF IInv, HistoryOK, Logged
  <1>6. \A i \in 1..n : entries[i].no <= count /\ entries[i].no \in Int
    BY <1>3 DEF IInv, HistoryOK, Recorded, Entry
  <1>7. \A i \in DOMAIN entries' : entries'[i].no <= count'
    BY <1>2, <1>3, <1>4, <1>5, <1>6
  <1>8. ASSUME NEW i \in 1..(n + 1), NEW j \in 1..(n + 1), i < j
        PROVE  entries'[i].no < entries'[j].no
    <2>1. CASE j <= n
      BY <1>3, <1>4, <1>8, <2>1 DEF IInv, HistoryOK, LogOK
    <2>2. CASE ~(j <= n)
      <3>1. i \in 1..n /\ entries'[j] = e /\ entries'[i] = entries[i]
        BY <1>3, <1>4, <1>8, <2>2
      <3>. QED
        BY <1>2, <1>5, <1>6, <3>1
    <2>. QED
      BY <2>1, <2>2
  <1>9. LogOK(entries)'
    BY <1>3, <1>4, <1>8 DEF LogOK
  <1>10. disk' = Kept(entries)' /\ pending' = <<>> /\ maxEntries' = maxEntries
    BY DEF Logged, Kept
  <1>11. HistoryOK'
    BY <1>5, <1>7, <1>9, <1>10 DEF IInv, HistoryOK
  <1>. QED
    BY <1>1, <1>11 DEF IInv

\* A worker that starts again has the history of the file, and its table, or
\* one with the routes of the hash.
LEMMA RestartKeeps == ASSUME IInv, Restart PROVE IInv'
  <1>1. table' \in GoodTable
    BY SequencesGood DEF IInv, TablesOK, Restart
  <1>2. TablesOK'
    BY <1>1 DEF IInv, TablesOK, Restart
  <1>3. /\ maxEntries \in Nat /\ LogOK(entries) /\ entries \in Seq(Recorded)
        /\ disk = Kept(entries)
        /\ entries' = disk /\ disk' = disk /\ maxEntries' = maxEntries
    BY DEF IInv, HistoryOK, LogOK, Restart
  <1>4. LogOK(entries') /\ \A i \in DOMAIN entries' : entries'[i].no <= count
    <2>1. \A j \in DOMAIN entries : entries[j].no <= count
      BY DEF IInv, HistoryOK
    <2>. QED
      BY <1>3, <2>1, KeptLog
  <1>5. disk' = Kept(entries)'
    <2>1. Kept(entries)' = Kept(disk)
      BY <1>3 DEF Kept
    <2>. QED
      BY <1>3, <2>1, KeptTwice
  <1>6. HistoryOK'
    BY <1>3, <1>4, <1>5 DEF IInv, HistoryOK, Restart, LogOK
  <1>. QED
    BY <1>2, <1>6 DEF IInv

LEMMA NextIInv == IInv /\ [Next]_vars => IInv'
  <1>. SUFFICES ASSUME IInv, [Next]_vars PROVE IInv'
    OBVIOUS
  <1>1. ASSUME NEW routes \in underway, Save(routes) \/ RedisError(routes) PROVE IInv'
    BY <1>1 DEF Save, RedisError, IInv, TablesOK, HistoryOK, LogOK, Kept
  <1>2. CASE Crash
    BY <1>2 DEF Crash, IInv, TablesOK, HistoryOK, LogOK, Kept
  <1>3. CASE UNCHANGED vars
    BY <1>3 DEF vars, IInv, TablesOK, HistoryOK, LogOK, Kept
  <1>. QED
    BY <1>1, <1>2, <1>3, RequestKeeps, LoggedKeeps, RestartKeeps DEF Next
-----------------------------------------------------------------------------
\* Tables and entries keep their types, and the file its bound, in any history
\* of changes, rollbacks and crashes.
THEOREM HistoryTypeCorrect == Spec => []TypeOK
  <1>1. ASSUME IInv PROVE TypeOK
    <2>1. \A log \in {pending, entries, disk} : LogOK(log)
      <3>1. LogOK(pending)
        <4>1. LogOK(<<>>) /\ \A e \in Recorded : LogOK(<<e>>)
          BY DEF LogOK
        <4>. QED
          BY <1>1, <4>1 DEF IInv, HistoryOK
      <3>2. LogOK(entries) /\ LogOK(disk)
        BY <1>1, KeptLog DEF IInv, HistoryOK
      <3>. QED
        BY <3>1, <3>2
    <2>2. \A log \in {pending, entries, disk} :
             /\ \A i \in DOMAIN log : log[i] \in Entry /\ log[i].before \union log[i].after # None
             /\ \A i, j \in DOMAIN log : i < j => log[i].no < log[j].no
      BY <2>1 DEF LogOK, Recorded
    <2>3. maxEntries > 0 => Len(disk) <= maxEntries
      <3>1. maxEntries \in Nat /\ entries \in Seq(Recorded) /\ disk = Kept(entries)
        BY <1>1 DEF IInv, HistoryOK, LogOK
      <3>. QED
        BY <3>1, KeptSuffix
    <2>. QED
      BY <1>1, <2>2, <2>3 DEF IInv, TablesOK, GoodTable, GoodHash, TypeOK
  <1>. QED
    BY <1>1, InitIInv, NextIInv, PTL DEF Spec

\* No two routes of a table have one id.
THEOREM IdsStayUnique == Spec => []UniqueIds
  <1>1. IInv => UniqueIds
    BY DEF IInv, TablesOK, GoodTable, Unique, UniqueIds
  <1>. QED
    BY <1>1, InitIInv, NextIInv, PTL DEF Spec

\* What the console lists is in the file.
THEOREM ListedEntriesSurvive == Spec => []ListedSurvives
  <1>1. ASSUME IInv PROVE ListedSurvives
    <2>1. /\ maxEntries \in Nat /\ entries \in Seq(Recorded) /\ disk = Kept(entries)
      BY <1>1 DEF IInv, HistoryOK, LogOK
    <2> SUFFICES ASSUME NEW limit \in Limits, NEW i \in DOMAIN Listed(limit)
                 PROVE  \E j \in DOMAIN disk : disk[j] = Listed(limit)[i]
      BY DEF ListedSurvives
    <2> DEFINE n == Len(entries)
               most == IF limit < maxEntries THEN limit ELSE maxEntries
               bounded == IF most > 1 THEN most ELSE 1
               first == IF n > bounded THEN n - bounded + 1 ELSE 1
    <2>2. n \in Nat /\ limit \in Int /\ first \in 1..(n + 1)
      BY <2>1, ConstantsOK
    <2>3. PICK d \in 0..n :
              /\ Len(disk) = n - d /\ disk \in Seq(Recorded)
              /\ \A j \in 1..(n - d) : disk[j] = entries[j + d]
              /\ d = IF maxEntries = 0 \/ n <= maxEntries THEN 0 ELSE n - maxEntries
      BY <2>1, KeptSuffix
    <2>4. d < first
      BY <2>1, <2>2, <2>3
    <2>5. Listed(limit) = SubSeq(entries, first, n)
      BY DEF Listed
    <2> HIDE DEF n, first
    <2>6. /\ DOMAIN Listed(limit) = 1..(n - first + 1)
          /\ \A m \in 1..(n - first + 1) : Listed(limit)[m] = entries[first + m - 1]
      <3>1. \A m \in first..n : entries[m] \in Recorded
        BY <2>1, <2>2 DEF n
      <3>2. /\ Listed(limit) \in Seq(Recorded)
            /\ Len(Listed(limit)) = IF first <= n THEN n - first + 1 ELSE 0
            /\ \A m \in 1..(n - first + 1) : Listed(limit)[m] = entries[first + m - 1]
        BY <2>2, <2>5, <3>1, SubSeqProperties
      <3>3. (IF first <= n THEN n - first + 1 ELSE 0) = n - first + 1
        BY <2>2
      <3>. QED
        BY <3>2, <3>3
    <2>7. i \in 1..(n - first + 1)
      BY <2>6
    <2>8. /\ first + i - 1 - d \in 1..(n - d)
          /\ first + i - 1 - d + d = first + i - 1
      BY <2>2, <2>3, <2>4, <2>7
    <2>9. disk[first + i - 1 - d] = Listed(limit)[i]
      BY <2>3, <2>6, <2>7, <2>8
    <2>. QED
      BY <2>3, <2>8, <2>9
  <1>. QED
    BY <1>1, InitIInv, NextIInv, PTL DEF Spec
-----------------------------------------------------------------------------
(***************************************************************************)
(* What a change does to the routes, as its entry tells it.                *)
(***************************************************************************)
Effect(prev, before, after, next) ==
    /\ before \subseteq prev
    /\ next = (prev \ before) \union after
    /\ \A r \in after, s \in prev \ before : r.id # s.id

\* The loader's operations have the effect they are logged with.
LEMMA CreatedEffect ==
    ASSUME NEW t \in GoodTable, NEW r \in Route, NEW next \in Created(t, r)
    PROVE  Effect(Routes(t), None, {r}, Routes(next)) /\ Find(t, r.id) = None
  <1>1. next = Append(t, r) /\ \A i \in 1..Len(t) : t[i].id # r.id
    BY DEF Created, Ids, GoodTable
  <1>2. /\ t \in Seq(Route) /\ Len(t) \in Nat /\ DOMAIN t = 1..Len(t)
        /\ Len(next) = Len(t) + 1 /\ DOMAIN next = 1..(Len(t) + 1)
        /\ \A i \in 1..Len(t) : next[i] = t[i]
        /\ next[Len(t) + 1] = r
    BY <1>1, AppendProperties DEF GoodTable
  <1>3. \A m \in 1..(Len(t) + 1) : m \in 1..Len(t) \/ m = Len(t) + 1
    BY <1>2
  <1>4. 1..Len(t) \subseteq 1..(Len(t) + 1) /\ Len(t) + 1 \in 1..(Len(t) + 1)
    BY <1>2
  <1>5. Routes(next) = Routes(t) \union {r}
    <2>1. ASSUME NEW x \in Routes(next) PROVE x \in Routes(t) \union {r}
      BY <1>2, <1>3, <2>1 DEF Routes
    <2>2. ASSUME NEW x \in Routes(t) \union {r} PROVE x \in Routes(next)
      BY <1>2, <1>4, <2>2 DEF Routes
    <2>. QED
      BY <2>1, <2>2
  <1>. QED
    BY <1>1, <1>2, <1>5 DEF Effect, Find, Routes, None

LEMMA UpdatedEffect ==
    ASSUME NEW t \in GoodTable, NEW id, NEW r \in Route, NEW next \in Updated(t, id, r)
    PROVE  Effect(Routes(t), Find(t, id), {r}, Routes(next))
  <1>1. /\ next = [i \in DOMAIN t |-> IF t[i].id = id THEN r ELSE t[i]]
        /\ r.id = id \/ \A i \in DOMAIN t : t[i].id # r.id
        /\ id \in Ids(t)
    BY DEF Updated, Ids
  <1>2. PICK k \in DOMAIN t : t[k].id = id
    BY <1>1 DEF Ids
  <1>3. DOMAIN next = DOMAIN t /\ next[k] = r
    BY <1>1, <1>2
  <1>4. \A i \in DOMAIN t : t[i].id # id => next[i] = t[i]
    BY <1>1
  <1>5. Routes(next) = (Routes(t) \ Find(t, id)) \union {r}
    <2>1. ASSUME NEW x \in Routes(next) PROVE x \in (Routes(t) \ Find(t, id)) \union {r}
      BY <1>1, <1>3, <2>1 DEF Routes, Find
    <2>2. ASSUME NEW x \in (Routes(t) \ Find(t, id)) \union {r} PROVE x \in Routes(next)
      BY <1>3, <1>4, <2>2 DEF Routes, Find
    <2>. QED
      BY <2>1, <2>2
  <1>6. ASSUME NEW x \in Routes(t) \ Find(t, id) PROVE r.id # x.id
    BY <1>1, <1>6 DEF Routes, Find
  <1>. QED
    BY <1>5, <1>6 DEF Effect, Find

LEMMA DeletedEffect ==
    ASSUME NEW t \in GoodTable, NEW id, NEW next \in Deleted(t, id)
    PROVE  Effect(Routes(t), Find(t, id), None, Routes(next))
  <1>1. PICK k \in DOMAIN t : t[k].id = id /\ next = RemoveAt(t, k)
    BY DEF Deleted
  <1> DEFINE n == Len(t)
  <1>2. t \in Seq(Route) /\ n \in Nat /\ DOMAIN t = 1..n /\ k \in 1..n
    BY <1>1 DEF GoodTable
  <1>3. /\ DOMAIN next = 1..(n - 1)
        /\ \A i \in 1..(n - 1) : next[i] = IF i < k THEN t[i] ELSE t[i + 1]
    BY <1>1, <1>2, RemovedAt
  <1> HIDE DEF n
  <1>4. ASSUME NEW i \in 1..n, i # k
        PROVE  \/ i \in 1..(n - 1) /\ i < k
               \/ i - 1 \in 1..(n - 1) /\ ~(i - 1 < k) /\ i - 1 + 1 = i
    <2>1. n \in Nat /\ k \in 1..n
      BY <1>2
    <2>. QED
      BY <1>4, <2>1
  <1>5. ASSUME NEW i \in 1..(n - 1)
        PROVE  /\ i < k => i \in 1..n /\ i # k
               /\ ~(i < k) => i + 1 \in 1..n /\ i + 1 # k
    <2>1. n \in Nat /\ k \in 1..n
      BY <1>2
    <2>. QED
      BY <2>1
  <1>6. \A i \in 1..n : t[i].id = id <=> i = k
    BY <1>1, <1>2 DEF GoodTable, Unique
  <1>7. Routes(next) = Routes(t) \ Find(t, id)
    <2>1. ASSUME NEW x \in Routes(next) PROVE x \in Routes(t) \ Find(t, id)
      <3>1. PICK i \in 1..(n - 1) : x = next[i]
        BY <1>3, <2>1 DEF Routes
      <3>2. PICK j \in 1..n : x = t[j] /\ j # k
        BY <1>3, <1>5, <3>1
      <3>. QED
        BY <1>2, <1>6, <3>2 DEF Routes, Find
    <2>2. ASSUME NEW x \in Routes(t) \ Find(t, id) PROVE x \in Routes(next)
      <3>1. PICK i \in 1..n : x = t[i] /\ i # k
        BY <1>1, <1>2, <2>2 DEF Routes, Find
      <3>2. CASE i \in 1..(n - 1) /\ i < k
        BY <1>3, <3>1, <3>2 DEF Routes
      <3>3. CASE i - 1 \in 1..(n - 1) /\ ~(i - 1 < k) /\ i - 1 + 1 = i
        BY <1>3, <3>1, <3>3 DEF Routes
      <3>. QED
        BY <1>4, <3>1, <3>2, <3>3
    <2>. QED
      BY <2>1, <2>2
  <1>. QED
    BY <1>7 DEF Effect, Find, None

\* So do the branches of a rollback.
LEMMA UpsertEffect ==
    ASSUME table \in GoodTable, NEW r \in Route, NEW u \in Upsert(r)
    PROVE  Effect(Routes(table), u.before, u.after, Routes(u.table))
  <1>1. CASE r.id \in Ids(table)
    <2>1. PICK t \in Updated(table, r.id, r) :
             u = [table |-> t, before |-> Find(table, r.id), after |-> {r}]
      BY <1>1 DEF Upsert
    <2>. QED
      BY <2>1, UpdatedEffect
  <1>2. CASE r.id \notin Ids(table)
    <2>1. PICK t \in Created(table, r) :
             u = [table |-> t, before |-> Find(table, r.id), after |-> {r}]
      BY <1>2 DEF Upsert
    <2>. QED
      BY <2>1, CreatedEffect
  <1>. QED
    BY <1>1, <1>2

LEMMA UndoneEffect ==
    ASSUME table \in GoodTable, NEW e \in Recorded, NEW u \in Undone(e)
    PROVE  Effect(Routes(table), u.before, u.after, Routes(u.table))
  <1>1. \A r \in e.before : r \in Route
    BY DEF Recorded, Entry, Snapshot, None
  <1>2. CASE e.before = None
    <2>1. PICK r \in e.after : \E t \in Deleted(table, r.id) :
             u = [table |-> t, before |-> Find(table, r.id), after |-> None]
      BY <1>2 DEF Undone
    <2>2. PICK t \in Deleted(table, r.id) :
             u = [table |-> t, before |-> Find(table, r.id), after |-> None]
      BY <2>1
    <2>. QED
      BY <2>2, DeletedEffect
  <1>3. CASE e.before # None
    <2>1. PICK r \in e.before :
             \/ u \in Upsert(r)
             \/ \E a \in e.after : \E t \in Updated(table, a.id, r) :
                   u = [table |-> t, before |-> Find(table, a.id), after |-> {r}]
      BY <1>3 DEF Undone
    <2>2. ASSUME NEW a \in e.after, NEW t \in Updated(table, a.id, r),
                 u = [table |-> t, before |-> Find(table, a.id), after |-> {r}]
          PROVE  Effect(Routes(table), u.before, u.after, Routes(u.table))
      BY <1>1, <2>2, UpdatedEffect
    <2>. QED
      BY <1>1, <2>1, <2>2, UpsertEffect
  <1>. QED
    BY <1>2, <1>3
-----------------------------------------------------------------------------
(***************************************************************************)
(* The last entry tells how the last change came about, and the last entry *)
(* about an id what has become of it.                                      *)
(***************************************************************************)
Told(e) == Effect(previous, e.before, e.after, Routes(table))

Tells(log, routes) ==
    \A i \in DOMAIN log : \A r \in log[i].before \union log[i].after :
        (\A j \in DOMAIN log : j > i =>
            \A s \in log[j].before \union log[j].after : s.id # r.id)
        => {x \in routes : x.id = r.id} = {a \in log[i].after : a.id = r.id}

LastOK == pending = <<>> /\ entries # <<>> => Told(entries[Len(entries)])
PendingOK == \A i \in DOMAIN pending : Told(pending[i])

Truth ==
    /\ previous \in GoodHash
    /\ PendingOK
    /\ intact => LastOK /\ Tells(entries \o pending, Routes(table))

\* A worker that stopped has no handler left.
Stopped == ~running => pending = <<>>

RInv == IInv /\ Truth /\ Stopped

\* One more element.
LEMMA OneMore ==
    ASSUME NEW S, NEW log \in Seq(S), NEW e \in S
    PROVE  /\ log \o <<e>> \in Seq(S) /\ Len(log \o <<e>>) = Len(log) + 1
           /\ \A i \in 1..Len(log) : (log \o <<e>>)[i] = log[i]
           /\ (log \o <<e>>)[Len(log) + 1] = e
  <1>1. log \o <<e>> = Append(log, e)
    BY AppendIsConcat
  <1>. QED
    BY <1>1, AppendProperties

\* One more entry.
LEMMA AppendedTells ==
    ASSUME NEW log \in Seq(Recorded), NEW prev \in GoodHash, NEW next, NEW e \in Recorded,
           Tells(log, prev), Effect(prev, e.before, e.after, next)
    PROVE  Tells(log \o <<e>>, next)
  <1> DEFINE n == Len(log)
             all == log \o <<e>>
             about == e.before \union e.after
  <1>1. n \in Nat /\ DOMAIN log = 1..n
    OBVIOUS
  <1>2. /\ all \in Seq(Recorded) /\ DOMAIN all = 1..(n + 1)
        /\ \A i \in 1..n : all[i] = log[i]
        /\ all[n + 1] = e
    <2>1. /\ all \in Seq(Recorded) /\ Len(all) = n + 1
          /\ \A i \in 1..n : all[i] = log[i]
          /\ all[n + 1] = e
      BY OneMore
    <2>. QED
      BY <2>1
  <1>3. /\ e.before \subseteq prev
        /\ next = (prev \ e.before) \union e.after
        /\ \A r \in e.after, s \in prev \ e.before : r.id # s.id
    BY DEF Effect
  <1>4. \A r, s \in prev : r.id = s.id => r = s
    BY DEF GoodHash
  <1>5. ASSUME NEW r \in about
        PROVE  {x \in next : x.id = r.id} = {a \in e.after : a.id = r.id}
    <2>1. ASSUME NEW x \in prev \ e.before PROVE x.id # r.id
      BY <1>3, <1>4, <1>5, <2>1
    <2>. QED
      BY <1>3, <2>1
  <1>6. ASSUME NEW r, \A s \in about : s.id # r.id
        PROVE  {x \in next : x.id = r.id} = {x \in prev : x.id = r.id}
    BY <1>3, <1>6
  <1> HIDE DEF all, about, n
  <1>7. ASSUME NEW i \in 1..(n + 1), NEW r \in all[i].before \union all[i].after,
               \A j \in 1..(n + 1) : j > i =>
                   \A s \in all[j].before \union all[j].after : s.id # r.id
        PROVE  {x \in next : x.id = r.id} = {a \in all[i].after : a.id = r.id}
    <2>1. CASE i = n + 1
      BY <1>2, <1>5, <1>7, <2>1 DEF about
    <2>2. CASE i # n + 1
      <3>1. i \in 1..n /\ n + 1 \in 1..(n + 1) /\ n + 1 > i
        BY <1>1, <2>2
      <3>2. \A s \in about : s.id # r.id
        BY <1>2, <1>7, <3>1 DEF about
      <3>3. \A j \in 1..n : j > i =>
                \A s \in log[j].before \union log[j].after : s.id # r.id
        <4>1. \A j \in 1..n : j \in 1..(n + 1)
          BY <1>1
        <4>. QED
          BY <1>2, <1>7, <4>1
      <3>4. {x \in prev : x.id = r.id} = {a \in log[i].after : a.id = r.id}
        BY <1>1, <1>2, <1>7, <3>1, <3>3 DEF Tells
      <3>. QED
        BY <1>2, <1>6, <3>1, <3>2, <3>4
    <2>. QED
      BY <2>1, <2>2
  <1>8. Tells(all, next)
    BY <1>2, <1>7 DEF Tells
  <1>. QED
    BY <1>8 DEF all

\* A log that lacks its oldest entries.
LEMMA KeptTells ==
    ASSUME maxEntries \in Nat, NEW log \in Seq(Recorded), NEW routes, Tells(log, routes)
    PROVE  /\ Tells(Kept(log), routes)
           /\ Kept(log) # <<>> => log # <<>> /\ Kept(log)[Len(Kept(log))] = log[Len(log)]
  <1> DEFINE n == Len(log)
             kept == Kept(log)
  <1>1. n \in Nat /\ DOMAIN log = 1..n
    OBVIOUS
  <1>2. PICK d \in 0..n :
           /\ kept \in Seq(Recorded) /\ Len(kept) = n - d
           /\ \A i \in 1..(n - d) : kept[i] = log[i + d]
    BY KeptSuffix
  <1>3. DOMAIN kept = 1..(n - d)
    BY <1>2
  <1> HIDE DEF n, kept
  <1>4. ASSUME NEW i \in 1..(n - d), NEW r \in kept[i].before \union kept[i].after,
               \A j \in 1..(n - d) : j > i =>
                   \A s \in kept[j].before \union kept[j].after : s.id # r.id
        PROVE  {x \in routes : x.id = r.id} = {a \in kept[i].after : a.id = r.id}
    <2>1. i + d \in 1..n
      BY <1>1, <1>2
    <2>2. ASSUME NEW j \in 1..n, j > i + d
          PROVE  \A s \in log[j].before \union log[j].after : s.id # r.id
      <3>1. j - d \in 1..(n - d) /\ j - d > i /\ j - d + d = j
        BY <1>1, <1>2, <2>2
      <3>2. kept[j - d] = log[j]
        BY <1>2, <3>1
      <3>. QED
        BY <1>4, <3>1, <3>2
    <2>3. kept[i] = log[i + d]
      BY <1>2
    <2>. QED
      BY <1>1, <1>4, <2>1, <2>2, <2>3 DEF Tells
  <1>5. Tells(kept, routes)
    BY <1>3, <1>4 DEF Tells
  <1>6. kept # <<>> => log # <<>> /\ kept[n - d] = log[n]
    <2>. SUFFICES ASSUME kept # <<>> PROVE log # <<>> /\ kept[n - d] = log[n]
      OBVIOUS
    <2>1. Len(kept) # 0
      BY <1>2, EmptySeq
    <2>2. n - d \in 1..(n - d) /\ n - d + d = n /\ n # 0
      BY <1>1, <1>2, <2>1
    <2>3. log # <<>>
      BY <2>2 DEF n
    <2>. QED
      BY <1>2, <2>2, <2>3
  <1>. QED
    BY <1>2, <1>5, <1>6 DEF n, kept

\* A change is told by the entry it leaves to be logged.
LEMMA ChangeTold ==
    ASSUME RInv, NEW next \in GoodTable, NEW before \in Snapshot, NEW after \in Snapshot,
           before \union after # None, Change(next, before, after),
           Effect(Routes(table), before, after, Routes(next))
    PROVE  Truth'
  <1> DEFINE e == [no |-> count + 1, before |-> before, after |-> after]
  <1>1. e \in Recorded
    BY ConstantsOK DEF RInv, IInv, HistoryOK, Change, Recorded, Entry
  <1>2. /\ pending = <<>> /\ pending' = <<e>> /\ entries' = entries /\ table' = next
        /\ previous' = Routes(table) /\ intact' = intact /\ entries \in Seq(Recorded)
    BY DEF RInv, IInv, HistoryOK, LogOK, Change
  <1>3. e.before = before /\ e.after = after
    OBVIOUS
  <1> HIDE DEF e
  <1>4. Routes(table) \in GoodHash
    BY RoutesGood DEF RInv, IInv, TablesOK
  <1>5. Routes(table)' = Routes(next)
    BY <1>2 DEF Routes
  <1>6. PendingOK' /\ previous' \in GoodHash
    BY <1>2, <1>3, <1>4, <1>5 DEF PendingOK, Told, Effect
  <1>7. LastOK'
    BY <1>2 DEF LastOK
  <1>8. ASSUME intact PROVE Tells(entries \o pending, Routes(table))'
    <2>1. entries \o <<>> = entries
      BY <1>2, ConcatEmptySeq
    <2>2. Tells(entries, Routes(table))
      BY <1>2, <1>8, <2>1 DEF RInv, Truth
    <2>3. Tells(entries \o <<e>>, Routes(next))
      BY <1>1, <1>2, <1>3, <1>4, <2>2, AppendedTells
    <2>. QED
      BY <1>2, <1>5, <2>3 DEF Tells
  <1>. QED
    BY <1>2, <1>6, <1>7, <1>8 DEF Truth

\* Every request that changes the table, a rollback included, replaces one
\* route by another, by nothing, or nothing by one.
LEMMA RequestChanges ==
    ASSUME IInv, Request
    PROVE  \E next \in GoodTable, before \in Snapshot, after \in Snapshot :
              /\ before \union after # None
              /\ Change(next, before, after)
              /\ Effect(Routes(table), before, after, Routes(next))
  <1> DEFINE Goal == \E next \in GoodTable, before \in Snapshot, after \in Snapshot :
                       /\ before \union after # None
                       /\ Change(next, before, after)
                       /\ Effect(Routes(table), before, after, Routes(next))
  <1>1. table \in GoodTable
    BY DEF IInv, TablesOK
  <1>2. None \in Snapshot /\ \A r \in Route : {r} \in Snapshot /\ {r} # None
    BY DEF Snapshot, None
  <1>3. ASSUME NEW r \in Route, Create(r) PROVE Goal
    <2>1. PICK next \in Created(table, r) : Change(next, None, {r})
      BY <1>3 DEF Create
    <2>2. /\ next \in GoodTable /\ None \union {r} # None
          /\ Effect(Routes(table), None, {r}, Routes(next))
      BY <1>1, CreatedGood, CreatedEffect DEF None
    <2>. QED
      BY <1>2, <2>1, <2>2
  <1>4. ASSUME NEW id \in Id, NEW r \in Route, Update(id, r) PROVE Goal
    <2>1. PICK next \in Updated(table, id, r) : Change(next, Find(table, id), {r})
      BY <1>4 DEF Update
    <2>2. /\ next \in GoodTable /\ Find(table, id) \in Snapshot
          /\ Find(table, id) \union {r} # None
          /\ Effect(Routes(table), Find(table, id), {r}, Routes(next))
      BY <1>1, UpdatedGood, UpdatedEffect, FindSnapshot DEF None
    <2>. QED
      BY <1>2, <2>1, <2>2
  <1>5. ASSUME NEW id \in Id, Delete(id) PROVE Goal
    <2>1. PICK next \in Deleted(table, id) : Change(next, Find(table, id), None)
      BY <1>5 DEF Delete
    <2>2. id \in Ids(table)
      BY <2>1 DEF Deleted, Ids
    <2>3. /\ next \in GoodTable /\ Find(table, id) \in Snapshot
          /\ Find(table, id) \union None # None
          /\ Effect(Routes(table), Find(table, id), None, Routes(next))
      BY <1>1, <2>2, DeletedGood, DeletedEffect, FindSnapshot DEF None
    <2>. QED
      BY <1>2, <2>1, <2>3
  <1>6. ASSUME NEW i \in DOMAIN entries, Rollback(i) PROVE Goal
    <2>1. entries[i] \in Recorded
      BY DEF IInv, HistoryOK, LogOK
    <2>2. PICK u \in Undone(entries[i]) : Change(u.table, u.before, u.after)
      BY <1>6 DEF Rollback
    <2>3. UndoOK(u) /\ Effect(Routes(table), u.before, u.after, Routes(u.table))
      BY <1>1, <2>1, UndoneOK, UndoneEffect
    <2>. QED
      BY <2>2, <2>3 DEF UndoOK
  <1>. QED
    BY <1>3, <1>4, <1>5, <1>6 DEF Request

LEMMA RequestTold == ASSUME RInv, Request PROVE Truth'
  BY RequestChanges, ChangeTold DEF RInv

LEMMA LoggedTold == ASSUME RInv, Logged PROVE Truth'
  <1>1. PICK e \in Recorded : pending = <<e>>
    BY DEF RInv, IInv, HistoryOK, Logged
  <1>2. /\ entries' = entries \o <<e>> /\ pending' = <<>> /\ table' = table
        /\ previous' = previous /\ intact' = intact /\ entries \in Seq(Recorded)
    BY <1>1 DEF RInv, IInv, HistoryOK, LogOK, Logged
  <1>3. entries' \in Seq(Recorded) /\ entries'[Len(entries')] = e
    BY <1>2, OneMore
  <1>4. Told(e)
    BY <1>1 DEF RInv, Truth, PendingOK
  <1>5. LastOK'
    BY <1>2, <1>3, <1>4 DEF LastOK, Told, Routes
  <1>6. intact => Tells(entries \o pending, Routes(table))'
    <2>1. entries' \o <<>> = entries'
      BY <1>3, ConcatEmptySeq
    <2>2. intact => Tells(entries', Routes(table))
      BY <1>1, <1>2 DEF RInv, Truth
    <2>. QED
      BY <1>2, <2>1, <2>2 DEF Tells, Routes
  <1>7. PendingOK' /\ previous' \in GoodHash
    BY <1>2 DEF RInv, Truth, PendingOK
  <1>. QED
    BY <1>2, <1>5, <1>6, <1>7 DEF Truth

LEMMA RestartTold == ASSUME RInv, Restart PROVE Truth'
  <1>1. /\ entries \in Seq(Recorded) /\ maxEntries \in Nat /\ disk = Kept(entries)
        /\ disk \in Seq(Recorded)
    BY KeptSuffix DEF RInv, IInv, HistoryOK, LogOK
  <1>2. /\ entries' = disk /\ pending = <<>> /\ pending' = <<>> /\ previous' = previous
        /\ intact' => intact /\ Routes(table') = Routes(table)
    BY DEF RInv, Stopped, Restart
  <1>3. ASSUME intact' PROVE LastOK' /\ Tells(entries \o pending, Routes(table))'
    <2>1. entries \o <<>> = entries /\ disk \o <<>> = disk
      BY <1>1, ConcatEmptySeq
    <2>2. intact /\ Tells(entries, Routes(table)) /\ Routes(table') = Routes(table)
      BY <1>2, <1>3, <2>1 DEF RInv, Truth
    <2>3. /\ Tells(disk, Routes(table))
          /\ disk # <<>> => entries # <<>> /\ disk[Len(disk)] = entries[Len(entries)]
      BY <1>1, <2>2, KeptTells
    <2>4. Routes(table)' = Routes(table)
      BY <2>2 DEF Routes
    <2>5. Tells(entries \o pending, Routes(table))'
      BY <1>2, <2>1, <2>3, <2>4 DEF Tells
    <2>6. disk # <<>> => Told(disk[Len(disk)])
      BY <1>2, <2>2, <2>3 DEF RInv, Truth, LastOK
    <2>7. LastOK'
      BY <1>2, <2>4, <2>6 DEF LastOK, Told
    <2>. QED
      BY <2>5, <2>7
  <1>4. PendingOK' /\ previous' \in GoodHash
    BY <1>2 DEF RInv, Truth, PendingOK
  <1>. QED
    BY <1>3, <1>4 DEF Truth

\* A worker starts with an empty history.
LEMMA InitRInv == Init => RInv
  <1>. SUFFICES ASSUME Init PROVE RInv
    OBVIOUS
  <1>1. IInv
    BY InitIInv
  <1>2. previous \in GoodHash
    BY <1>1, RoutesGood DEF IInv, TablesOK, Init
  <1>3. entries = <<>> /\ pending = <<>> /\ entries \o pending = <<>>
    <2>1. entries = <<>> /\ pending = <<>>
      BY DEF Init
    <2>. QED
      BY <2>1, ConcatEmptySeq
  <1>4. PendingOK /\ LastOK /\ Tells(entries \o pending, Routes(table))
    BY <1>3 DEF PendingOK, LastOK, Tells
  <1>. QED
    BY <1>1, <1>2, <1>3, <1>4 DEF RInv, Truth, Stopped

\* A crash that loses no entry leaves the history as it was.
LEMMA CrashTold == ASSUME RInv, Crash PROVE Truth'
  <1>1. /\ pending' = <<>> /\ entries' = entries /\ table' = table
        /\ previous' = previous
        /\ intact' => intact /\ pending = <<>>
    BY DEF Crash
  <1>2. PendingOK' /\ previous' \in GoodHash
    BY <1>1 DEF RInv, Truth, PendingOK
  <1>3. ASSUME intact' PROVE LastOK' /\ Tells(entries \o pending, Routes(table))'
    BY <1>1, <1>3 DEF RInv, Truth, LastOK, Told, Tells, Routes
  <1>. QED
    BY <1>2, <1>3 DEF Truth

LEMMA NextRInv == RInv /\ [Next]_vars => RInv'
  <1>. SUFFICES ASSUME RInv, [Next]_vars PROVE RInv'
    OBVIOUS
  <1>1. IInv'
    BY NextIInv DEF RInv
  <1>2. ASSUME UNCHANGED <<pending, entries, table, previous, intact>> PROVE Truth'
    <2>1. \A e : Told(e)' <=> Told(e)
      BY <1>2 DEF Told, Routes
    <2>2. PendingOK' /\ (LastOK => LastOK') /\ previous' \in GoodHash
      BY <1>2, <2>1 DEF RInv, Truth, PendingOK, LastOK
    <2>3. Tells(entries \o pending, Routes(table))'
             <=> Tells(entries \o pending, Routes(table))
      BY <1>2 DEF Tells, Routes
    <2>. QED
      BY <1>2, <2>2, <2>3 DEF RInv, Truth
  <1>3. ASSUME NEW routes \in underway, Save(routes) \/ RedisError(routes)
        PROVE  UNCHANGED <<pending, entries, table, previous, intact>>
    BY <1>3 DEF Save, RedisError
  <1>4. Truth'
    <2>1. CASE UNCHANGED vars
      BY <1>2, <2>1 DEF vars
    <2>. QED
      BY <1>2, <1>3, <2>1, RequestTold, LoggedTold, CrashTold, RestartTold DEF Next
  <1>5. Stopped'
    BY DEF RInv, Stopped, Next, vars, Request, Create, Update, Delete, Rollback, Change,
           Logged, Save, RedisError, Crash, Restart
  <1>. QED
    BY <1>1, <1>4, <1>5 DEF RInv
-----------------------------------------------------------------------------
\* What undoing the entry of the last change comes to, be it a creation, a
\* deletion or an update.
LEMMA Undoing ==
    ASSUME table \in GoodTable, NEW prev \in GoodHash, NEW e \in Recorded,
           Effect(prev, e.before, e.after, Routes(table))
    PROVE  Undone(e) # {} /\ \A u \in Undone(e) : Routes(u.table) = prev
  <1>1. /\ e.before \subseteq prev
        /\ Routes(table) = (prev \ e.before) \union e.after
        /\ \A r \in e.after, s \in prev \ e.before : r.id # s.id
    BY DEF Effect
  <1>2. \A r, s \in prev : r.id = s.id => r = s
    BY DEF GoodHash
  <1>3. \A id : id \in Ids(table) <=> \E r \in Routes(table) : r.id = id
    BY DEF Ids, Routes
  <1>4. ASSUME NEW u \in Undone(e)
        PROVE  Effect(Routes(table), u.before, u.after, Routes(u.table))
    BY UndoneEffect
  <1>5. CASE e.before = None
    <2>1. PICK r \in Route : e.after = {r}
      BY <1>5 DEF Recorded, Entry, Snapshot, None
    <2>2. Find(table, r.id) = {r} /\ r \notin prev
      BY <1>1, <1>5, <2>1 DEF Find, None
    <2>3. Undone(e) = {[table |-> t, before |-> Find(table, r.id), after |-> None] :
                           t \in Deleted(table, r.id)}
      BY <1>5, <2>1 DEF Undone
    <2>4. Deleted(table, r.id) # {}
      BY <2>2 DEF Deleted, Find, Routes
    <2>5. ASSUME NEW u \in Undone(e) PROVE Routes(u.table) = prev
      <3>1. u.before = {r} /\ u.after = None
        BY <2>2, <2>3
      <3>. QED
        BY <1>1, <1>4, <1>5, <2>1, <2>2, <3>1 DEF Effect, None
    <2>. QED
      BY <2>3, <2>4, <2>5
  <1>6. CASE e.before # None /\ e.after = None
    <2>1. PICK b \in Route : e.before = {b}
      BY <1>6 DEF Recorded, Entry, Snapshot, None
    <2>2. b.id \notin Ids(table)
      BY <1>1, <1>2, <1>3, <1>6, <2>1 DEF None
    <2>3. Undone(e) = Upsert(b)
      BY <1>6, <2>1 DEF Undone, None
    <2>4. Upsert(b) = {[table |-> t, before |-> Find(table, b.id), after |-> {b}] :
                           t \in {Append(table, b)}}
      BY <2>2 DEF Upsert, Created
    <2>5. ASSUME NEW u \in Undone(e) PROVE Routes(u.table) = prev
      <3>1. u.before = None /\ u.after = {b}
        BY <1>3, <2>2, <2>3, <2>4 DEF Find, None
      <3>. QED
        BY <1>1, <1>4, <1>6, <2>1, <3>1 DEF Effect, None
    <2>. QED
      BY <2>3, <2>4, <2>5
  <1>7. CASE e.before # None /\ e.after # None
    <2>1. PICK b \in Route, a \in Route : e.before = {b} /\ e.after = {a}
      BY <1>7 DEF Recorded, Entry, Snapshot, None
    <2>2. Find(table, a.id) = {a} /\ a.id \in Ids(table)
      BY <1>1, <1>3, <2>1 DEF Find
    <2>3. b.id = a.id \/ b.id \notin Ids(table)
      BY <1>1, <1>2, <1>3, <2>1
    <2>4. Undone(e) = {[table |-> t, before |-> Find(table, a.id), after |-> {b}] :
                           t \in Updated(table, a.id, b)}
      <3>1. {x \in e.after : x.id \in Ids(table)} = {a}
        BY <2>1, <2>2
      <3>. QED
        BY <1>7, <2>1, <3>1 DEF Undone
    <2>5. Updated(table, a.id, b) # {}
      BY <2>2, <2>3 DEF Updated
    <2>6. ASSUME NEW u \in Undone(e) PROVE Routes(u.table) = prev
      <3>1. u.before = {a} /\ u.after = {b}
        BY <2>2, <2>4
      <3>. QED
        BY <1>1, <1>4, <2>1, <3>1 DEF Effect
    <2>. QED
      BY <2>4, <2>5, <2>6
  <1>. QED
    BY <1>5, <1>6, <1>7

\* The last change can always be rolled back, and the routes are then those
\* there were before it.
THEOREM LastChangeUndone == Spec => []UndoLast
  <1>1. ASSUME RInv PROVE UndoLast
    <2> SUFFICES ASSUME running, intact, pending = <<>>, entries # <<>>
                 PROVE  LET undone == Undone(entries[Len(entries)])
                        IN  undone # {} /\ \A u \in undone : Routes(u.table) = previous
      BY DEF UndoLast
    <2>1. entries \in Seq(Recorded) /\ table \in GoodTable /\ previous \in GoodHash
      BY <1>1 DEF RInv, IInv, TablesOK, HistoryOK, LogOK, Truth
    <2>2. entries[Len(entries)] \in Recorded
      BY <2>1, EmptySeq
    <2>3. Told(entries[Len(entries)])
      BY <1>1 DEF RInv, Truth, LastOK
    <2>. QED
      BY <2>1, <2>2, <2>3, Undoing DEF Told
  <1>. QED
    BY <1>1, InitRInv, NextRInv, PTL DEF Spec

\* The last entry about an id says whether there is a route of that id, and
\* with what content.
THEOREM HistoryIsTrue == Spec => []HistoryTells
  <1>1. ASSUME RInv PROVE HistoryTells
    <2> SUFFICES ASSUME running, intact, pending = <<>>,
                        NEW i \in DOMAIN entries,
                        NEW r \in entries[i].before \union entries[i].after,
                        \A j \in DOMAIN entries : j > i =>
                            \A s \in entries[j].before \union entries[j].after : s.id # r.id
                 PROVE  Find(table, r.id) = {a \in entries[i].after : a.id = r.id}
      BY DEF HistoryTells
    <2>1. entries \in Seq(Recorded)
      BY <1>1 DEF RInv, IInv, HistoryOK, LogOK
    <2>2. entries \o <<>> = entries
      BY <2>1, ConcatEmptySeq
    <2>3. Tells(entries, Routes(table))
      BY <1>1, <2>2 DEF RInv, Truth
    <2>4. {x \in Routes(table) : x.id = r.id} = {a \in entries[i].after : a.id = r.id}
      BY <2>3 DEF Tells
    <2>. QED
      BY <2>4 DEF Find
  <1>. QED
    BY <1>1, InitRInv, NextRInv, PTL DEF Spec
-----------------------------------------------------------------------------
(***************************************************************************)
(* The table a worker serves, and the one it saves, as the route table the *)
(* Admin API promises (RouteTable): the order of the routes is forgotten,  *)
(* and an id has the set of its contents, none or one.                     *)
(***************************************************************************)
Contents(S) == [i \in Id |-> {r.content : r \in {x \in S : x.id = i}}]

Served == INSTANCE RouteTable
    WITH Content <- {{c} : c \in Content}, Absent <- {}, table <- Contents(Routes(table))

Saved == INSTANCE RouteTable
    WITH Content <- {{c} : c \in Content}, Absent <- {}, table <- Contents(Routes(file))

\* d becomes t by one step of the route table.
Promised(d, t) ==
    \E i \in Id :
        \/ \E c \in Content : d[i] = {} /\ t = [d EXCEPT ![i] = {c}]
        \/ \E j \in Id, c \in Content :
             /\ d[i] # {}
             /\ i # j => d[j] = {}
             /\ t = [d EXCEPT ![i] = {}, ![j] = {c}]
        \/ d[i] # {} /\ t = [d EXCEPT ![i] = {}]

\* What the effects of a change are on the contents.
LEMMA AddedContents ==
    ASSUME NEW S \in GoodHash, NEW r \in Route, \A s \in S : r.id # s.id
    PROVE  /\ Contents(S)[r.id] = {}
           /\ Contents(S \union {r}) = [Contents(S) EXCEPT ![r.id] = {r.content}]
  <1>1. r.id \in Id /\ r.content \in Content
    BY DEF Route
  <1>2. Contents(S)[r.id] = {}
    BY <1>1 DEF Contents
  <1>3. ASSUME NEW i \in Id
        PROVE  Contents(S \union {r})[i] = [Contents(S) EXCEPT ![r.id] = {r.content}][i]
    <2>1. CASE i = r.id
      BY <1>1, <2>1 DEF Contents
    <2>2. CASE i # r.id
      <3>1. {x \in S \union {r} : x.id = i} = {x \in S : x.id = i}
        BY <2>2
      <3>. QED  BY <2>2, <3>1 DEF Contents
    <2>. QED  BY <2>1, <2>2
  <1>. QED  BY <1>2, <1>3 DEF Contents

LEMMA RemovedContents ==
    ASSUME NEW S \in GoodHash, NEW b \in S
    PROVE  /\ b.id \in Id /\ Contents(S)[b.id] # {}
           /\ Contents(S \ {b}) = [Contents(S) EXCEPT ![b.id] = {}]
  <1>1. b \in Route /\ \A s \in S : s.id = b.id => s = b
    BY DEF GoodHash
  <1>2. b.id \in Id
    BY <1>1 DEF Route
  <1>3. Contents(S)[b.id] # {}
    BY <1>2 DEF Contents
  <1>4. ASSUME NEW i \in Id
        PROVE  Contents(S \ {b})[i] = [Contents(S) EXCEPT ![b.id] = {}][i]
    <2>1. CASE i = b.id
      <3>1. {x \in S \ {b} : x.id = i} = {}
        BY <1>1, <2>1
      <3>. QED  BY <2>1, <3>1 DEF Contents
    <2>2. CASE i # b.id
      <3>1. {x \in S \ {b} : x.id = i} = {x \in S : x.id = i}
        BY <2>2
      <3>. QED  BY <2>2, <3>1 DEF Contents
    <2>. QED  BY <2>1, <2>2
  <1>. QED  BY <1>2, <1>3, <1>4 DEF Contents

\* Every effect a change has is one step of the route table.
LEMMA EffectPromised ==
    ASSUME NEW S \in GoodHash, NEW before \in Snapshot, NEW after \in Snapshot, NEW T,
           before \union after # None, Effect(S, before, after, T)
    PROVE  Promised(Contents(S), Contents(T))
  <1>1. \A U \in SUBSET S : U \in GoodHash
    BY FS_Subset DEF GoodHash
  <1>2. T = (S \ before) \union after /\ before \subseteq S
    BY DEF Effect
  <1>3. CASE before = {}
    <2>1. PICK r \in Route : after = {r}
      BY <1>3 DEF Snapshot, None
    <2>2. T = S \union {r} /\ \A s \in S : r.id # s.id
      BY <1>2, <1>3, <2>1 DEF Effect
    <2>3. r.id \in Id /\ r.content \in Content
      BY DEF Route
    <2>. QED  BY <2>2, <2>3, AddedContents DEF Promised
  <1>4. CASE before # {} /\ after = {}
    <2>1. PICK b \in S : before = {b}
      BY <1>2, <1>4 DEF Snapshot, None
    <2>2. T = S \ {b}
      BY <1>2, <1>4, <2>1
    <2>. QED  BY <2>2, RemovedContents DEF Promised
  <1>5. CASE before # {} /\ after # {}
    <2>1. PICK b \in S : before = {b}
      BY <1>2, <1>5 DEF Snapshot, None
    <2>2. PICK r \in Route : after = {r}
      BY <1>5 DEF Snapshot, None
    <2>3. S \ {b} \in GoodHash /\ \A s \in S \ {b} : r.id # s.id
      BY <1>1, <2>1, <2>2 DEF Effect
    <2>4. r.id \in Id /\ r.content \in Content
      BY DEF Route
    <2>5. /\ Contents(S \ {b})[r.id] = {}
          /\ Contents(T) = [Contents(S \ {b}) EXCEPT ![r.id] = {r.content}]
      BY <1>2, <2>1, <2>2, <2>3, AddedContents
    <2>6. /\ b.id \in Id /\ Contents(S)[b.id] # {}
          /\ Contents(S \ {b}) = [Contents(S) EXCEPT ![b.id] = {}]
      BY RemovedContents
    <2>7. b.id # r.id => Contents(S)[r.id] = {}
      BY <2>4, <2>5, <2>6 DEF Contents
    <2>8. Contents(T) = [Contents(S) EXCEPT ![b.id] = {}, ![r.id] = {r.content}]
      BY <2>5, <2>6
    <2>. QED  BY <2>4, <2>6, <2>7, <2>8 DEF Promised
  <1>. QED  BY <1>3, <1>4, <1>5

LEMMA RequestPromised ==
    ASSUME IInv, Request
    PROVE  Promised(Contents(Routes(table)), Contents(Routes(table))') /\ file' = table'
  <1>1. PICK next \in GoodTable, before \in Snapshot, after \in Snapshot :
              /\ before \union after # None
              /\ Change(next, before, after)
              /\ Effect(Routes(table), before, after, Routes(next))
    BY RequestChanges
  <1>2. Routes(table) \in GoodHash
    BY RoutesGood DEF IInv, TablesOK
  <1>3. table' = next /\ file' = next
    BY <1>1 DEF Change
  <1>4. Promised(Contents(Routes(table)), Contents(Routes(next)))
    BY <1>1, <1>2, EffectPromised
  <1>. QED  BY <1>3, <1>4 DEF Contents, Routes

\* While a worker runs its table evolves as the abstract route table: whatever
\* the handlers do, a rollback of any entry included, is one Create, Update or
\* Delete, and nothing else touches the table.
THEOREM RollbacksAreWrites ==
    Spec => [][running /\ running' => Served!Next]_(Contents(Routes(table)))
  <1>1. IInv /\ [Next]_vars
        => [running /\ running' => Served!Next]_(Contents(Routes(table)))
    <2> SUFFICES ASSUME IInv, [Next]_vars, running, running',
                        ~ UNCHANGED Contents(Routes(table))
                 PROVE  Served!Next
      OBVIOUS
    <2>1. table' # table
      BY DEF Contents, Routes
    <2>2. Request
      BY <2>1 DEF Next, vars, Logged, Save, RedisError, Crash, Restart
    <2>3. Promised(Contents(Routes(table)), Contents(Routes(table))')
      BY <2>2, RequestPromised
    <2>. QED
      BY <2>3 DEF Promised, Served!Next, Served!Create, Served!Update, Served!Delete
  <1>. QED  BY <1>1, InitIInv, NextIInv, PTL DEF Spec

\* Until a crash loses a change, memory and file hold the same routes.
SameRoutes == intact => Routes(file) = Routes(table)

LEMMA NextSame == IInv /\ SameRoutes /\ [Next]_vars => SameRoutes'
  <1> SUFFICES ASSUME IInv, SameRoutes, [Next]_vars PROVE SameRoutes'
    OBVIOUS
  <1>1. CASE Request
    BY <1>1, RequestPromised DEF SameRoutes, Routes
  <1>2. CASE Restart
    BY <1>2 DEF Restart, SameRoutes, Routes
  <1>3. CASE ~Request /\ ~Restart
    <2>1. UNCHANGED <<table, file>>
      BY <1>3 DEF Next, vars, Logged, Save, RedisError, Crash
    <2>2. ASSUME Crash PROVE intact' => intact
      BY <2>2 DEF Crash
    <2>3. ~Crash => intact' = intact
      BY <1>3 DEF Next, vars, Logged, Save, RedisError
    <2>. QED  BY <2>1, <2>2, <2>3 DEF SameRoutes, Routes
  <1>. QED  BY <1>1, <1>2, <1>3

\* A table without duplicates has one content of an id at most.
LEMMA ContentsType ==
    ASSUME NEW S \in GoodHash
    PROVE  Contents(S) \in [Id -> {{c} : c \in Content} \union {{}}]
  <1>1. ASSUME NEW i \in Id
        PROVE  {r.content : r \in {x \in S : x.id = i}} \in {{c} : c \in Content} \union {{}}
    <2>1. CASE {x \in S : x.id = i} = {}
      BY <2>1
    <2>2. CASE {x \in S : x.id = i} # {}
      <3>1. PICK r \in S : r.id = i
        BY <2>2
      <3>2. {x \in S : x.id = i} = {r}
        BY <3>1 DEF GoodHash
      <3>3. r.content \in Content
        BY DEF GoodHash, Route
      <3>. QED  BY <3>2, <3>3
    <2>. QED  BY <2>1, <2>2
  <1>. QED  BY <1>1 DEF Contents

\* The table of the file implements the abstract route table for as long as no
\* crash loses a change: crashes and restarts that lose none, whatever the
\* hash holds by then, are no step of it.
THEOREM FileImplemented == Spec /\ []intact => Saved!Spec
  <1>1. Init => Saved!Init /\ SameRoutes
    <2> SUFFICES ASSUME Init PROVE Saved!Init /\ SameRoutes
      OBVIOUS
    <2>1. file = table /\ Routes(file) \in GoodHash
      BY InitIInv, RoutesGood DEF Init, IInv, TablesOK
    <2>. QED  BY <2>1, ContentsType DEF Saved!Init, SameRoutes
  <1>2. IInv /\ SameRoutes /\ intact /\ [Next]_vars => [Saved!Next]_(Contents(Routes(file)))
    <2> SUFFICES ASSUME IInv, SameRoutes, intact, [Next]_vars,
                        ~ UNCHANGED Contents(Routes(file))
                 PROVE  Saved!Next
      OBVIOUS
    <2>1. file' # file
      BY DEF Contents, Routes
    <2>2. Request
      BY <2>1 DEF Next, vars, Logged, Save, RedisError, Crash, Restart
    <2>3. Contents(Routes(file)) = Contents(Routes(table))
      BY DEF SameRoutes
    <2>4. Contents(Routes(file))' = Contents(Routes(table))'
      BY <2>2, RequestPromised DEF Contents, Routes
    <2>5. Promised(Contents(Routes(file)), Contents(Routes(file))')
      BY <2>2, <2>3, <2>4, RequestPromised
    <2>. QED
      BY <2>5 DEF Promised, Saved!Next, Saved!Create, Saved!Update, Saved!Delete
  <1>. QED
    BY <1>1, <1>2, NextSame, InitIInv, NextIInv, PTL DEF Spec, Saved!Spec
=============================================================================
