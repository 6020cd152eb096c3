----------------------------- MODULE RouteHistory -----------------------------
(***************************************************************************)
(* Route changes of an admin worker, the history it keeps of them and the  *)
(* rollback of an entry (src/admin/history.py, the route handlers of       *)
(* src/admin/app.py, ConfigLoader in src/gateway/config/loader.py).        *)
(*                                                                         *)
(* A handler changes file and memory, appends to the history and only then *)
(* awaits Redis.  Up to there nothing of the same process comes in         *)
(* between, but a crash may; after it the writes of several handlers are   *)
(* under way at once.  ConfigSync models what several processes do to the  *)
(* table; this module is about one of them and its history.                *)
(***************************************************************************)
EXTENDS Integers, Sequences, FiniteSets, SequencesExt

CONSTANTS
    Id, Content,  \* what a route is, to the history
    Sizes,        \* values of max_entries
    Limits,       \* values of the limit of a list request
    MaxChanges,   \* bound on the entries ever appended
    MaxHandlers   \* bound on the hash writes under way

ASSUME ConstantsOK ==
    /\ Sizes \subseteq Nat
    /\ Limits \subseteq Int
    /\ MaxChanges \in Nat
    /\ MaxHandlers \in Nat \ {0}

VARIABLES
    running,
    table,     \* _routes of the loader, in order
    file,      \* routes.yaml
    stored,    \* the Redis hash, which has no order
    underway,  \* contents of the hash writes that are being executed
    pending,   \* the entry of a change that is not in the history yet
    entries,   \* _entries of the store
    disk,      \* the history file
    maxEntries,
    count,     \* entries so far; stands for the uuid of an entry
    previous,  \* the routes before the last change
    intact     \* no crash has lost a change or an entry so far

vars == <<running, table, file, stored, underway, pending, entries, disk,
          maxEntries, count, previous, intact>>

Route == [id : Id, content : Content]
None == {}  \* snapshots are sets of at most one route

Kept_Oldest(all) ==
    IF maxEntries = 0 \/ Len(all) <= maxEntries THEN all ELSE SubSeq(all, 1, maxEntries)
Kept_OneMore(all) ==
    SubSeq(all, IF Len(all) > maxEntries THEN Len(all) - maxEntries ELSE 1, Len(all))

(* The slice [-max_entries:], which keeps everything for zero.             *)
Kept(all) ==
    IF maxEntries = 0 \/ Len(all) <= maxEntries THEN all
    ELSE SubSeq(all, Len(all) - maxEntries + 1, Len(all))

Routes(t) == {t[i] : i \in DOMAIN t}
Ids(t) == {t[i].id : i \in DOMAIN t}
Find(t, id) == {r \in Routes(t) : r.id = id}

Init ==
    /\ running = TRUE
    /\ table \in {<<>>} \union {<<r>> : r \in Route}
    /\ file = table
    /\ stored = Routes(table)
    /\ underway = {}
    /\ pending = <<>>
    /\ entries = <<>>
    /\ disk = <<>>
    /\ maxEntries \in Sizes
    /\ count = 0
    /\ previous = Routes(table)
    /\ intact = TRUE

-----------------------------------------------------------------------------
(* The loader's operations: the tables they may leave behind, none if they *)
(* raise ValueError or KeyError.                                           *)

Created(t, r) == IF r.id \in Ids(t) THEN {} ELSE {Append(t, r)}

Updated_Overwrites(t, id, r) ==
    IF id \in Ids(t) THEN {[i \in DOMAIN t |-> IF t[i].id = id THEN r ELSE t[i]]} ELSE {}

Updated(t, id, r) ==
    IF id \in Ids(t) /\ (r.id = id \/ r.id \notin Ids(t))
    THEN {[i \in DOMAIN t |-> IF t[i].id = id THEN r ELSE t[i]]}
    ELSE {}

(* The list without the route of that id, of which there is one at most.    *)
Deleted(t, id) == {RemoveAt(t, i) : i \in {j \in DOMAIN t : t[j].id = id}}

(* What a rollback of an entry does: the tables it may leave and the       *)
(* snapshots it logs, none where it answers 409 or 500.                    *)
Upsert(r) ==
    LET next == IF r.id \in Ids(table) THEN Updated(table, r.id, r) ELSE Created(table, r)
    IN  {[table |-> t, before |-> Find(table, r.id), after |-> {r}] : t \in next}

Undone_ById(e) ==
    IF e.before = None
    THEN UNION {{[table |-> t, before |-> Find(table, r.id), after |-> None] :
                    t \in Deleted(table, r.id)} : r \in e.after}
    ELSE UNION {Upsert(r) : r \in e.before}

Undone(e) ==
    LET Restore(r) ==
            LET current == {a \in e.after : a.id \in Ids(table)}
            IN  IF current = {} THEN Upsert(r)
                ELSE UNION {{[table |-> t, before |-> Find(table, a.id), after |-> {r}] :
                                t \in Updated(table, a.id, r)} : a \in current}
    IN  IF e.before = None
        THEN UNION {{[table |-> t, before |-> Find(table, r.id), after |-> None] :
                        t \in Deleted(table, r.id)} : r \in e.after}
        ELSE UNION {Restore(r) : r \in e.before}

-----------------------------------------------------------------------------
(* A handler.                                                              *)

(* The loader writes file and memory.                                      *)
Change(next, before, after) ==
    /\ running
    /\ pending = <<>>
    /\ count < MaxChanges
    /\ Cardinality(underway) < MaxHandlers
    /\ table' = next
    /\ file' = next
    /\ pending' = <<[no |-> count + 1, before |-> before, after |-> after]>>
    /\ previous' = Routes(table)
    /\ UNCHANGED <<running, stored, underway, entries, disk, maxEntries, count, intact>>

Create(r) == \E next \in Created(table, r) : Change(next, None, {r})

Update_DumpsOld(id, r) ==
    \E next \in Updated(table, id, r) :
        Change(next, Find(table, id), {[old EXCEPT !.id = r.id] : old \in Find(table, id)})

Update(id, r) == \E next \in Updated(table, id, r) : Change(next, Find(table, id), {r})

Delete(id) == \E next \in Deleted(table, id) : Change(next, Find(table, id), None)

Rollback(i) == \E u \in Undone(entries[i]) : Change(u.table, u.before, u.after)

(* append and _persist; save_to_redis fills its pipeline before it awaits. *)
Logged ==
    /\ running
    /\ pending # <<>>
    /\ entries' = entries \o pending
    /\ disk' = Kept(entries')
    /\ count' = count + 1
    /\ pending' = <<>>
    /\ underway' = underway \union {Routes(table)}
    /\ UNCHANGED <<running, table, file, stored, maxEntries, previous, intact>>

(* Pipelines of several handlers execute in any order.                     *)
Save(routes) ==
    /\ running
    /\ pending = <<>>
    /\ underway' = underway \ {routes}
    /\ stored' = routes
    /\ UNCHANGED <<running, table, file, pending, entries, disk, maxEntries,
                   count, previous, intact>>

(* save_to_redis raises: the client sees 500, everything else stays.       *)
RedisError(routes) ==
    /\ running
    /\ pending = <<>>
    /\ underway' = underway \ {routes}
    /\ UNCHANGED <<running, table, file, stored, pending, entries, disk,
                   maxEntries, count, previous, intact>>

-----------------------------------------------------------------------------
Crash ==
    /\ running
    /\ running' = FALSE
    /\ pending' = <<>>
    /\ underway' = {}
    /\ intact' = (intact /\ pending = <<>>)
    /\ UNCHANGED <<table, file, stored, entries, disk, maxEntries, count, previous>>

(* load takes the hash, in any order, unless it is empty or Redis fails;   *)
(* RouteHistoryStore loads what the file kept.                             *)
Restart ==
    /\ ~running
    /\ running' = TRUE
    /\ table' \in {file} \union (IF stored = {} THEN {} ELSE SetToSeqs(stored))
    /\ entries' = disk
    /\ intact' = (intact /\ Routes(table') = Routes(table))
    /\ UNCHANGED <<file, stored, underway, pending, disk, maxEntries, count, previous>>

Request ==
    \/ \E r \in Route : Create(r) \/ \E id \in Id : Update(id, r)
    \/ \E id \in Id : Delete(id)
    \/ \E i \in DOMAIN entries : Rollback(i)

Next ==
    \/ Request
    \/ Logged
    \/ \E routes \in underway : Save(routes) \/ RedisError(routes)
    \/ Crash
    \/ Restart

Spec == Init /\ [][Next]_vars

(* The newest entries list_entries shows, in the order of the store.       *)
Listed(limit) ==
    LET most == IF limit < maxEntries THEN limit ELSE maxEntries
        bounded == IF most > 1 THEN most ELSE 1
    IN  SubSeq(entries, IF Len(entries) > bounded THEN Len(entries) - bounded + 1 ELSE 1,
               Len(entries))

-----------------------------------------------------------------------------
(* Properties.                                                             *)

Snapshot == {None} \union {{r} : r \in Route}
Entry == [no : 1..MaxChanges, before : Snapshot, after : Snapshot]

(* Tables hold routes; an entry has at most one route before and after the *)
(* change, and one at least; numbers grow; the file is no longer than      *)
(* max_entries allows (src/admin/history.py:32-64).                        *)
TypeOK ==
    /\ table \in Seq(Route) /\ file \in Seq(Route)
    /\ stored \subseteq Route
    /\ \A routes \in underway : routes \subseteq Route
    /\ \A log \in {pending, entries, disk} :
          /\ \A i \in DOMAIN log : log[i] \in Entry /\ log[i].before \union log[i].after # None
          /\ \A i, j \in DOMAIN log : i < j => log[i].no < log[j].no
    /\ maxEntries > 0 => Len(disk) <= maxEntries

(* No two routes of a table have one id, whatever was created, renamed,    *)
(* restored or reloaded: _find_route and update_route rely on it           *)
(* (src/gateway/config/loader.py:264-303, src/admin/app.py:206-210).       *)
UniqueIds ==
    \A t \in {table, file} : \A i, j \in DOMAIN t : t[i].id = t[j].id => i = j

(* The last change can always be rolled back, and that brings back exactly *)
(* the routes there were before it, were it a rename, a delete or itself a *)
(* rollback (rollback_route, src/admin/app.py:514-587).  The order is not  *)
(* promised: a deleted route comes back at the end.                        *)
UndoLast ==
    running /\ intact /\ pending = <<>> /\ entries # <<>> =>
        LET undone == Undone(entries[Len(entries)])
        IN  undone # {} /\ \A u \in undone : Routes(u.table) = previous

(* The history tells the truth: the last entry about an id says whether    *)
(* there is a route of that id and with what content (the before and after *)
(* every handler passes to append, src/admin/app.py:423-431, 467-475,      *)
(* 498-506, 573-581).                                                      *)
HistoryTells ==
    running /\ intact /\ pending = <<>> =>
        \A i \in DOMAIN entries : \A r \in entries[i].before \union entries[i].after :
            (\A j \in DOMAIN entries : j > i =>
                \A s \in entries[j].before \union entries[j].after : s.id # r.id)
            => Find(table, r.id) = {a \in entries[i].after : a.id = r.id}

(* What the console lists can be rolled back after a restart as well:      *)
(* every listed entry is in the file, for any limit and any max_entries    *)
(* (list_entries and _persist, src/admin/history.py:32-38, 66-68).         *)
ListedSurvives ==
    \A limit \in Limits : LET shown == Listed(limit) IN
        \A i \in DOMAIN shown : \E j \in DOMAIN disk : disk[j] = shown[i]
=============================================================================
