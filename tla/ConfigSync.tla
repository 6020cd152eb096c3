----------------------------- MODULE ConfigSync -----------------------------
(***************************************************************************)
(* How a route table travels from the Admin API to the gateways            *)
(* (src/admin/app.py, src/gateway/config/loader.py,                        *)
(* src/gateway/config/watcher.py, src/gateway/app.py).                     *)
(*                                                                         *)
(* A table exists in four places: routes.yaml, which admin and gateways    *)
(* share, the Redis hash oag:config:routes, the memory of every admin      *)
(* worker and the routing engine of every gateway worker.  A write handler *)
(* of the Admin API changes its worker's memory and the file, then the     *)
(* hash, then publishes a reload event; a gateway that hears of a change,  *)
(* from the event or by polling the file's mtime, reads the file again.    *)
(* Only a starting process reads the hash.                                 *)
(*                                                                         *)
(* A handler suspends at Redis commands alone; its truncate-and-write of   *)
(* the file blocks its own worker but not the other processes.             *)
(***************************************************************************)
EXTENDS Integers, FiniteSets

CONSTANTS
    Id,                 \* route ids
    Admin,              \* admin workers
    Handler,            \* admin requests that may be in flight together
    Gateway,            \* gateway workers
    QuietStart,         \* admin writes wait until every gateway is up
    MaxRequests,        \* bound on admin requests
    MaxErrors,          \* bound on Redis errors, lost events, dead listeners
    MaxAdminRestarts,   \* bound on admin worker restarts
    MaxGatewayRestarts  \* bound on gateway worker restarts

ASSUME SyncBounds == /\ QuietStart \in BOOLEAN
                     /\ MaxRequests \in Nat
                     /\ MaxErrors \in Nat
                     /\ MaxAdminRestarts \in Nat
                     /\ MaxGatewayRestarts \in Nat

VARIABLES
    file,       \* the table a reader of routes.yaml finds
    torn,       \* its text is cut short or mixed up: it may not parse
    disk,       \* the last table routes.yaml held complete
    store,      \* the hash oag:config:routes
    mem,        \* loader._routes of each admin worker
    pc,         \* what each handler does next
    worker,     \* the admin worker it runs in
    job,        \* the table it writes and the ids its request names
    phase,      \* of each gateway: "down", "loaded" or "up"
    engine,     \* its routing table
    seen,       \* its watcher has recorded the file's mtime
    listener,   \* its Pub/Sub listener: "off", "on" or "dead"
    pending,    \* reload events it has not handled
    requests, errors, adminRestarts, gatewayRestarts

data == <<file, torn, disk, store>>
admin == <<mem, pc, worker, job>>
gateway == <<phase, engine, seen, listener, pending>>
counters == <<requests, errors, adminRestarts, gatewayRestarts>>
vars == <<data, admin, gateway, counters>>

(***************************************************************************)
(* A table maps each id to the content of its route.  Content n + 1 is the *)
(* one the n-th request gave a route; the order of routes is abstracted.     *)
(***************************************************************************)
Absent == 0
Content == 1..(MaxRequests + 1)
Table == [Id -> Content \union {Absent}]
Empty == [i \in Id |-> Absent]

NoJob == [table |-> Empty, ids |-> {}]

\* What _load_routes returns: a table, or nothing when it raises.
Readings == {{file}} \union (IF torn THEN {{}} ELSE {})

\* What load() returns: the hash if it has any route, else, or when Redis
\* fails, the file.
Loads(failed) == IF store # Empty /\ ~failed THEN {{store}} ELSE Readings

RedisFails(failed) ==
    IF failed THEN errors < MaxErrors /\ errors' = errors + 1 ELSE UNCHANGED errors
-----------------------------------------------------------------------------
Init ==
    /\ file \in [Id -> {Absent, 1}]
    /\ torn = FALSE
    /\ disk = file
    /\ store \in {file, Empty}
    /\ mem = [a \in Admin |-> file]
    /\ pc = [h \in Handler |-> "idle"]
    /\ worker \in [Handler -> Admin]
    /\ job = [h \in Handler |-> NoJob]
    /\ phase = [g \in Gateway |-> "down"]
    /\ engine = [g \in Gateway |-> Empty]
    /\ seen = [g \in Gateway |-> FALSE]
    /\ listener = [g \in Gateway |-> "off"]
    /\ pending = [g \in Gateway |-> 0]
    /\ requests = 0 /\ errors = 0 /\ adminRestarts = 0 /\ gatewayRestarts = 0

\* Mutant: the file is written by an awaited call, without the lock.
Free_Awaited(a) == TRUE

\* The event loop of worker a is free to run a handler's next step.
Free(a) == \A h \in Handler : worker[h] = a => pc[h] # "write"

Finish(h) ==
    /\ pc' = [pc EXCEPT ![h] = "idle"]
    /\ job' = [job EXCEPT ![h] = NoJob]
    /\ UNCHANGED worker
-----------------------------------------------------------------------------
(***************************************************************************)
(* The handlers of the Admin API.                                          *)
(***************************************************************************)
\* A write handler validated its request against its worker's memory and
\* opens the file, which truncates it.  Both mtime and content change.
Open(h, a, table, ids) ==
    /\ pc[h] = "idle"
    /\ Free(a)
    /\ QuietStart => \A g \in Gateway : phase[g] = "up"
    /\ requests < MaxRequests
    /\ requests' = requests + 1
    /\ pc' = [pc EXCEPT ![h] = "write"]
    /\ worker' = [worker EXCEPT ![h] = a]
    /\ job' = [job EXCEPT ![h] = [table |-> table, ids |-> ids]]
    /\ file' = Empty
    /\ torn' = TRUE
    /\ seen' = [g \in Gateway |-> FALSE]
    /\ UNCHANGED <<disk, store, mem, phase, engine, listener, pending,
                   errors, adminRestarts, gatewayRestarts>>

NewContent == requests + 2

\* POST /api/v1/routes: an id that is taken is a conflict.
Create(h, a) ==
    \E i \in Id :
        /\ mem[a][i] = Absent
        /\ Open(h, a, [mem[a] EXCEPT ![i] = NewContent], {i})

\* Mutant: the check for a route that has the new id is dropped.
Update_Overwrites(h, a) ==
    \E i, j \in Id :
        /\ mem[a][i] # Absent
        /\ Open(h, a, [mem[a] EXCEPT ![i] = Absent, ![j] = NewContent], {i, j})

\* PUT /api/v1/routes/{id}: the new route may carry another id, unless that
\* one is taken.
Update(h, a) ==
    \E i, j \in Id :
        /\ mem[a][i] # Absent
        /\ i # j => mem[a][j] = Absent
        /\ Open(h, a, [mem[a] EXCEPT ![i] = Absent, ![j] = NewContent], {i, j})

\* DELETE /api/v1/routes/{id}
Delete(h, a) ==
    \E i \in Id :
        /\ mem[a][i] # Absent
        /\ Open(h, a, [mem[a] EXCEPT ![i] = Absent], {i})

\* The rest of the handler's first stretch: the file is written, memory and
\* routing table follow, and save_to_redis queues its pipeline.  Where another
\* worker wrote since this handler truncated the file, the longer text's end
\* may survive.
Write(h) ==
    /\ pc[h] = "write"
    /\ pc' = [pc EXCEPT ![h] = "execute"]
    /\ file' = job[h].table
    /\ torn' \in IF torn THEN {FALSE} ELSE BOOLEAN
    /\ disk' = IF torn' THEN disk ELSE job[h].table
    /\ mem' = [mem EXCEPT ![worker[h]] = job[h].table]
    /\ seen' = [g \in Gateway |-> FALSE]
    /\ UNCHANGED <<store, worker, job, phase, engine, listener, pending, counters>>

\* POST /api/v1/reload: memory follows the file, and the hash follows memory.
Reload(h, a) ==
    /\ pc[h] = "idle"
    /\ Free(a)
    /\ \E r \in Readings : \E table \in r :
         /\ mem' = [mem EXCEPT ![a] = table]
         /\ job' = [job EXCEPT ![h] = [table |-> table, ids |-> {}]]
    /\ requests < MaxRequests
    /\ requests' = requests + 1
    /\ pc' = [pc EXCEPT ![h] = "execute"]
    /\ worker' = [worker EXCEPT ![h] = a]
    /\ UNCHANGED <<data, gateway, errors, adminRestarts, gatewayRestarts>>

\* Mutant: the pipeline does not delete the old hash first.
Execute_Merges(h) ==
    /\ pc[h] = "execute"
    /\ Free(worker[h])
    /\ LET new == job[h].table
       IN  store' = [i \in Id |-> IF new[i] = Absent THEN store[i] ELSE new[i]]
    /\ pc' = [pc EXCEPT ![h] = "publish"]
    /\ UNCHANGED <<file, torn, disk, mem, worker, job, gateway, counters>>

\* MULTI, DEL, HSET..., EXEC on the handler's own pooled connection: those of
\* two handlers may reach Redis in either order.
Execute(h) ==
    /\ pc[h] = "execute"
    /\ Free(worker[h])
    /\ store' = job[h].table
    /\ pc' = [pc EXCEPT ![h] = "publish"]
    /\ UNCHANGED <<file, torn, disk, mem, worker, job, gateway, counters>>

\* Every listener that is subscribed gets the event.
Publish(h) ==
    /\ pc[h] = "publish"
    /\ Free(worker[h])
    /\ pending' = [g \in Gateway |->
                     IF listener[g] = "on" THEN pending[g] + 1 ELSE pending[g]]
    /\ Finish(h)
    /\ UNCHANGED <<data, mem, phase, engine, seen, listener, counters>>

\* A Redis error answers 500 from save_to_redis and is swallowed by
\* _publish_reload_event: file and memory keep the change either way.
RedisError(h) ==
    /\ pc[h] \in {"execute", "publish"}
    /\ Free(worker[h])
    /\ errors < MaxErrors
    /\ errors' = errors + 1
    /\ store' = store \/ (pc[h] = "execute" /\ store' = job[h].table)
    /\ Finish(h)
    /\ UNCHANGED <<file, torn, disk, mem, gateway,
                   requests, adminRestarts, gatewayRestarts>>

\* An admin worker dies with its handlers and loads its memory anew.  A file
\* it was writing stays truncated.
AdminRestart(a) ==
    LET mine == {h \in Handler : worker[h] = a}
    IN  /\ adminRestarts < MaxAdminRestarts
        /\ adminRestarts' = adminRestarts + 1
        /\ \E failed \in BOOLEAN :
             /\ RedisFails(failed)
             /\ \E r \in Loads(failed) : \E table \in r :
                  mem' = [mem EXCEPT ![a] = table]
        /\ pc' = [h \in Handler |-> IF h \in mine THEN "idle" ELSE pc[h]]
        /\ job' = [h \in Handler |-> IF h \in mine THEN NoJob ELSE job[h]]
        /\ UNCHANGED <<data, worker, gateway, requests, gatewayRestarts>>
-----------------------------------------------------------------------------
(***************************************************************************)
(* The life of a gateway worker.                                           *)
(***************************************************************************)
\* Startup loads the table and serves it.
Load(g) ==
    /\ phase[g] = "down"
    /\ \E failed \in BOOLEAN :
         /\ RedisFails(failed)
         /\ \E r \in Loads(failed) : \E table \in r : engine' = [engine EXCEPT ![g] = table]
    /\ phase' = [phase EXCEPT ![g] = "loaded"]
    /\ UNCHANGED <<data, admin, seen, listener, pending,
                   requests, adminRestarts, gatewayRestarts>>

\* The watcher takes the mtime it finds for that of the table it has.
StartWatcher(g) ==
    /\ phase[g] = "loaded"
    /\ phase' = [phase EXCEPT ![g] = "up"]
    /\ seen' = [seen EXCEPT ![g] = TRUE]
    /\ UNCHANGED <<data, admin, engine, listener, pending, counters>>

\* The listener task runs after startup; events before it are not for it.
Subscribe(g) ==
    /\ phase[g] = "up"
    /\ listener[g] = "off"
    /\ listener' = [listener EXCEPT ![g] = "on"]
    /\ UNCHANGED <<data, admin, phase, engine, seen, pending, counters>>

\* _on_config_changed: reload the file, then update_routes, with no
\* suspension in between.
OnConfigChanged(g, reading) ==
    engine' = [engine EXCEPT ![g] = IF reading = {} THEN @ ELSE CHOOSE t \in reading : TRUE]

\* Mutant: events of every type count as reload messages.
HandleEvent_AnyType(g) ==
    /\ listener[g] = "on"
    /\ \E r \in Readings :
         /\ OnConfigChanged(g, r)
         /\ listener' = [listener EXCEPT ![g] = IF r = {} THEN "dead" ELSE "on"]
         /\ pending' = [pending EXCEPT ![g] = IF r = {} THEN 0 ELSE @ - 1]
    /\ UNCHANGED <<data, admin, phase, seen, counters>>

\* A reload event.  The listener catches CancelledError alone: a file it
\* cannot parse ends it for good.
HandleEvent(g) ==
    /\ listener[g] = "on"
    /\ pending[g] > 0
    /\ \E r \in Readings :
         /\ OnConfigChanged(g, r)
         /\ listener' = [listener EXCEPT ![g] = IF r = {} THEN "dead" ELSE "on"]
         /\ pending' = [pending EXCEPT ![g] = IF r = {} THEN 0 ELSE @ - 1]
    /\ UNCHANGED <<data, admin, phase, seen, counters>>

\* Mutant: the watcher leaves the reload to a listener that is alive.
Poll_TrustsListener(g) ==
    /\ phase[g] = "up"
    /\ ~seen[g]
    /\ seen' = [seen EXCEPT ![g] = TRUE]
    /\ \E r \in Readings :
         IF listener[g] = "on" THEN UNCHANGED engine ELSE OnConfigChanged(g, r)
    /\ UNCHANGED <<data, admin, phase, listener, pending, counters>>

\* The watcher finds another mtime than it recorded: it records it, reloads
\* and survives a file it cannot parse.
Poll(g) ==
    /\ phase[g] = "up"
    /\ ~seen[g]
    /\ seen' = [seen EXCEPT ![g] = TRUE]
    /\ \E r \in Readings : OnConfigChanged(g, r)
    /\ UNCHANGED <<data, admin, phase, listener, pending, counters>>

\* POST /_reload, by hand: the same reload at any time.
ReloadGateway(g) ==
    /\ phase[g] = "up"
    /\ \E r \in Readings : OnConfigChanged(g, r)
    /\ UNCHANGED <<data, admin, phase, seen, listener, pending, counters>>

\* The connection of the listener breaks: nothing restarts the task.
ListenerDies(g) ==
    /\ listener[g] = "on"
    /\ errors < MaxErrors
    /\ errors' = errors + 1
    /\ listener' = [listener EXCEPT ![g] = "dead"]
    /\ pending' = [pending EXCEPT ![g] = 0]
    /\ UNCHANGED <<data, admin, phase, engine, seen,
                   requests, adminRestarts, gatewayRestarts>>

\* A gateway worker dies, to be started again.
GatewayRestart(g) ==
    /\ phase[g] # "down"
    /\ gatewayRestarts < MaxGatewayRestarts
    /\ gatewayRestarts' = gatewayRestarts + 1
    /\ phase' = [phase EXCEPT ![g] = "down"]
    /\ engine' = [engine EXCEPT ![g] = Empty]
    /\ listener' = [listener EXCEPT ![g] = "off"]
    /\ pending' = [pending EXCEPT ![g] = 0]
    /\ seen' = [seen EXCEPT ![g] = FALSE]
    /\ UNCHANGED <<data, admin, requests, errors, adminRestarts>>
-----------------------------------------------------------------------------
Request(h) ==
    \E a \in Admin : Create(h, a) \/ Update(h, a) \/ Delete(h, a) \/ Reload(h, a)

Proceed(h) == Write(h) \/ Execute(h) \/ Publish(h)

Run(g) ==
    \/ Load(g) \/ StartWatcher(g) \/ Subscribe(g)
    \/ HandleEvent(g) \/ Poll(g)

Next ==
    \/ \E h \in Handler : Request(h) \/ Proceed(h) \/ RedisError(h)
    \/ \E a \in Admin : AdminRestart(a)
    \/ \E g \in Gateway : Run(g) \/ ReloadGateway(g) \/ ListenerDies(g) \/ GatewayRestart(g)

Spec == Init /\ [][Next]_vars

\* Handlers run on, and so do a gateway's startup, watcher and listener.
\* Nobody has to write or to restart anything.
Fairness ==
    /\ \A h \in Handler : WF_vars(Proceed(h))
    /\ \A g \in Gateway :
         /\ WF_vars(Load(g)) /\ WF_vars(StartWatcher(g)) /\ WF_vars(Subscribe(g))
         /\ WF_vars(HandleEvent(g)) /\ WF_vars(Poll(g))

FairSpec == Spec /\ Fairness
-----------------------------------------------------------------------------
(***************************************************************************)
(* Properties.                                                             *)
(***************************************************************************)
DataOK ==
    /\ file \in Table /\ disk \in Table /\ store \in Table
    /\ torn \in BOOLEAN

AdminOK ==
    /\ mem \in [Admin -> Table]
    /\ pc \in [Handler -> {"idle", "write", "execute", "publish"}]
    /\ worker \in [Handler -> Admin]
    /\ job \in [Handler -> [table : Table, ids : SUBSET Id]]

GatewayOK ==
    /\ phase \in [Gateway -> {"down", "loaded", "up"}]
    /\ engine \in [Gateway -> Table]
    /\ seen \in [Gateway -> BOOLEAN]
    /\ listener \in [Gateway -> {"off", "on", "dead"}]
    /\ pending \in [Gateway -> Nat]

CountersOK ==
    /\ requests \in 0..MaxRequests
    /\ errors \in 0..MaxErrors
    /\ adminRestarts \in 0..MaxAdminRestarts
    /\ gatewayRestarts \in 0..MaxGatewayRestarts

\* Types of the variables.
TypeOK == DataOK /\ AdminOK /\ GatewayOK /\ CountersOK

\* A write of the Admin API changes no route but those its request names:
\* no other administrator's change is lost with it (loader.py:264-296).
NoLostUpdate ==
    [][\A h \in Handler : pc[h] = "write" /\ pc'[h] = "execute" =>
         \A i \in Id \ job[h].ids : disk'[i] = disk[i]]_vars

\* The table of the file evolves as the route table the Admin API promises.
Promise == INSTANCE RouteTable WITH table <- disk
ImplementsRouteTable == Promise!Spec

\* A gateway whose watcher has nothing to catch up with serves the table of
\* the file, if the file is whole: no mtime is recorded for a table that was
\* not read, whichever writes overlap, whatever events come late and whether
\* the listener lives (watcher.py:53-75).  It needs a gateway that starts while
\* nobody writes: one that starts meanwhile may read a hash that lags behind.
Settled ==
    QuietStart /\ gatewayRestarts = 0 =>
      \A g \in Gateway : phase[g] = "up" /\ seen[g] /\ ~torn => engine[g] = file

\* Once the administrators are done every running gateway serves the table
\* they left, whatever events were lost and whichever worker died on the way
\* (README.md:23), unless the last write was cut short.
Converges ==
    <>[](~torn => \A g \in Gateway : phase[g] = "up" => engine[g] = file)
=============================================================================
