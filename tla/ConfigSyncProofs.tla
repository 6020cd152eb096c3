--------------------------- MODULE ConfigSyncProofs ---------------------------
(***************************************************************************)
(* Theorems about ConfigSync, for every set of ids, workers and requests.  *)
(***************************************************************************)
EXTENDS ConfigSync, TLAPS

-----------------------------------------------------------------------------
(***************************************************************************)
(* Type correctness.                                                       *)
(***************************************************************************)
\* What a reader of the file or a starting process gets is a table.
LEMMA ReadingTypes ==
    ASSUME DataOK
    PROVE  /\ \A r \in Readings : \A t \in r : t \in Table
           /\ \A failed : \A r \in Loads(failed) : \A t \in r : t \in Table
  BY DEF DataOK, Readings, Loads

\* A failed load is counted.
LEMMA FailTypes ==
    ASSUME CountersOK, NEW failed \in BOOLEAN, RedisFails(failed)
    PROVE  errors' \in 0..MaxErrors
  BY SyncBounds DEF CountersOK, RedisFails

LEMMA EmptyTable == Empty \in Table
  BY DEF Empty, Table

\* A gateway that reloads serves a table.
LEMMA ChangeTypes ==
    ASSUME DataOK, engine \in [Gateway -> Table],
           NEW g \in Gateway, NEW r \in Readings, OnConfigChanged(g, r)
    PROVE  engine' \in [Gateway -> Table]
  <1>1. r # {} => (CHOOSE t \in r : TRUE) \in r
    OBVIOUS
  <1>2. (IF r = {} THEN engine[g] ELSE CHOOSE t \in r : TRUE) \in Table
    BY <1>1, ReadingTypes
  <1>. QED  BY <1>2 DEF OnConfigChanged

\* A request keeps every type if the table it writes is one.
LEMMA OpenTypes ==
    ASSUME TypeOK, NEW h \in Handler, NEW a \in Admin, NEW t \in Table,
           NEW ids \in SUBSET Id, Open(h, a, t, ids)
    PROVE  TypeOK'
  <1> USE DEF TypeOK, Open
  <1>1. DataOK'
    BY EmptyTable DEF DataOK
  <1>2. AdminOK'
    BY DEF AdminOK
  <1>3. GatewayOK'
    BY DEF GatewayOK
  <1>4. CountersOK'
    BY SyncBounds DEF CountersOK
  <1>. QED  BY <1>1, <1>2, <1>3, <1>4

\* The tables requests write.
LEMMA WrittenTables ==
    ASSUME TypeOK, NEW a \in Admin, NEW i \in Id, NEW j \in Id,
           requests < MaxRequests
    PROVE  /\ NewContent \in Content
           /\ [mem[a] EXCEPT ![i] = NewContent] \in Table
           /\ [mem[a] EXCEPT ![i] = Absent] \in Table
           /\ [mem[a] EXCEPT ![i] = Absent, ![j] = NewContent] \in Table
  <1>1. mem[a] \in [Id -> Content \union {Absent}]
    BY DEF TypeOK, AdminOK, Table
  <1>2. NewContent \in Content
    BY SyncBounds DEF NewContent, Content, TypeOK, CountersOK
  <1>. QED  BY <1>1, <1>2 DEF Table

LEMMA RequestTypes ==
    ASSUME TypeOK, NEW h \in Handler, Request(h)
    PROVE  TypeOK'
  <1> PICK a \in Admin : Create(h, a) \/ Update(h, a) \/ Delete(h, a) \/ Reload(h, a)
    BY DEF Request
  <1>1. CASE Create(h, a)
    <2> PICK i \in Id : Open(h, a, [mem[a] EXCEPT ![i] = NewContent], {i})
      BY <1>1 DEF Create
    <2>. QED  BY WrittenTables, OpenTypes DEF Open
  <1>2. CASE Update(h, a)
    <2> PICK i \in Id, j \in Id :
          Open(h, a, [mem[a] EXCEPT ![i] = Absent, ![j] = NewContent], {i, j})
      BY <1>2 DEF Update
    <2>. QED  BY WrittenTables, OpenTypes DEF Open
  <1>3. CASE Delete(h, a)
    <2> PICK i \in Id : Open(h, a, [mem[a] EXCEPT ![i] = Absent], {i})
      BY <1>3 DEF Delete
    <2>. QED  BY WrittenTables, OpenTypes DEF Open
  <1>4. CASE Reload(h, a)
    <2> USE <1>4 DEF Reload, TypeOK
    <2>1. AdminOK'
      BY ReadingTypes DEF AdminOK
    <2>2. CountersOK'
      BY SyncBounds DEF CountersOK
    <2>. QED  BY <2>1, <2>2 DEF DataOK, GatewayOK, data, gateway
  <1>. QED  BY <1>1, <1>2, <1>3, <1>4

LEMMA FinishTypes ==
    ASSUME AdminOK, NEW h \in Handler, Finish(h), UNCHANGED mem
    PROVE  AdminOK'
  BY EmptyTable DEF AdminOK, Finish, NoJob

\* The later steps of a handler keep every type.
LEMMA HandlerTypes ==
    ASSUME TypeOK, NEW h \in Handler, Proceed(h) \/ RedisError(h)
    PROVE  TypeOK'
  <1> USE DEF TypeOK
  <1>0. job[h].table \in Table
    BY DEF AdminOK
  <1>1. CASE Write(h)
    <2>1. DataOK'
      BY <1>0, <1>1 DEF Write, DataOK
    <2>2. AdminOK'
      BY <1>0, <1>1 DEF Write, AdminOK
    <2>3. GatewayOK'
      BY <1>1 DEF Write, GatewayOK
    <2>. QED  BY <1>1, <2>1, <2>2, <2>3 DEF Write, CountersOK, counters
  <1>2. CASE Execute(h)
    BY <1>0, <1>2 DEF Execute, DataOK, AdminOK, GatewayOK, CountersOK, gateway, counters
  <1>3. CASE Publish(h)
    <2>1. GatewayOK'
      BY <1>3 DEF Publish, GatewayOK
    <2>. QED  BY <1>3, <2>1, FinishTypes DEF Publish, DataOK, CountersOK, data, counters
  <1>4. CASE RedisError(h)
    BY <1>0, <1>4, FinishTypes, SyncBounds
       DEF RedisError, DataOK, GatewayOK, CountersOK, gateway
  <1>. QED  BY <1>1, <1>2, <1>3, <1>4 DEF Proceed

LEMMA AdminRestartTypes ==
    ASSUME TypeOK, NEW a \in Admin, AdminRestart(a)
    PROVE  TypeOK'
  <1> USE DEF TypeOK, AdminRestart
  <1>1. mem' \in [Admin -> Table]
    BY ReadingTypes DEF AdminOK
  <1>2. AdminOK'
    BY <1>1, EmptyTable DEF AdminOK, NoJob
  <1>3. CountersOK'
    BY FailTypes, SyncBounds DEF CountersOK
  <1>. QED
    BY <1>2, <1>3 DEF DataOK, GatewayOK, data, gateway

\* Every step of a gateway worker keeps every type.
LEMMA GatewayTypes ==
    ASSUME TypeOK, NEW g \in Gateway, Run(g) \/ ReloadGateway(g) \/ ListenerDies(g) \/ GatewayRestart(g)
    PROVE  TypeOK'
  <1> USE DEF TypeOK
  <1>1. CASE Load(g)
    <2>1. engine' \in [Gateway -> Table]
      BY <1>1, ReadingTypes DEF Load, GatewayOK
    <2>2. CountersOK'
      BY <1>1, FailTypes DEF Load, CountersOK
    <2>. QED  BY <1>1, <2>1, <2>2 DEF Load, GatewayOK, DataOK, AdminOK, data, admin
  <1>2. CASE StartWatcher(g)
    BY <1>2 DEF StartWatcher, GatewayOK, DataOK, AdminOK, CountersOK, data, admin, counters
  <1>3. CASE Subscribe(g)
    BY <1>3 DEF Subscribe, GatewayOK, DataOK, AdminOK, CountersOK, data, admin, counters
  <1>4. CASE HandleEvent(g)
    <2>1. engine' \in [Gateway -> Table]
      BY <1>4, ChangeTypes DEF HandleEvent, GatewayOK
    <2>2. pending' \in [Gateway -> Nat]
      BY <1>4 DEF HandleEvent, GatewayOK
    <2>. QED
      BY <1>4, <2>1, <2>2
         DEF HandleEvent, GatewayOK, DataOK, AdminOK, CountersOK, data, admin, counters
  <1>5. CASE Poll(g)
    <2>1. engine' \in [Gateway -> Table]
      BY <1>5, ChangeTypes DEF Poll, GatewayOK
    <2>. QED
      BY <1>5, <2>1 DEF Poll, GatewayOK, DataOK, AdminOK, CountersOK, data, admin, counters
  <1>6. CASE ListenerDies(g)
    BY <1>6, SyncBounds DEF ListenerDies, GatewayOK, DataOK, AdminOK, CountersOK, data, admin
  <1>7. CASE GatewayRestart(g)
    BY <1>7, SyncBounds, EmptyTable
       DEF GatewayRestart, GatewayOK, DataOK, AdminOK, CountersOK, data, admin
  <1>8. CASE ReloadGateway(g)
    <2>1. engine' \in [Gateway -> Table]
      BY <1>8, ChangeTypes DEF ReloadGateway, GatewayOK
    <2>. QED
      BY <1>8, <2>1
         DEF ReloadGateway, GatewayOK, DataOK, AdminOK, CountersOK, data, admin, counters
  <1>. QED  BY <1>1, <1>2, <1>3, <1>4, <1>5, <1>6, <1>7, <1>8 DEF Run

LEMMA NextTypes ==
    TypeOK /\ [Next]_vars => TypeOK'
  <1> SUFFICES ASSUME TypeOK, [Next]_vars PROVE TypeOK'
    OBVIOUS
  <1>1. CASE UNCHANGED vars
    BY <1>1 DEF TypeOK, DataOK, AdminOK, GatewayOK, CountersOK,
                vars, data, admin, gateway, counters
  <1>. QED
    BY <1>1, RequestTypes, HandlerTypes, AdminRestartTypes, GatewayTypes DEF Next

\* The file, the hash and every process hold route tables, whatever raced,
\* failed or restarted.
THEOREM SyncTypeCorrect == Spec => []TypeOK
  <1>1. Init => TypeOK
    <2> SUFFICES ASSUME Init PROVE TypeOK
      OBVIOUS
    <2>1. file \in Table /\ Empty \in Table
      BY EmptyTable, SyncBounds DEF Init, Table, Content
    <2>2. DataOK
      BY <2>1 DEF Init, DataOK
    <2>3. AdminOK
      BY <2>1 DEF Init, AdminOK, NoJob
    <2>4. GatewayOK
      BY <2>1 DEF Init, GatewayOK
    <2>. QED  BY <2>2, <2>3, <2>4, SyncBounds DEF Init, TypeOK, CountersOK
  <1>. QED  BY <1>1, NextTypes, PTL DEF Spec

-----------------------------------------------------------------------------
(***************************************************************************)
(* One admin worker that never dies: its event loop serialises the writes, *)
(* so its memory is the table of the file whenever a handler reads it.     *)
(***************************************************************************)
\* t is the table a write request may make of d.
Written(d, t) ==
    \E i \in Id :
        \/ \E c \in Content : d[i] = Absent /\ t = [d EXCEPT ![i] = c]
        \/ \E j \in Id, c \in Content :
             /\ d[i] # Absent
             /\ i # j => d[j] = Absent
             /\ t = [d EXCEPT ![i] = Absent, ![j] = c]
        \/ d[i] # Absent /\ t = [d EXCEPT ![i] = Absent]

Writer(h) == pc[h] = "write"

OneWriter == \A h, k \in Handler : Writer(h) /\ Writer(k) => h = k

MemoryCurrent == \A a \in Admin : mem[a] = disk

FileWhole == IF \E h \in Handler : Writer(h) THEN torn ELSE ~torn /\ file = disk

WritesLegal ==
    \A h \in Handler : Writer(h) =>
        /\ Written(disk, job[h].table)
        /\ \A i \in Id \ job[h].ids : job[h].table[i] = disk[i]

SerialInv == OneWriter /\ MemoryCurrent /\ FileWhole /\ WritesLegal

OneWorker == (\A a, b \in Admin : a = b) /\ MaxAdminRestarts = 0

\* A write request opens the file with a legal table and starts from the
\* file's own.
LEMMA OpenSerial ==
    ASSUME OneWorker, TypeOK, SerialInv, NEW h \in Handler, NEW a \in Admin,
           NEW t \in Table, NEW ids \in SUBSET Id, Open(h, a, t, ids),
           Written(mem[a], t), \A i \in Id \ ids : t[i] = mem[a][i]
    PROVE  SerialInv'
  <1>1. \A k \in Handler : ~Writer(k)
    BY DEF OneWorker, Open, Free, Writer, TypeOK, AdminOK
  <1>2. \A k \in Handler : pc'[k] = IF k = h THEN "write" ELSE pc[k]
    BY DEF Open, TypeOK, AdminOK
  <1>3. job'[h] = [table |-> t, ids |-> ids]
    BY DEF Open, TypeOK, AdminOK
  <1>4. disk' = disk /\ mem' = mem /\ torn'
    BY DEF Open
  <1>5. OneWriter'
    BY <1>1, <1>2 DEF OneWriter, Writer
  <1>6. MemoryCurrent'
    BY <1>4 DEF SerialInv, MemoryCurrent
  <1>7. FileWhole'
    BY <1>2, <1>4 DEF FileWhole, Writer
  <1>8. WritesLegal'
    <2> SUFFICES ASSUME NEW k \in Handler, Writer(k)'
                 PROVE  /\ Written(disk', job'[k].table)
                        /\ \A i \in Id \ job'[k].ids : job'[k].table[i] = disk'[i]
      BY DEF WritesLegal
    <2>1. k = h
      BY <1>1, <1>2 DEF Writer
    <2>2. mem[a] = disk
      BY DEF SerialInv, MemoryCurrent
    <2>. QED  BY <1>3, <1>4, <2>1, <2>2
  <1>. QED  BY <1>5, <1>6, <1>7, <1>8 DEF SerialInv

\* While no handler writes, memory, file and the last whole table are one.
LEMMA RequestSerial ==
    ASSUME OneWorker, TypeOK, SerialInv, NEW h \in Handler, Request(h)
    PROVE  SerialInv' /\ disk' = disk
  <1> PICK a \in Admin : Create(h, a) \/ Update(h, a) \/ Delete(h, a) \/ Reload(h, a)
    BY DEF Request
  <1>0. mem[a] \in [Id -> Content \union {Absent}]
    BY DEF TypeOK, AdminOK, Table
  <1>1. CASE Create(h, a)
    <2> PICK i \in Id : /\ mem[a][i] = Absent
                        /\ Open(h, a, [mem[a] EXCEPT ![i] = NewContent], {i})
      BY <1>1 DEF Create
    <2> DEFINE t == [mem[a] EXCEPT ![i] = NewContent]
    <2>1. t \in Table /\ NewContent \in Content
      BY WrittenTables DEF Open
    <2>2. Written(mem[a], t)
      BY <2>1 DEF Written
    <2>3. \A k \in Id \ {i} : t[k] = mem[a][k]
      BY <1>0
    <2>4. Open(h, a, t, {i})
      OBVIOUS
    <2> HIDE DEF t
    <2>5. SerialInv'
      BY <2>1, <2>2, <2>3, <2>4, OpenSerial
    <2>. QED  BY <2>4, <2>5 DEF Open
  <1>2. CASE Update(h, a)
    <2> PICK i \in Id, j \in Id :
          /\ mem[a][i] # Absent
          /\ i # j => mem[a][j] = Absent
          /\ Open(h, a, [mem[a] EXCEPT ![i] = Absent, ![j] = NewContent], {i, j})
      BY <1>2 DEF Update
    <2> DEFINE t == [mem[a] EXCEPT ![i] = Absent, ![j] = NewContent]
    <2>1. t \in Table /\ NewContent \in Content
      BY WrittenTables DEF Open
    <2>2. Written(mem[a], t)
      BY <2>1 DEF Written
    <2>3. \A k \in Id \ {i, j} : t[k] = mem[a][k]
      BY <1>0
    <2>4. Open(h, a, t, {i, j})
      OBVIOUS
    <2> HIDE DEF t
    <2>5. SerialInv'
      BY <2>1, <2>2, <2>3, <2>4, OpenSerial
    <2>. QED  BY <2>4, <2>5 DEF Open
  <1>3. CASE Delete(h, a)
    <2> PICK i \in Id : /\ mem[a][i] # Absent
                        /\ Open(h, a, [mem[a] EXCEPT ![i] = Absent], {i})
      BY <1>3 DEF Delete
    <2> DEFINE t == [mem[a] EXCEPT ![i] = Absent]
    <2>1. t \in Table
      BY WrittenTables DEF Open
    <2>2. Written(mem[a], t)
      BY DEF Written
    <2>3. \A k \in Id \ {i} : t[k] = mem[a][k]
      BY <1>0
    <2>4. Open(h, a, t, {i})
      OBVIOUS
    <2> HIDE DEF t
    <2>5. SerialInv'
      BY <2>1, <2>2, <2>3, <2>4, OpenSerial
    <2>. QED  BY <2>4, <2>5 DEF Open
  <1>4. CASE Reload(h, a)
    <2>1. \A k \in Handler : ~Writer(k)
      BY <1>4 DEF OneWorker, Reload, Free, Writer, TypeOK, AdminOK
    <2>2. ~torn /\ file = disk
      BY <2>1 DEF SerialInv, FileWhole
    <2>3. mem' = [mem EXCEPT ![a] = disk]
      BY <1>4, <2>2 DEF Reload, Readings
    <2>4. \A k \in Handler : ~Writer(k)'
      BY <1>4, <2>1 DEF Reload, Writer, TypeOK, AdminOK
    <2>5. UNCHANGED <<file, torn, disk>>
      BY <1>4 DEF Reload, data
    <2>6. MemoryCurrent'
      BY <2>3, <2>5 DEF SerialInv, MemoryCurrent, TypeOK, AdminOK
    <2>. QED
      BY <2>2, <2>4, <2>5, <2>6 DEF SerialInv, OneWriter, FileWhole, WritesLegal
  <1>. QED  BY <1>1, <1>2, <1>3, <1>4

\* A write leaves the table its handler was to write.
LEMMA WriteSerial ==
    ASSUME OneWorker, TypeOK, SerialInv, NEW h \in Handler, Write(h)
    PROVE  SerialInv' /\ disk' = job[h].table
  <1>1. torn
    BY DEF Write, SerialInv, FileWhole, Writer
  <1>2. torn' = FALSE /\ file' = job[h].table /\ disk' = job[h].table
    BY <1>1 DEF Write
  <1>3. \A k \in Handler : ~Writer(k)'
    BY DEF Write, SerialInv, OneWriter, Writer, TypeOK, AdminOK
  <1>4. MemoryCurrent'
    BY <1>2 DEF Write, OneWorker, MemoryCurrent, TypeOK, AdminOK
  <1>. QED  BY <1>2, <1>3, <1>4 DEF SerialInv, OneWriter, FileWhole, WritesLegal

\* Nothing else changes the file, the memory or who writes.
LEMMA OtherSerial ==
    ASSUME OneWorker, TypeOK, SerialInv, [Next]_vars,
           ~ \E h \in Handler : Request(h) \/ Write(h)
    PROVE  SerialInv' /\ disk' = disk
  <1> DEFINE Same == /\ UNCHANGED <<file, torn, disk, mem>>
                     /\ \A k \in Handler : Writer(k)' <=> Writer(k)
                     /\ \A k \in Handler : Writer(k) => job'[k] = job[k]
  <1>1. ASSUME NEW h \in Handler, Execute(h) \/ Publish(h) \/ RedisError(h)
        PROVE  Same
    BY <1>1 DEF Execute, Publish, RedisError, Finish, Writer, TypeOK, AdminOK, data
  <1>2. ASSUME NEW a \in Admin PROVE ~AdminRestart(a)
    BY DEF AdminRestart, OneWorker, TypeOK, CountersOK
  <1>3. ASSUME NEW g \in Gateway, Run(g) \/ ReloadGateway(g) \/ ListenerDies(g) \/ GatewayRestart(g)
        PROVE  Same
    BY <1>3 DEF Run, Load, StartWatcher, Subscribe, HandleEvent, Poll,
                ReloadGateway, ListenerDies, GatewayRestart, data, admin, Writer
  <1>4. ASSUME UNCHANGED vars PROVE Same
    BY <1>4 DEF vars, data, admin, Writer
  <1>5. Same
    <2> HIDE DEF Same
    <2>. QED  BY <1>1, <1>2, <1>3, <1>4 DEF Next, Proceed
  <1>. QED
    BY <1>5 DEF SerialInv, OneWriter, MemoryCurrent, FileWhole, WritesLegal

LEMMA InitSerial == Init => SerialInv
  BY DEF Init, SerialInv, OneWriter, MemoryCurrent, FileWhole, WritesLegal, Writer

LEMMA NextSerial ==
    ASSUME OneWorker
    PROVE  TypeOK /\ SerialInv /\ [Next]_vars => SerialInv'
  BY RequestSerial, WriteSerial, OtherSerial DEF Next

\* With one admin worker that never dies, no administrator's change is lost
\* to another one's, however many requests are in flight.
THEOREM NoUpdateLost ==
    ASSUME OneWorker
    PROVE  Spec => NoLostUpdate
  <1>1. TypeOK /\ SerialInv /\ [Next]_vars
        => [\A h \in Handler : pc[h] = "write" /\ pc'[h] = "execute" =>
              \A i \in Id \ job[h].ids : disk'[i] = disk[i]]_vars
    <2> SUFFICES ASSUME TypeOK, SerialInv, [Next]_vars, NEW h \in Handler,
                        pc[h] = "write", pc'[h] = "execute",
                        NEW i \in Id \ job[h].ids
                 PROVE  disk'[i] = disk[i]
      OBVIOUS
    <2>1. CASE Write(h)
      BY <2>1, WriteSerial DEF SerialInv, WritesLegal, Writer
    <2>2. ASSUME NEW k \in Handler, Write(k), k # h PROVE FALSE
      BY <2>2 DEF SerialInv, OneWriter, Writer, Write
    <2>3. CASE \A k \in Handler : ~Write(k)
      BY <2>3, RequestSerial, OtherSerial
    <2>. QED  BY <2>1, <2>2, <2>3
  <1>. QED
    BY <1>1, InitSerial, NextSerial, SyncTypeCorrect, PTL DEF Spec, NoLostUpdate

\* With one admin worker that never dies, the table of the file evolves as the
\* abstract route table: every write is one Create, Update or Delete of it.
THEOREM Refinement ==
    ASSUME OneWorker
    PROVE  Spec => ImplementsRouteTable
  <1>1. TypeOK => disk \in [Id -> Content \union {Absent}]
    BY DEF TypeOK, DataOK, Table
  <1>2. Init => Promise!Init
    BY SyncBounds DEF Init, Promise!Init, Content, Absent
  <1>3. TypeOK /\ SerialInv /\ [Next]_vars => [Promise!Next]_disk
    <2> SUFFICES ASSUME TypeOK, SerialInv, [Next]_vars PROVE [Promise!Next]_disk
      OBVIOUS
    <2>1. ASSUME NEW h \in Handler, Write(h) PROVE Promise!Next
      <3>1. Written(disk, disk')
        BY <2>1, WriteSerial DEF Write, SerialInv, WritesLegal, Writer
      <3>. QED
        BY <3>1 DEF Written, Promise!Next, Promise!Create, Promise!Update, Promise!Delete
    <2>2. CASE ~ \E h \in Handler : Write(h)
      BY <2>2, RequestSerial, OtherSerial
    <2>. QED  BY <2>1, <2>2
  <1>. QED
    BY <1>2, <1>3, InitSerial, NextSerial, SyncTypeCorrect, PTL
       DEF Spec, ImplementsRouteTable, Promise!Spec
-----------------------------------------------------------------------------
(***************************************************************************)
(* Gateways that start while nobody writes.  Until the last of them is up  *)
(* nothing has been written: the file is whole, and hash and handlers hold *)
(* nothing but its table, so a starting gateway loads that one.            *)
(***************************************************************************)
AllUp == \A g \in Gateway : phase[g] = "up"

NothingWritten ==
    /\ ~torn
    /\ store \in {file, Empty}
    /\ \A h \in Handler :
         /\ pc[h] # "write"
         /\ pc[h] = "execute" => job[h].table = file

\* Whoever is not up yet and has loaded a table has that of the file.
StartInv ==
    /\ AllUp \/ NothingWritten
    /\ \A g \in Gateway :
         \/ phase[g] = "loaded"
         \/ phase[g] = "up" /\ seen[g] /\ ~torn
         => engine[g] = file

\* A step of a handler that writes nothing yet leaves nothing written.
LEMMA HandlerQuiet ==
    ASSUME QuietStart, TypeOK, ~AllUp, NothingWritten,
           NEW h \in Handler, Request(h) \/ Proceed(h) \/ RedisError(h)
    PROVE  NothingWritten' /\ file' = file
  <1> USE DEF NothingWritten, TypeOK, AdminOK
  <1>1. CASE Request(h)
    <2>1. PICK a \in Admin : Reload(h, a)
      BY <1>1 DEF Request, Create, Update, Delete, Open, AllUp
    <2>2. job'[h].table = file
      BY <2>1 DEF Reload, Readings
    <2>. QED  BY <2>1, <2>2 DEF Reload, data
  <1>2. CASE Proceed(h)
    BY <1>2 DEF Proceed, Write, Execute, Publish, Finish, data
  <1>3. CASE RedisError(h)
    BY <1>3 DEF RedisError, Finish
  <1>. QED  BY <1>1, <1>2, <1>3

\* No handler leaves a gateway with a table it does not have to catch up
\* with.
LEMMA HandlerStart ==
    ASSUME QuietStart, TypeOK, StartInv,
           NEW h \in Handler, Request(h) \/ Proceed(h) \/ RedisError(h)
    PROVE  StartInv'
  <1>1. phase' = phase /\ engine' = engine
    BY DEF Request, Create, Update, Delete, Reload, Open, Proceed, Write, Execute,
           Publish, RedisError, gateway
  <1>2. AllUp' <=> AllUp
    BY <1>1 DEF AllUp
  <1>3. CASE AllUp
    <2>1. \/ \A g \in Gateway : ~seen'[g]
          \/ UNCHANGED <<file, torn, seen>>
      BY DEF Request, Create, Update, Delete, Reload, Open, Proceed, Write, Execute,
             Publish, RedisError, gateway, data
    <2>. QED  BY <1>1, <1>2, <1>3, <2>1 DEF StartInv, AllUp
  <1>4. CASE ~AllUp
    <2>1. NothingWritten' /\ NothingWritten /\ file' = file
      BY <1>4, HandlerQuiet DEF StartInv
    <2>2. seen' = seen
      BY <1>4, <2>1 DEF Request, Create, Update, Delete, Reload, Open, AllUp, Proceed,
         Write, Execute, Publish, RedisError, gateway, NothingWritten
    <2>. QED  BY <1>1, <1>2, <2>1, <2>2 DEF StartInv, NothingWritten
  <1>. QED  BY <1>3, <1>4

\* An admin worker that dies leaves the file as it finds it.
LEMMA AdminRestartStart ==
    ASSUME TypeOK, StartInv, NEW a \in Admin, AdminRestart(a)
    PROVE  StartInv'
  BY DEF AdminRestart, StartInv, AllUp, NothingWritten, data, gateway, TypeOK, AdminOK

\* A gateway that reloads reads the file, unless the file is cut short.
LEMMA ReadsFile ==
    ASSUME TypeOK, NEW g \in Gateway, NEW r \in Readings, OnConfigChanged(g, r)
    PROVE  /\ \A k \in Gateway : k # g => engine'[k] = engine[k]
           /\ engine'[g] \in {engine[g], file}
           /\ ~torn => engine'[g] = file
  <1>1. r = {file} \/ (torn /\ r = {})
    BY DEF Readings
  <1>2. (CHOOSE t \in {file} : TRUE) = file
    OBVIOUS
  <1>. QED  BY <1>1, <1>2 DEF OnConfigChanged, TypeOK, GatewayOK

\* Nor does any step of a gateway itself, restarts apart.
LEMMA GatewayStart ==
    ASSUME TypeOK, StartInv, NEW g \in Gateway,
           Run(g) \/ ReloadGateway(g) \/ ListenerDies(g)
    PROVE  StartInv'
  <1> USE DEF TypeOK, GatewayOK
  <1>1. UNCHANGED <<data, admin>>
    BY DEF Run, Load, StartWatcher, Subscribe, HandleEvent, Poll, ReloadGateway, ListenerDies
  <1>2. NothingWritten => NothingWritten'
    BY <1>1 DEF NothingWritten, data, admin
  <1>3. CASE Load(g)
    <2>1. ~AllUp /\ NothingWritten
      BY <1>3 DEF Load, StartInv, AllUp
    <2>2. engine' = [engine EXCEPT ![g] = file]
      BY <1>3, <2>1 DEF Load, Loads, Readings, NothingWritten
    <2>. QED  BY <1>1, <1>2, <1>3, <2>1, <2>2 DEF Load, StartInv, data
  <1>4. CASE StartWatcher(g)
    <2>1. NothingWritten'
      BY <1>2, <1>4 DEF StartWatcher, StartInv, AllUp
    <2>. QED  BY <1>1, <1>4, <2>1 DEF StartWatcher, StartInv, data
  <1>5. CASE Subscribe(g) \/ ListenerDies(g)
    BY <1>1, <1>2, <1>5 DEF Subscribe, ListenerDies, StartInv, AllUp, data
  <1>6. CASE HandleEvent(g) \/ Poll(g) \/ ReloadGateway(g)
    <2>1. PICK r \in Readings : OnConfigChanged(g, r)
      BY <1>6 DEF HandleEvent, Poll, ReloadGateway
    <2>2. phase' = phase /\ \A k \in Gateway : k # g => seen'[k] = seen[k]
      BY <1>6 DEF HandleEvent, Poll, ReloadGateway
    <2>3. UNCHANGED <<file, torn>>
      BY <1>1 DEF data
    <2>. QED  BY <1>2, <2>1, <2>2, <2>3, ReadsFile DEF StartInv, AllUp
  <1>. QED  BY <1>3, <1>4, <1>5, <1>6 DEF Run

\* If the gateways start while nobody writes and none restarts, one whose
\* watcher has nothing to catch up with serves the table of the file, for any
\* number of admin workers, overlapping writes, lost events and restarts of
\* admin workers.
THEOREM GatewaysSettled == Spec => []Settled
  <1> DEFINE Inv == QuietStart /\ gatewayRestarts = 0 => StartInv
  <1>1. Init => Inv
    BY DEF Init, StartInv, NothingWritten, AllUp
  <1>2. Inv /\ TypeOK /\ [Next]_vars => Inv'
    <2> SUFFICES ASSUME Inv, TypeOK, [Next]_vars, QuietStart, gatewayRestarts' = 0
                 PROVE  StartInv'
      OBVIOUS
    <2>1. ASSUME NEW g \in Gateway PROVE ~GatewayRestart(g)
      BY SyncBounds DEF GatewayRestart, TypeOK, CountersOK
    <2>2. gatewayRestarts' = gatewayRestarts
      <3>1. ASSUME NEW h \in Handler, Request(h) PROVE gatewayRestarts' = gatewayRestarts
        BY <3>1 DEF Request, Create, Update, Delete, Reload, Open
      <3>2. ASSUME NEW h \in Handler, Proceed(h) \/ RedisError(h)
            PROVE  gatewayRestarts' = gatewayRestarts
        BY <3>2 DEF Proceed, Write, Execute, Publish, RedisError, counters
      <3>3. ASSUME NEW a \in Admin, AdminRestart(a)
            PROVE  gatewayRestarts' = gatewayRestarts
        BY <3>3 DEF AdminRestart
      <3>4. ASSUME NEW g \in Gateway, Run(g) \/ ReloadGateway(g) \/ ListenerDies(g)
            PROVE  gatewayRestarts' = gatewayRestarts
        BY <3>4 DEF Run, Load, StartWatcher, Subscribe, HandleEvent, Poll, ReloadGateway,
           ListenerDies, counters
      <3>5. CASE UNCHANGED vars
        BY <3>5 DEF vars, counters
      <3> HIDE DEF Inv
      <3>. QED  BY <2>1, <3>1, <3>2, <3>3, <3>4, <3>5 DEF Next
    <2>3. StartInv
      BY <2>2
    <2>4. CASE UNCHANGED vars
      BY <2>3, <2>4 DEF vars, data, admin, gateway, StartInv, AllUp, NothingWritten
    <2> HIDE DEF Inv
    <2>. QED
      BY <2>1, <2>3, <2>4, HandlerStart, AdminRestartStart, GatewayStart DEF Next
  <1>3. Inv => Settled
    BY DEF StartInv, Settled
  <1>. QED  BY <1>1, <1>2, <1>3, SyncTypeCorrect, PTL DEF Spec
-----------------------------------------------------------------------------
(***************************************************************************)
(* One admin request at a time, in whichever worker.  File and hash are    *)
(* then written in the same order, so that they differ only while that     *)
(* request is between the two.                                             *)
(***************************************************************************)
OneAtATime == \A h, k \in Handler : h = k

Unharmed == errors = 0 /\ adminRestarts = 0

\* A process that starts between two requests, and one that reads the file
\* because the hash is out of reach, load the same table.
StartsAgree ==
    Unharmed /\ (\A h \in Handler : pc[h] = "idle") =>
      \A failed \in BOOLEAN : Loads(failed) = {{file}}

\* Where the request has got to says which of file and hash are written.
OrderInv ==
    /\ (\A h \in Handler : pc[h] = "idle") => ~torn /\ store \in {file, Empty}
    /\ \A h \in Handler :
         /\ pc[h] = "write" => torn
         /\ pc[h] = "execute" => ~torn /\ job[h].table = file
         /\ pc[h] = "publish" => ~torn /\ store = file

\* The one request in flight keeps the order.
LEMMA HandlerOrder ==
    ASSUME OneAtATime, TypeOK, OrderInv, NEW h \in Handler, Request(h) \/ Proceed(h)
    PROVE  OrderInv'
  <1> USE DEF TypeOK, AdminOK
  <1>1. \A k \in Handler : k = h
    BY DEF OneAtATime
  <1>2. CASE Request(h)
    <2>1. CASE \E a \in Admin : Reload(h, a)
      <3>1. pc[h] = "idle" /\ UNCHANGED data
        BY <2>1 DEF Reload
      <3>2. ~torn /\ pc'[h] = "execute" /\ job'[h].table = file
        BY <1>1, <2>1, <3>1 DEF OrderInv, Reload, Readings
      <3>. QED  BY <1>1, <3>1, <3>2 DEF OrderInv, data
    <2>2. CASE ~ \E a \in Admin : Reload(h, a)
      <3>1. pc'[h] = "write" /\ torn'
        BY <1>2, <2>2 DEF Request, Create, Update, Delete, Open
      <3>. QED  BY <1>1, <3>1 DEF OrderInv
    <2>. QED  BY <2>1, <2>2
  <1>3. CASE Write(h)
    BY <1>1, <1>3 DEF Write, OrderInv
  <1>4. CASE Execute(h)
    BY <1>1, <1>4 DEF Execute, OrderInv
  <1>5. CASE Publish(h)
    BY <1>1, <1>5 DEF Publish, Finish, OrderInv, data
  <1>. QED  BY <1>2, <1>3, <1>4, <1>5 DEF Proceed

\* With one admin request at a time, none of them cut short by an error or a
\* restart, every process that starts between two requests loads the table of
\* the file, whichever of the admin workers wrote it and however far the other
\* workers' memories have fallen behind.
THEOREM StartsAgreed ==
    ASSUME OneAtATime
    PROVE  Spec => []StartsAgree
  <1> DEFINE Inv == Unharmed => OrderInv
  <1>1. Init => Inv
    BY DEF Init, OrderInv
  <1>2. Inv /\ TypeOK /\ [Next]_vars => Inv'
    <2> SUFFICES ASSUME Inv, TypeOK, [Next]_vars, Unharmed' PROVE OrderInv'
      OBVIOUS
    <2>1. ASSUME NEW h \in Handler, Request(h) \/ Proceed(h)
          PROVE  errors' = errors /\ adminRestarts' = adminRestarts
      BY <2>1 DEF Request, Create, Update, Delete, Reload, Open, Proceed, Write,
         Execute, Publish, counters
    <2>2. ASSUME NEW h \in Handler PROVE ~RedisError(h)
      BY DEF RedisError, Unharmed, TypeOK, CountersOK
    <2>3. ASSUME NEW a \in Admin PROVE ~AdminRestart(a)
      BY DEF AdminRestart, Unharmed, TypeOK, CountersOK
    <2>4. ASSUME NEW g \in Gateway,
                 Run(g) \/ ReloadGateway(g) \/ ListenerDies(g) \/ GatewayRestart(g)
          PROVE  UNCHANGED <<data, admin>> /\ Unharmed
      <3>1. UNCHANGED <<data, admin, adminRestarts>>
        BY <2>4 DEF Run, Load, StartWatcher, Subscribe, HandleEvent, Poll, ReloadGateway,
           ListenerDies, GatewayRestart, counters
      <3>2. errors' \in {errors, errors + 1}
        BY <2>4 DEF Run, Load, RedisFails, StartWatcher, Subscribe, HandleEvent, Poll,
           ReloadGateway, ListenerDies, GatewayRestart, counters
      <3>. QED  BY <3>1, <3>2 DEF Unharmed, TypeOK, CountersOK
    <2>5. CASE UNCHANGED vars
      BY <2>5 DEF vars, data, admin, counters, Unharmed, OrderInv
    <2>6. ASSUME NEW h \in Handler, Request(h) \/ Proceed(h) PROVE OrderInv'
      BY <2>1, <2>6, HandlerOrder DEF Unharmed
    <2>7. ASSUME NEW g \in Gateway,
                 Run(g) \/ ReloadGateway(g) \/ ListenerDies(g) \/ GatewayRestart(g)
          PROVE  OrderInv'
      BY <2>4, <2>7 DEF OrderInv, data, admin
    <2>. QED  BY <2>2, <2>3, <2>5, <2>6, <2>7 DEF Next
  <1>3. Inv => StartsAgree
    BY DEF StartsAgree, OrderInv, Loads, Readings
  <1>. QED  BY <1>1, <1>2, <1>3, SyncTypeCorrect, PTL DEF Spec
=============================================================================
