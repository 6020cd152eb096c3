----------------------- MODULE GatewayLifecycleProofs -----------------------
(***************************************************************************)
(* Theorems about GatewayLifecycle, for any number of requests, sessions,  *)
(* calls and errors.                                                       *)
(***************************************************************************)
EXTENDS GatewayLifecycle, TLAPS

\* _lifespan stands at `at' once the part before it is open or closed.
Serving == {"watcher", "listener", "serving", "draining",
            "stop listener", "stop watcher", "stop grpc"}
FromDrain == {"stop http", "close redis", "exited"}
FromGrpc == {"stop grpc", "drain grpc"} \union FromDrain
FromWatcher == {"stop watcher"} \union FromGrpc

\* What is open at each position of a worker that runs.
Opened ==
    /\ at \notin {"redis", "exited"} => up["redis"] = "open"
    /\ at \notin {"redis", "load", "exited"} => up["routes"] = "open"
    /\ at \in {"grpc", "drain grpc", "stop http"} \union Serving => up["http"] = "open"
    /\ up["grpc"] = "open" /\ at # "exited" => at \in Serving

\* What is closed at each position of a shutdown that has not failed.
ClosedSoFar ==
    /\ aborted => at = "exited"
    /\ ~aborted =>
        /\ at \in FromWatcher => up["listener"] = "closed"
        /\ at \in FromGrpc => up["watcher"] = "closed"
        /\ at \in FromDrain => up["grpc"] = "closed" /\ channels = {}
        /\ at \in {"close redis", "exited"} => up["http"] = "closed"
        /\ at = "exited" => up["redis"] = "closed"

\* What may be in flight at each position, and on which channels.
InFlight ==
    /\ client # {} => at \in {"serving", "draining"}
    /\ Active # {} => at \in {"drain grpc"} \union Serving
    /\ \A c \in Call : call[c] \in {"calling", "streaming"} => target[c] \in channels

IInv == TypeOK /\ Opened /\ ClosedSoFar /\ InFlight
-----------------------------------------------------------------------------
\* A worker is started with nothing open and nothing in flight.
LEMMA InitIInv == Init => IInv
  <1>. SUFFICES ASSUME Init PROVE IInv
    OBVIOUS
  <1>1. TypeOK
    <2>1. "redis" \in Position /\ "none" \in PartState /\ "new" \in CallState
      BY DEF Position, PartState, CallState
    <2>2. 0 \in 0..MaxErrors
      BY LifecycleConstants
    <2>. QED
      BY <2>1, <2>2 DEF Init, TypeOK
  <1>2. Active = {}
    BY DEF Init, Active
  <1>. QED
    BY <1>1, <1>2 DEF Init, IInv, Opened, ClosedSoFar, InFlight, Serving, FromDrain,
       FromGrpc, FromWatcher, Part

\* Every step of _lifespan keeps the types.
LEMMA StepTypes ==
    ASSUME TypeOK, NEW here, NEW there \in Position, NEW part \in Part,
           NEW state \in PartState, Step(here, there, part, state)
    PROVE  TypeOK'
  BY DEF TypeOK, Step, traffic

LEMMA RaiseTypes ==
    ASSUME TypeOK, Raise, errors' \in 0..MaxErrors, up' \in [Part -> PartState]
    PROVE  TypeOK'
  <1>1. "exited" \in Position /\ "cut" \in CallState
    BY DEF Position, CallState
  <1>. QED
    BY <1>1 DEF TypeOK, Raise

LEMMA ErrorTypes ==
    ASSUME errors \in 0..MaxErrors, Error PROVE errors' \in 0..MaxErrors
  BY LifecycleConstants DEF Error

LEMMA LifespanTypes ==
    ASSUME TypeOK, Lifespan PROVE TypeOK'
  <1>1. CASE InitRedis \/ LoadConfig \/ StartHttp \/ StartGrpc \/ StartWatcher
    <2>1. /\ {"load", "http", "grpc", "watcher", "listener"} \subseteq Position
          /\ {"redis", "routes", "http", "grpc", "watcher"} \subseteq Part
          /\ "open" \in PartState
      BY DEF Position, Part, PartState
    <2>. QED
      BY <1>1, <2>1, StepTypes DEF InitRedis, LoadConfig, StartHttp, StartGrpc, StartWatcher
  <1>2. CASE StartListener \/ StopListener \/ StopWatcher \/ StopGrpc \/ StopHttp \/ CloseRedis
    <2>1. /\ {"serving", "stop watcher", "stop grpc", "drain grpc", "close redis", "exited"}
                \subseteq Position
          /\ {"listener", "watcher", "grpc", "http", "redis"} \subseteq Part
          /\ {"open", "closed", "draining"} \subseteq PartState
      BY DEF Position, Part, PartState
    <2>. QED
      BY <1>2, <2>1, StepTypes DEF StartListener, StopListener, StopWatcher, StopGrpc,
         StopHttp, CloseRedis
  <1>3. CASE Drained \/ GraceEnds \/ GrpcStopped
    <2>1. {"stop listener", "stop http"} \subseteq Position /\ "closed" \in PartState
          /\ "cancelled" \in CallState
      BY DEF Position, PartState, CallState
    <2>. QED
      BY <1>3, <2>1 DEF TypeOK, Drained, GraceEnds, GrpcStopped, traffic
  <1>4. CASE StopListenerRaises
    <2>1. errors' \in 0..MaxErrors /\ up' \in [Part -> PartState]
      BY <1>4, ErrorTypes DEF StopListenerRaises, TypeOK
    <2>. QED
      BY <1>4, <2>1, RaiseTypes DEF StopListenerRaises
  <1>. QED
    BY <1>1, <1>2, <1>3, <1>4 DEF Lifespan

\* The steps of clients, calls and faults keep the types.
LEMMA TrafficTypes ==
    ASSUME TypeOK, Next PROVE TypeOK'
  <1>1. CASE InitRedisFails
    <2>1. errors' \in 0..MaxErrors /\ up' \in [Part -> PartState]
      BY <1>1, ErrorTypes DEF InitRedisFails, TypeOK, PartState
    <2>. QED
      BY <1>1, <2>1, RaiseTypes DEF InitRedisFails
  <1>2. CASE ListenerDies \/ Terminate
    <2>1. "draining" \in Position /\ "dead" \in PartState
      BY DEF Position, PartState
    <2>. QED
      BY <1>2, <2>1, ErrorTypes DEF TypeOK, ListenerDies, Terminate, traffic
  <1>3. ASSUME NEW r \in Request \union Session, ClientStarts(r) \/ ClientEnds(r)
        PROVE  TypeOK'
    BY <1>3 DEF TypeOK, ClientStarts, ClientEnds
  <1>4. ASSUME NEW c \in Call, CallStarts(c) \/ CallSteps(c)
        PROVE  TypeOK'
    BY <1>4 DEF TypeOK, CallState, CallStarts, CallSteps, CallRefused, CallForwarded, CallStreams,
       CallAnswered, CallFails, Goto
  <1>. QED
    BY <1>1, <1>2, <1>3, <1>4, LifespanTypes DEF Next

\* Every step of _lifespan opens or closes one part in its turn.
LEMMA LifespanKeeps ==
    ASSUME IInv, Lifespan PROVE (Opened /\ ClosedSoFar /\ InFlight)'
  <1>. USE DEF IInv, TypeOK, Position, Part, Serving, FromDrain, FromGrpc, FromWatcher
  <1>1. ASSUME NEW here, NEW there, NEW part \in Part, NEW state,
               Step(here, there, part, state)
        PROVE  /\ Active' = Active /\ call' = call /\ client' = client
               /\ channels' = channels /\ target' = target /\ aborted' = aborted
    BY <1>1 DEF Step, traffic, Active
  <1>2. CASE InitRedis \/ LoadConfig \/ StartHttp \/ StartGrpc \/ StartWatcher
    <2>1. /\ Active' = Active /\ call' = call /\ client' = client
          /\ channels' = channels /\ target' = target /\ aborted' = aborted
      BY <1>1, <1>2 DEF InitRedis, LoadConfig, StartHttp, StartGrpc, StartWatcher
    <2>. QED
      BY <1>2, <2>1 DEF InitRedis, LoadConfig, StartHttp, StartGrpc, StartWatcher, Step,
         Opened, ClosedSoFar, InFlight
  <1>3. CASE StartListener
    <2>1. /\ Active' = Active /\ call' = call /\ client' = client
          /\ channels' = channels /\ target' = target /\ aborted' = aborted
      BY <1>1, <1>3 DEF StartListener
    <2>. QED
      BY <1>3, <2>1 DEF StartListener, Step, Opened, ClosedSoFar, InFlight
  <1>4. CASE Drained
    <2>1. Active' = Active
      BY <1>4 DEF Drained, traffic, Active
    <2>. QED
      BY <1>4, <2>1 DEF Drained, traffic, Opened, ClosedSoFar, InFlight
  <1>5. CASE StopListener \/ StopWatcher \/ StopGrpc
    <2>1. /\ Active' = Active /\ call' = call /\ client' = client
          /\ channels' = channels /\ target' = target /\ aborted' = aborted
      BY <1>1, <1>5 DEF StopListener, StopWatcher, StopGrpc
    <2>. QED
      BY <1>5, <2>1 DEF StopListener, StopWatcher, StopGrpc, Step, Opened, ClosedSoFar, InFlight
  <1>6. CASE StopListenerRaises
    <2>1. Active' = {} /\ client' = {} /\ \A c \in Call : call'[c] \notin {"calling", "streaming"}
      BY <1>6 DEF StopListenerRaises, Raise, Active
    <2>. QED
      BY <1>6, <2>1 DEF StopListenerRaises, Raise, Opened, ClosedSoFar, InFlight
  <1>7. CASE GraceEnds
    <2>1. Active' = {} /\ \A c \in Call : call'[c] \notin {"calling", "streaming"}
      BY <1>7 DEF GraceEnds, Active
    <2>. QED
      BY <1>7, <2>1 DEF GraceEnds, Opened, ClosedSoFar, InFlight
  <1>8. CASE GrpcStopped
    <2>1. Active' = {} /\ \A c \in Call : call'[c] \notin {"calling", "streaming"}
      BY <1>8 DEF GrpcStopped, Active, traffic
    <2>. QED
      BY <1>8, <2>1 DEF GrpcStopped, traffic, Opened, ClosedSoFar, InFlight
  <1>9. CASE StopHttp \/ CloseRedis
    <2>1. /\ Active' = Active /\ call' = call /\ client' = client
          /\ channels' = channels /\ target' = target /\ aborted' = aborted
      BY <1>1, <1>9 DEF StopHttp, CloseRedis
    <2>. QED
      BY <1>9, <2>1 DEF StopHttp, CloseRedis, Step, Opened, ClosedSoFar, InFlight
  <1>. QED
    BY <1>2, <1>3, <1>4, <1>5, <1>6, <1>7, <1>8, <1>9 DEF Lifespan

\* Clients and calls come and go where the worker stands.
LEMMA TrafficKeeps ==
    ASSUME IInv, Next PROVE (Opened /\ ClosedSoFar /\ InFlight)'
  <1>. USE DEF IInv, TypeOK, Position, Part, Serving, FromDrain, FromGrpc, FromWatcher
  <1>1. CASE InitRedisFails
    <2>1. Active' = {} /\ client' = {} /\ \A c \in Call : call'[c] \notin {"calling", "streaming"}
      BY <1>1 DEF InitRedisFails, Raise, Active
    <2>. QED
      BY <1>1, <2>1 DEF InitRedisFails, Raise, Opened, ClosedSoFar, InFlight
  <1>2. CASE ListenerDies
    <2>1. Active' = Active
      BY <1>2 DEF ListenerDies, traffic, Active
    <2>2. /\ ~aborted /\ at \notin FromWatcher
          /\ \A p \in Part \ {"listener"} : up'[p] = up[p]
      BY <1>2 DEF ListenerDies, ClosedSoFar
    <2>. QED
      BY <1>2, <2>1, <2>2 DEF ListenerDies, traffic, Opened, ClosedSoFar, InFlight
  <1>5. CASE Terminate
    <2>1. Active' = Active
      BY <1>5 DEF Terminate, traffic, Active
    <2>. QED
      BY <1>5, <2>1 DEF Terminate, traffic, Opened, ClosedSoFar, InFlight
  <1>3. ASSUME NEW r \in Request \union Session, ClientStarts(r) \/ ClientEnds(r)
        PROVE  (Opened /\ ClosedSoFar /\ InFlight)'
    <2>1. Active' = Active
      BY <1>3 DEF ClientStarts, ClientEnds, Active
    <2>2. client' # {} => at \in {"serving", "draining"}
      BY <1>3 DEF ClientStarts, ClientEnds, InFlight
    <2>3. UNCHANGED <<at, up, channels, call, target, aborted>>
      BY <1>3 DEF ClientStarts, ClientEnds
    <2>. QED
      BY <2>1, <2>2, <2>3 DEF Opened, ClosedSoFar, InFlight
  <1>4. ASSUME NEW c \in Call, CallStarts(c) \/ CallSteps(c)
        PROVE  (Opened /\ ClosedSoFar /\ InFlight)'
    <2>1. at' = at /\ up' = up /\ client' = client /\ target' = target /\ aborted' = aborted
      BY <1>4 DEF CallStarts, CallSteps, CallRefused, CallForwarded, CallStreams,
         CallAnswered, CallFails, Goto
    <2>2. at \in {"drain grpc"} \union Serving
      BY <1>4 DEF CallStarts, CallSteps, CallRefused, CallForwarded, CallStreams,
         CallAnswered, CallFails, Goto, Opened, InFlight, Active
    <2>3. channels \subseteq channels'
      BY <1>4 DEF CallStarts, CallSteps, CallRefused, CallForwarded, CallStreams,
         CallAnswered, CallFails
    <2>4. ASSUME NEW d \in Call, call'[d] \in {"calling", "streaming"}
          PROVE  target'[d] \in channels'
      BY <1>4, <2>1, <2>3, <2>4 DEF CallStarts, CallSteps, CallRefused, CallForwarded,
         CallStreams, CallAnswered, CallFails, Goto, InFlight
    <2>. QED
      BY <2>1, <2>2, <2>4 DEF Opened, ClosedSoFar, InFlight
  <1>. QED
    BY <1>1, <1>2, <1>3, <1>4, <1>5, LifespanKeeps DEF Next

\* IInv is inductive.
LEMMA NextIInv == IInv /\ [Next]_vars => IInv'
  <1>. SUFFICES ASSUME IInv, [Next]_vars PROVE IInv'
    OBVIOUS
  <1>1. CASE Next
    BY <1>1, TrafficTypes, TrafficKeeps DEF IInv
  <1>2. CASE UNCHANGED vars
    BY <1>2 DEF vars, traffic, IInv, TypeOK, Opened, ClosedSoFar, InFlight, Active
  <1>. QED
    BY <1>1, <1>2
-----------------------------------------------------------------------------
\* All variables keep their types, for any traffic and any errors.
THEOREM LifecycleTypeCorrect == Spec => []TypeOK
  <1>1. IInv => TypeOK
    BY DEF IInv
  <1>. QED
    BY <1>1, InitIInv, NextIInv, PTL DEF Spec

\* Whatever is in flight finds what it uses, at every step of the startup and
\* the shutdown of the worker (app.py:69-113).
THEOREM LifecycleUsable == Spec => []Usable
  <1>1. IInv => Usable
    BY DEF IInv, Opened, InFlight, Usable, Serving
  <1>. QED
    BY <1>1, InitIInv, NextIInv, PTL DEF Spec

\* A shutdown that did not fail leaves nothing open (app.py:104-113).
THEOREM LifecycleReleases == Spec => []Released
  <1>1. IInv => Released
    BY DEF IInv, ClosedSoFar, Released, Part, FromDrain, FromGrpc, FromWatcher
  <1>. QED
    BY <1>1, InitIInv, NextIInv, PTL DEF Spec
=============================================================================
