-------------------------- MODULE GatewayLifecycle --------------------------
(***************************************************************************)
(* The life of one gateway worker: the order in which _lifespan            *)
(* (src/gateway/app.py) opens and closes what requests use, the gRPC       *)
(* server with its pool of channels (listeners/grpc_listener.py,           *)
(* adapters/grpc_proxy.py) and the Redis client (core/redis.py).           *)
(*                                                                         *)
(* HTTP requests and WebSocket sessions run between startup and shutdown   *)
(* only: the server waits for them before it shuts the application down.   *)
(* gRPC calls come in as soon as the gRPC server is started, and until it  *)
(* is told to stop in the middle of the shutdown.                          *)
(***************************************************************************)
EXTENDS Integers

CONSTANTS
    Request,     \* HTTP requests, which end in a bounded time
    Session,     \* WebSocket sessions, which need not
    Call,        \* gRPC calls
    Target,      \* gRPC upstreams
    MaxErrors    \* bound on failed Redis commands and a dead listener

ASSUME LifecycleConstants ==
    /\ Request \intersect Session = {}
    /\ MaxErrors \in Nat

Part == {"redis", "routes", "http", "grpc", "watcher", "listener"}
PartState == {"none", "open", "draining", "dead", "closed"}
Position == {"redis", "load", "http", "grpc", "watcher", "listener", "serving", "draining",
             "stop listener", "stop watcher", "stop grpc", "drain grpc", "stop http",
             "close redis", "exited"}
CallState == {"new", "preflight", "calling", "streaming", "answered", "failed", "cancelled", "cut"}

VARIABLES
    at,          \* what _lifespan does next
    up,          \* state of each part: "none", "open", "closed", and besides
                 \* "draining" for the gRPC server, "dead" for the listener's task
    channels,    \* the open channels of the gRPC proxy, by target
    client,      \* HTTP requests and WebSocket sessions in flight
    call,        \* what each gRPC call does
    target,      \* its upstream
    aborted,     \* _lifespan has raised
    errors

traffic == <<client, call, target>>
vars == <<at, up, channels, traffic, aborted, errors>>

Init ==
    /\ at = "redis" /\ up = [p \in Part |-> "none"]
    /\ channels = {} /\ client = {}
    /\ call = [c \in Call |-> "new"] /\ target \in [Call -> Target]
    /\ aborted = FALSE /\ errors = 0

Active == {c \in Call : call[c] \in {"preflight", "calling", "streaming"}}

\* One step of _lifespan, which brings one part to a new state.
Step(here, there, part, state) ==
    /\ at = here /\ at' = there
    /\ up' = [up EXCEPT ![part] = state]
    /\ UNCHANGED <<channels, traffic, aborted, errors>>

Error == errors < MaxErrors /\ errors' = errors + 1

\* _lifespan raises and the process exits: what is in flight is cut.
Raise ==
    /\ at' = "exited" /\ aborted' = TRUE
    /\ call' = [c \in Call |-> IF c \in Active THEN "cut" ELSE call[c]]
    /\ client' = {}
    /\ UNCHANGED <<channels, target>>

(***************************************************************************)
(* Startup                                                                 *)
(***************************************************************************)
InitRedis == Step("redis", "load", "redis", "open")

\* The client is created, but does not answer the ping.
InitRedisFails ==
    /\ at = "redis" /\ Error /\ Raise
    /\ up' = [up EXCEPT !["redis"] = "open"]

LoadConfig == Step("load", "http", "routes", "open")
StartHttp == Step("http", "grpc", "http", "open")
StartGrpc == Step("grpc", "watcher", "grpc", "open")
StartWatcher == Step("watcher", "listener", "watcher", "open")

\* In cluster mode the listener returns at once.
StartListener ==
    \E state \in {"open", "closed"} : Step("listener", "serving", "listener", state)

ListenerDies ==
    /\ up["listener"] = "open" /\ at # "exited" /\ Error
    /\ up' = [up EXCEPT !["listener"] = "dead"]
    /\ UNCHANGED <<at, channels, traffic, aborted>>

(***************************************************************************)
(* Traffic                                                                 *)
(***************************************************************************)
ClientStarts(r) ==
    /\ at = "serving" /\ client' = client \union {r}
    /\ UNCHANGED <<at, up, channels, call, target, aborted, errors>>

ClientEnds(r) ==
    /\ r \in client /\ client' = client \ {r}
    /\ UNCHANGED <<at, up, channels, call, target, aborted, errors>>

Goto(c, here, there) ==
    /\ call[c] = here /\ call' = [call EXCEPT ![c] = there]
    /\ UNCHANGED <<at, up, client, target, aborted, errors>>

\* service() finds a route, or returns a handler that answers NOT_FOUND.
CallStarts(c) ==
    /\ up["grpc"] = "open" /\ at # "exited"
    /\ \E there \in {"preflight", "failed"} : Goto(c, "new", there)
    /\ UNCHANGED channels

\* The plugins refuse the call, or there is no target for it.
CallRefused(c) == Goto(c, "preflight", "failed") /\ UNCHANGED channels

\* The channel of the target is reused, or opened and kept for later calls.
CallForwarded(c) ==
    /\ Goto(c, "preflight", "calling")
    /\ channels' = channels \union {target[c]}

\* The upstream's initial metadata is passed on, then its responses.
CallStreams(c) == Goto(c, "calling", "streaming") /\ UNCHANGED channels
CallAnswered(c) == Goto(c, "streaming", "answered") /\ UNCHANGED channels

\* The upstream's error, its deadline's included, is passed on at any point.
CallFails(c) ==
    /\ \E here \in {"calling", "streaming"} : Goto(c, here, "failed")
    /\ UNCHANGED channels

(***************************************************************************)
(* Shutdown                                                                *)
(***************************************************************************)
Terminate ==
    /\ at = "serving" /\ at' = "draining"
    /\ UNCHANGED <<up, channels, traffic, aborted, errors>>

Drained ==
    /\ at = "draining" /\ client = {} /\ at' = "stop listener"
    /\ UNCHANGED <<up, channels, traffic, aborted, errors>>

\* Cancelled, the listener unsubscribes and ends.
StopListener ==
    /\ up["listener"] # "dead"
    /\ Step("stop listener", "stop watcher", "listener", "closed")

\* Awaiting a listener that died, or that cannot unsubscribe, raises its
\* exception: the rest of the shutdown is skipped.
StopListenerRaises ==
    /\ at = "stop listener" /\ Raise
    /\ \/ up["listener"] = "dead" /\ UNCHANGED errors
       \/ up["listener"] = "open" /\ Error
    /\ UNCHANGED up

StopWatcher == Step("stop watcher", "stop grpc", "watcher", "closed")

\* The server takes no more calls and waits for those it has ...
StopGrpc == Step("stop grpc", "drain grpc", "grpc", "draining")

\* The server is stopped without a grace that ends.
GraceEnds_Never == FALSE /\ UNCHANGED vars

\* ... until its grace is over: then it cancels them.
GraceEnds ==
    /\ at = "drain grpc" /\ Active # {}
    /\ call' = [c \in Call |-> IF c \in Active THEN "cancelled" ELSE call[c]]
    /\ UNCHANGED <<at, up, channels, client, target, aborted, errors>>

\* The server's stop is not awaited.
GrpcStopped_Early ==
    /\ at = "drain grpc" /\ at' = "stop http"
    /\ up' = [up EXCEPT !["grpc"] = "closed"] /\ channels' = {}
    /\ UNCHANGED <<traffic, aborted, errors>>

\* The proxy is not closed.
GrpcStopped_KeepsChannels ==
    /\ Active = {} /\ Step("drain grpc", "stop http", "grpc", "closed")

\* With its calls over the server is stopped; the proxy closes its channels.
GrpcStopped ==
    /\ at = "drain grpc" /\ Active = {} /\ at' = "stop http"
    /\ up' = [up EXCEPT !["grpc"] = "closed"] /\ channels' = {}
    /\ UNCHANGED <<traffic, aborted, errors>>

StopHttp == Step("stop http", "close redis", "http", "closed")

\* The client stays, and refuses commands.
CloseRedis_Keeps == Step("close redis", "exited", "redis", "refusing")

CloseRedis == Step("close redis", "exited", "redis", "closed")

Lifespan ==
    \/ InitRedis \/ LoadConfig \/ StartHttp \/ StartGrpc \/ StartWatcher \/ StartListener
    \/ Drained \/ StopListener \/ StopListenerRaises \/ StopWatcher \/ StopGrpc
    \/ GraceEnds \/ GrpcStopped \/ StopHttp \/ CloseRedis

CallSteps(c) ==
    \/ CallRefused(c) \/ CallForwarded(c) \/ CallStreams(c) \/ CallAnswered(c) \/ CallFails(c)

Next ==
    \/ Lifespan \/ InitRedisFails \/ ListenerDies \/ Terminate
    \/ \E r \in Request \union Session : ClientStarts(r) \/ ClientEnds(r)
    \/ \E c \in Call : CallStarts(c) \/ CallSteps(c)

Spec == Init /\ [][Next]_vars

\* The worker runs its own steps and answers HTTP requests, whose upstream has
\* a time limit; a WebSocket session may stay as long as its ends do.
FairSpec ==
    /\ Spec /\ WF_vars(Lifespan)
    /\ \A r \in Request : WF_vars(ClientEnds(r))
-----------------------------------------------------------------------------
(***************************************************************************)
(* Properties                                                              *)
(***************************************************************************)

\* All variables have their types.
TypeOK ==
    /\ at \in Position /\ up \in [Part -> PartState]
    /\ channels \subseteq Target /\ client \subseteq Request \union Session
    /\ call \in [Call -> CallState] /\ target \in [Call -> Target]
    /\ aborted \in BOOLEAN /\ errors \in 0..MaxErrors

\* Whatever is in flight finds what it uses: plugins find Redis and routes, HTTP
\* requests the HTTP client, a forwarded gRPC call the channel it runs on, in
\* every step of startup and shutdown and of other calls.
Usable ==
    /\ (client # {} \/ Active # {}) => up["redis"] = "open" /\ up["routes"] = "open"
    /\ client # {} => up["http"] = "open"
    /\ \A c \in Call : call[c] \in {"calling", "streaming"} => target[c] \in channels

\* A worker whose shutdown did not fail has closed all it had opened.
Released ==
    at = "exited" /\ ~aborted =>
        /\ channels = {}
        /\ \A p \in Part \ {"routes"} : up[p] = "closed"

\* A worker that is told to stop does, unless a WebSocket session stays: the
\* wait for sessions has no limit of its own.
Stops == at = "draining" ~> at = "exited" \/ client \intersect Session # {}
=============================================================================
