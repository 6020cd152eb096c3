---------------------------- MODULE RequestPath ----------------------------
(***************************************************************************)
(* What a gateway worker does with HTTP and gRPC requests while its        *)
(* configuration is reloaded: the routing engine (src/gateway/core/        *)
(* router.py), the plugin pipeline (core/pipeline.py), the HTTP proxy with *)
(* its retries (core/proxy.py) and the calls of the gRPC proxy             *)
(* (adapters/grpc_proxy.py).                                               *)
(*                                                                         *)
(* An HTTP request is matched and given its target before its first await; *)
(* a gRPC call is matched when it comes in, and given its target after its *)
(* plugins have run.  Both keep the route object they were matched with.   *)
(***************************************************************************)
EXTENDS Integers, Sequences, FiniteSets

CONSTANTS
    Http, Grpc,      \* the requests of each protocol
    Status,          \* the status codes upstreams answer with
    RetryOn,         \* those of retry.status_codes
    RoutesText,      \* the contents routes.yaml may have: sequences of routes
    GatewayText,     \* those of gateway.yaml: sequences of global plugins
    Bad,             \* a text that does not load
    Skipped,         \* plugins that are disabled, unknown or misconfigured
    Order,           \* the order attribute of each other plugin
    None,            \* no route, no target, no exception, no answer
    MaxEdits         \* bound on changes of the two files

Request == Http \union Grpc

ASSUME PathConstants ==
    /\ Http \intersect Grpc = {}
    /\ RetryOn \subseteq Status
    /\ MaxEdits \in Nat
    /\ "refused" \notin Status \union {None} /\ None \notin Status

VARIABLES
    routesYaml, gatewayYaml,  \* the two files
    loaded,      \* loader._routes
    globals,     \* loader._gateway_cfg.global_plugins
    engine,      \* engine._routes
    counter,     \* engine._round_robin_counters, 0 where there is none
    req,         \* what the handler of each request knows
    picked,      \* ghost: how often a route chose each target ...
    stale,       \* ghost: ... and calls on an older route moved its counter
    edits

files == <<routesYaml, gatewayYaml, edits>>
config == <<loaded, globals, engine>>
balance == <<counter, picked, stale>>
vars == <<files, config, balance, req>>

(***************************************************************************)
(* Routes and plugins                                                      *)
(***************************************************************************)
Texts == RoutesText \ {Bad}
Routes == UNION {{text[i] : i \in DOMAIN text} : text \in Texts}
RouteId == {route.id : route \in Routes}
Targets(route) == {route.targets[i] : i \in DOMAIN route.targets}
Target == UNION {Targets(route) : route \in Routes}

ASSUME RoutesOK ==
    /\ \A text \in Texts : text \in Seq(Routes)
    /\ \A route \in Routes :
         /\ route.targets \in Seq(Target) /\ route.plugins \in Seq(DOMAIN Order \union Skipped)
         /\ route.retries \in Int
    /\ \A text \in GatewayText \ {Bad} : text \in Seq(DOMAIN Order \union Skipped)

\* The routes are tried in order and the first route that accepts wins.
Hits(r) == {i \in DOMAIN engine : r \in engine[i].accepts}
Matched(r) == engine[CHOOSE i \in Hits(r) : \A j \in Hits(r) : i <= j]

Current(route) == \E i \in DOMAIN engine : engine[i] = route

Steps(plugins, part) ==
    {[part |-> part, at |-> i, plugin |-> plugins[i]] :
        i \in {j \in DOMAIN plugins : plugins[j] \notin Skipped}}

\* Every global plugin runs before every plugin of the route; within a part
\* they are sorted by their order, and the sort is stable.
Before(a, b) ==
    \/ a.part < b.part
    \/ a.part = b.part /\ Order[a.plugin] < Order[b.plugin]
    \/ a.part = b.part /\ Order[a.plugin] = Order[b.plugin] /\ a.at < b.at

Chain(route) == Steps(globals, 0) \union Steps(route.plugins, 1)

(***************************************************************************)
(* A target is chosen: round_robin, which any unknown strategy also means, *)
(* advances the counter of the route's id; random and ip_hash, whose       *)
(* hash() differs from process to process, choose any target.              *)
(***************************************************************************)
Rotates(route) == route.balance = "round_robin" /\ route.targets # <<>>

Choices(route) ==
    IF route.targets = <<>> THEN {None}
    ELSE IF ~Rotates(route) THEN Targets(route)
    ELSE {route.targets[1 + (counter[route.id] % Len(route.targets))]}

\* A turn that is not counted.
Count_Lost(route) == counter

Count(route) == IF Rotates(route) THEN [counter EXCEPT ![route.id] = @ + 1]
                                  ELSE counter

Choose(route, target) ==
    /\ target \in Choices(route)
    /\ counter' = Count(route)
    /\ picked' = IF Rotates(route) /\ Current(route)
                   THEN [picked EXCEPT ![route.id][target] = @ + 1] ELSE picked
    /\ stale' = IF Rotates(route) /\ ~Current(route)
                  THEN [stale EXCEPT ![route.id] = @ + 1] ELSE stale

(***************************************************************************)
(* Requests                                                                *)
(***************************************************************************)
Exception == {"timeout", "connect", "broken"}

Fresh == [pc |-> "new", route |-> None, todo |-> {}, passed |-> {},
          target |-> None, attempt |-> 0, exc |-> None, sent |-> 0,
          last |-> None, heard |-> None, answer |-> None]

\* The route's counter starts at 0 in a worker that has just loaded the files.
Init ==
    /\ routesYaml \in Texts
    /\ gatewayYaml \in GatewayText \ {Bad}
    /\ loaded = routesYaml
    /\ engine = routesYaml
    /\ globals = gatewayYaml
    /\ counter = [id \in RouteId |-> 0]
    /\ req = [r \in Request |-> Fresh]
    /\ picked = [id \in RouteId |-> [t \in Target |-> 0]]
    /\ stale = [id \in RouteId |-> 0]
    /\ edits = 0

NotFound(r) ==
    /\ req[r].pc = "new" /\ Hits(r) = {}
    /\ req' = [req EXCEPT ![r].pc = "done", ![r].answer = "404"]
    /\ UNCHANGED <<files, config, balance>>

\* http_gateway, up to the pipeline's first await.
ArriveHttp(r) ==
    /\ r \in Http /\ req[r].pc = "new" /\ Hits(r) # {}
    /\ \E target \in Choices(Matched(r)) :
          /\ Choose(Matched(r), target)
          /\ req' = [req EXCEPT ![r].pc = "plugins", ![r].route = Matched(r),
                                ![r].target = target, ![r].todo = Chain(Matched(r))]
    /\ UNCHANGED <<files, config>>

\* GenericGRPCProxy.service only finds the route ...
ArriveGrpc(r) ==
    /\ r \in Grpc /\ req[r].pc = "new" /\ Hits(r) # {}
    /\ req' = [req EXCEPT ![r].pc = "matched", ![r].route = Matched(r)]
    /\ UNCHANGED <<files, config, balance>>

\* The plugins of the route that would be matched now.
Preflight_Rematches(r) ==
    /\ req[r].pc = "matched" /\ Hits(r) # {}
    /\ req' = [req EXCEPT ![r].pc = "plugins", ![r].todo = Chain(Matched(r))]
    /\ UNCHANGED <<files, config, balance>>

\* ... and the handler it returns starts the preflight later.
Preflight(r) ==
    /\ req[r].pc = "matched"
    /\ req' = [req EXCEPT ![r].pc = "plugins", ![r].todo = Chain(req[r].route)]
    /\ UNCHANGED <<files, config, balance>>

\* The next plugin lets the request through, or answers it, or raises.
Pass(r) ==
    /\ req[r].pc = "plugins"
    /\ \E step \in req[r].todo :
          /\ \A other \in req[r].todo \ {step} : Before(step, other)
          /\ req' = [req EXCEPT ![r].todo = @ \ {step},
                                ![r].passed = @ \union {step}]
    /\ UNCHANGED <<files, config, balance>>

Refuse(r) ==
    /\ req[r].pc = "plugins" /\ req[r].todo # {}
    /\ req' = [req EXCEPT ![r].pc = "done", ![r].answer = "refused"]
    /\ UNCHANGED <<files, config, balance>>

\* The innermost handler of an HTTP chain is the proxy.
Forward(r) ==
    /\ r \in Http /\ req[r].pc = "plugins" /\ req[r].todo = {}
    /\ req' = IF req[r].target = None
                THEN [req EXCEPT ![r].pc = "done", ![r].heard = "502", ![r].answer = "502"]
                ELSE [req EXCEPT ![r].pc = "sending"]
    /\ UNCHANGED <<files, config, balance>>

\* The call without a target is not aborted.
Resolve_NoAbort(r) ==
    /\ r \in Grpc /\ req[r].pc = "plugins" /\ req[r].todo = {}
    /\ \E target \in Choices(req[r].route) \ {None} :
          /\ Choose(req[r].route, target)
          /\ req' = [req EXCEPT ![r].heard = "204", ![r].target = target, ![r].pc = "sending"]
    /\ UNCHANGED <<files, config>>

\* That of a gRPC chain answers 204; only then a target is chosen.
Resolve(r) ==
    /\ r \in Grpc /\ req[r].pc = "plugins" /\ req[r].todo = {}
    /\ \E target \in Choices(req[r].route) :
          /\ Choose(req[r].route, target)
          /\ req' = [req EXCEPT ![r].heard = "204", ![r].target = target,
                                ![r].pc = IF target = None THEN "done" ELSE "sending",
                                ![r].answer = IF target = None THEN "unavailable" ELSE @]
    /\ UNCHANGED <<files, config>>

(***************************************************************************)
(* _send_with_retry: one attempt with its outcome, a status or an          *)
(* exception.  Statuses of retry.status_codes, timeouts and failed         *)
(* connections are tried again after a pause; the last attempt's response  *)
(* is returned whatever it is, and its exception raised.                   *)
(***************************************************************************)
Caught == {"timeout", "connect"}

\* The last response is not returned when its status would be tried again.
Repeats_AtLast(route, attempt, outcome) ==
    outcome \in RetryOn \/ (outcome \in Caught /\ attempt # route.retries)

Repeats(route, attempt, outcome) ==
    outcome \in RetryOn \union Caught /\ attempt # route.retries

\* Connection errors have no handler.
Raised_NoConnect(exc) == IF exc = "timeout" THEN "504" ELSE exc

\* How proxy() answers an exception, and the framework one it lets through.
Raised(exc) == CASE exc = "timeout" -> "504"
                 [] exc = "connect" -> "502"
                 [] OTHER -> "500"

\* The attempt that is made again is not counted.
Again_Uncounted(tried) == tried

Again(tried) == [tried EXCEPT !.attempt = @ + 1]

Attempt(r) ==
    /\ r \in Http /\ req[r].pc = "sending" /\ req[r].attempt <= req[r].route.retries
    /\ \E outcome \in Status \union Exception :
         LET exc == IF outcome \in Exception THEN outcome ELSE req[r].exc
             answer == IF outcome \in Status THEN outcome ELSE Raised(exc)
             tried == [req[r] EXCEPT !.sent = @ + 1, !.last = outcome, !.exc = exc]
         IN  req' = [req EXCEPT ![r] =
               IF Repeats(req[r].route, req[r].attempt, outcome)
                 THEN Again(tried)
                 ELSE [tried EXCEPT !.pc = "done", !.heard = answer, !.answer = answer]]
    /\ UNCHANGED <<files, config, balance>>

\* With a negative count the loop has no attempt at all.
Exhausted(r) ==
    /\ r \in Http /\ req[r].pc = "sending" /\ req[r].attempt > req[r].route.retries
    /\ req' = [req EXCEPT ![r].pc = "done", ![r].answer = Raised(req[r].exc),
                          ![r].heard = Raised(req[r].exc)]
    /\ UNCHANGED <<files, config, balance>>

\* A gRPC call is tried once; its status or error becomes the client's.
Call(r) ==
    /\ r \in Grpc /\ req[r].pc = "sending"
    /\ \E outcome \in Status :
         req' = [req EXCEPT ![r].pc = "done", ![r].sent = @ + 1,
                            ![r].last = outcome, ![r].answer = outcome]
    /\ UNCHANGED <<files, config, balance>>

(***************************************************************************)
(* Configuration                                                           *)
(***************************************************************************)
EditRoutes(text) ==
    /\ edits < MaxEdits /\ text # routesYaml
    /\ routesYaml' = text /\ edits' = edits + 1
    /\ UNCHANGED <<gatewayYaml, config, balance, req>>

EditGateway(text) ==
    /\ edits < MaxEdits /\ text # gatewayYaml
    /\ gatewayYaml' = text /\ edits' = edits + 1
    /\ UNCHANGED <<routesYaml, config, balance, req>>

\* update_routes drops the counters of the ids that are gone.
UpdateRoutes(table) ==
    LET active == {table[i].id : i \in DOMAIN table}
    IN  /\ engine' = table
        /\ counter' = [id \in RouteId |-> IF id \in active THEN counter[id] ELSE 0]
        /\ picked' = [id \in RouteId |-> [t \in Target |-> 0]]
        /\ stale' = [id \in RouteId |-> 0]

\* The engine is updated after a failed reload as well.
Reload_Finally ==
    /\ routesYaml # Bad
    /\ loaded' = routesYaml
    /\ globals' = IF gatewayYaml = Bad THEN globals ELSE gatewayYaml
    /\ UpdateRoutes(routesYaml)
    /\ UNCHANGED <<files, req>>

\* reload() reads routes.yaml into the loader first: when gateway.yaml does not
\* load, the engine is not told of it.
Reload ==
    /\ routesYaml # Bad
    /\ loaded' = routesYaml
    /\ IF gatewayYaml = Bad
         THEN UNCHANGED <<globals, engine, balance>>
         ELSE globals' = gatewayYaml /\ UpdateRoutes(routesYaml)
    /\ UNCHANGED <<files, req>>

Handle(r) ==
    \/ Preflight(r) \/ Pass(r) \/ Refuse(r) \/ Forward(r) \/ Resolve(r)
    \/ Attempt(r) \/ Exhausted(r) \/ Call(r)

Next ==
    \/ \E r \in Request : NotFound(r) \/ ArriveHttp(r) \/ ArriveGrpc(r) \/ Handle(r)
    \/ \E text \in RoutesText : EditRoutes(text)
    \/ \E text \in GatewayText : EditGateway(text)
    \/ Reload

Spec == Init /\ [][Next]_vars

\* The event loop runs as long as a request can go on: plugins, attempts and
\* calls are each bounded by a timeout of the code.
FairSpec == Spec /\ WF_vars(\E r \in Request : Handle(r))
-----------------------------------------------------------------------------
(***************************************************************************)
(* Properties                                                              *)
(***************************************************************************)
Outcome == Status \union Exception
Answer == Status \union {"404", "refused", "unavailable", "500", "502", "504"}
Step == [part : {0, 1}, at : Nat, plugin : DOMAIN Order]
Knowledge ==
    [pc : {"new", "matched", "plugins", "sending", "done"}, route : Routes \union {None},
     todo : SUBSET Step, passed : SUBSET Step, target : Target \union {None},
     attempt : Nat, exc : Exception \union {None}, sent : Nat,
     last : Outcome \union {None}, heard : Answer \union {"204", None},
     answer : Answer \union {None}]

\* All variables have their types.
TypeOK ==
    /\ routesYaml \in RoutesText /\ gatewayYaml \in GatewayText /\ edits \in 0..MaxEdits
    /\ loaded \in Texts /\ engine \in Texts /\ globals \in GatewayText \ {Bad}
    /\ counter \in [RouteId -> Nat]
    /\ picked \in [RouteId -> [Target -> Nat]] /\ stale \in [RouteId -> Nat]
    /\ req \in [Request -> Knowledge]

\* A request reaches upstreams at most once more often than the retry.count of
\* the route it was matched with, whatever a reload has put in that route's
\* place since, and a gRPC call at most once; _send_with_retry repeats requests
\* of every method, so this bounds how often an upstream may carry one out.
SentBound ==
    \A r \in Request : req[r].sent > 0 =>
        req[r].sent <= IF r \in Http THEN req[r].route.retries + 1 ELSE 1

\* What the client is told is what the last attempt came to, not an exception
\* of an attempt before it that last_exc still holds; and the gateway gives up
\* only on an outcome that is final or after the last attempt.
LastDecides ==
    \A r \in Request : req[r].pc = "done" /\ req[r].sent > 0 =>
        /\ req[r].answer = IF req[r].last \in Status THEN req[r].last
                                                     ELSE Raised(req[r].last)
        /\ r \in Http => \/ req[r].last \notin RetryOn \union Caught
                         \/ req[r].sent = req[r].route.retries + 1

\* Nothing reaches an upstream before every plugin of its route that can be run
\* has let it through, whatever was reloaded in between, and a request that a
\* plugin refused never does.
Checked ==
    \A r \in Request : req[r].sent > 0 =>
        /\ req[r].answer # "refused"
        /\ Steps(req[r].route.plugins, 1) \subseteq req[r].passed

\* While the table does not change, round_robin uses the targets of a route
\* that names each of them once evenly, but for the turns taken by calls that
\* were matched before the last reload: the count of a route's id is one for
\* all versions of the route (and no two routes of a table share an id).
Balanced ==
    \A i \in DOMAIN engine :
        Rotates(engine[i]) /\ Cardinality(Targets(engine[i])) = Len(engine[i].targets) =>
        \A t, u \in Targets(engine[i]) :
            picked[engine[i].id][t] <= picked[engine[i].id][u] + 1 + stale[engine[i].id]

\* Routing table and global plugins change together, to what the two files
\* hold: a reload that fails half way leaves both alone.
AppliedTogether ==
    [][<<engine, globals>>' # <<engine, globals>> =>
         engine' = routesYaml /\ globals' = gatewayYaml]_vars

\* Every request that was routed is answered: there is always a time to come
\* when none is in flight.
Answered == []<>(\A r \in Request : req[r].pc \in {"new", "done"})

\* The plugins of a route see how the upstream call that they wrap ended.
PluginsHear ==
    \A r \in Request : req[r].pc = "done" /\ req[r].sent > 0 =>
        req[r].heard = req[r].answer
=============================================================================
