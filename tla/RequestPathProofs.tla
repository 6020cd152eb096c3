-------------------------- MODULE RequestPathProofs --------------------------
(***************************************************************************)
(* Theorems about RequestPath, for any requests, any route tables, plugins *)
(* and retry counts, and any number of reloads.                            *)
(***************************************************************************)
EXTENDS RequestPath, WellFoundedInduction, FiniteSetTheorems, TLAPS

TablesOK ==
    /\ routesYaml \in RoutesText /\ gatewayYaml \in GatewayText /\ edits \in 0..MaxEdits
    /\ loaded \in Texts /\ engine \in Texts /\ globals \in GatewayText \ {Bad}
    /\ counter \in [RouteId -> Nat]
    /\ picked \in [RouteId -> [Target -> Nat]] /\ stale \in [RouteId -> Nat]

\* Request r knows k.  A request that is being sent has used as many attempts
\* as it has sent, and has one left; the plugins of its route that have not
\* run are still to be run, and none is when it is sent.
RequestOK(r, k) ==
    /\ k \in Knowledge
    /\ k.pc \in {"matched", "plugins", "sending"} \/ k.sent > 0 => k.route \in Routes
    /\ k.pc \in {"new", "matched", "plugins"} => k.sent = 0 /\ k.attempt = 0
    /\ k.pc # "done" => k.answer = None
    /\ k.pc = "sending" => k.attempt = k.sent
    /\ k.pc = "sending" /\ k.sent > 0 => r \in Http /\ k.sent <= k.route.retries
    /\ k.pc = "plugins" => Steps(k.route.plugins, 1) \subseteq k.todo \union k.passed
    /\ k.pc = "sending" \/ k.sent > 0 => Steps(k.route.plugins, 1) \subseteq k.passed
    /\ k.sent > 0 => k.sent <= IF r \in Http THEN k.route.retries + 1 ELSE 1
    /\ k.pc = "done" /\ k.sent > 0 =>
          /\ k.answer = IF k.last \in Status THEN k.last ELSE Raised(k.last)
          /\ r \in Http => k.last \notin RetryOn \union Caught \/ k.sent = k.route.retries + 1
    /\ k.sent > 0 => k.answer # "refused"

IInv == TablesOK /\ req \in [Request -> Knowledge] /\ \A r \in Request : RequestOK(r, req[r])
-----------------------------------------------------------------------------
(***************************************************************************)
(* Routes, plugins and targets                                             *)
(***************************************************************************)
\* A set of numbers has a least one.
LEMMA LeastNumber ==
    ASSUME NEW S \in SUBSET Nat, S # {}
    PROVE  \E x \in S : \A y \in S : x <= y
  <1> DEFINE R == {ss \in Nat \X Nat : ss[1] < ss[2]}
  <1>1. IsWellFoundedOn(R, Nat)
    BY NatLessThanWellFounded DEF OpToRel
  <1> HIDE DEF R
  <1>2. PICK x \in S : \A y \in S : ~(<<y, x>> \in R)
    BY <1>1, WFMin
  <1>3. ASSUME NEW y \in S PROVE x <= y
    <2>1. y < x => <<y, x>> \in R
      BY DEF R
    <2>. QED
      BY <1>2, <2>1
  <1>. QED
    BY <1>3

\* The first route of the table that accepts a request is one of its routes.
LEMMA MatchedRoute ==
    ASSUME engine \in Texts, NEW r, Hits(r) # {} PROVE Matched(r) \in Routes
  <1>1. engine \in Seq(Routes)
    BY RoutesOK
  <1>2. Hits(r) \in SUBSET Nat /\ Hits(r) \subseteq 1..Len(engine)
    BY <1>1 DEF Hits
  <1>3. \E i \in Hits(r) : \A j \in Hits(r) : i <= j
    BY <1>2, LeastNumber
  <1>4. (CHOOSE i \in Hits(r) : \A j \in Hits(r) : i <= j) \in Hits(r)
    BY <1>3
  <1>. QED
    BY <1>1, <1>2, <1>4 DEF Matched

\* The chain of a route is a set of plugins that can be run, those of the route
\* among them.
LEMMA ChainSteps ==
    ASSUME NEW route \in Routes, globals \in GatewayText \ {Bad}
    PROVE  Chain(route) \in SUBSET Step /\ Steps(route.plugins, 1) \subseteq Chain(route)
  <1>1. ASSUME NEW plugins \in Seq(DOMAIN Order \union Skipped), NEW part \in {0, 1}
        PROVE  Steps(plugins, part) \in SUBSET Step
    <2>1. ASSUME NEW i \in DOMAIN plugins, plugins[i] \notin Skipped
          PROVE  [part |-> part, at |-> i, plugin |-> plugins[i]] \in Step
      <3>1. i \in Nat /\ plugins[i] \in DOMAIN Order
        BY <2>1
      <3>. QED
        BY <3>1 DEF Step
    <2>. QED
      BY <2>1 DEF Steps
  <1>2. /\ route.plugins \in Seq(DOMAIN Order \union Skipped)
        /\ globals \in Seq(DOMAIN Order \union Skipped)
    BY RoutesOK
  <1>. QED
    BY <1>1, <1>2 DEF Chain

\* Whatever strategy chooses it, a target is one of the route's, or none.
LEMMA ChoicesTargets ==
    ASSUME counter \in [RouteId -> Nat], NEW route \in Routes
    PROVE  /\ Choices(route) \subseteq Target \union {None}
           /\ Rotates(route) => Choices(route) \subseteq Target
           /\ route.id \in RouteId
  <1>1. route.targets \in Seq(Target) /\ route.id \in RouteId
    BY RoutesOK DEF RouteId
  <1>2. Targets(route) \subseteq Target
    BY DEF Target
  <1>3. CASE Rotates(route)
    <2>1. Len(route.targets) \in Nat \ {0} /\ counter[route.id] \in Nat
      BY <1>1, <1>3 DEF Rotates
    <2>2. 1 + (counter[route.id] % Len(route.targets)) \in 1..Len(route.targets)
      BY <2>1
    <2>3. route.targets[1 + (counter[route.id] % Len(route.targets))] \in Target
      BY <1>1, <2>2
    <2>4. Choices(route) = {route.targets[1 + (counter[route.id] % Len(route.targets))]}
      BY <1>3 DEF Choices, Rotates
    <2>. QED
      BY <1>1, <2>3, <2>4
  <1>4. CASE ~Rotates(route)
    BY <1>1, <1>2, <1>4 DEF Choices
  <1>. QED
    BY <1>3, <1>4

\* Choosing a target keeps the counters in their types.
LEMMA ChooseTables ==
    ASSUME TablesOK, NEW route \in Routes, NEW target, Choose(route, target),
           UNCHANGED <<files, config>>
    PROVE  TablesOK' /\ target \in Target \union {None}
  <1>1. /\ target \in Target \union {None} /\ route.id \in RouteId
        /\ Rotates(route) => target \in Target
    BY ChoicesTargets DEF TablesOK, Choose
  <1>2. counter' \in [RouteId -> Nat]
    BY <1>1 DEF TablesOK, Choose, Count
  <1>3. picked' \in [RouteId -> [Target -> Nat]] /\ stale' \in [RouteId -> Nat]
    BY <1>1 DEF TablesOK, Choose
  <1>. QED
    BY <1>1, <1>2, <1>3 DEF TablesOK, files, config
-----------------------------------------------------------------------------
(***************************************************************************)
(* Requests                                                                *)
(***************************************************************************)
\* A step that changes what one request knows.
LEMMA OneRequest ==
    ASSUME IInv, TablesOK', NEW r \in Request, NEW k, RequestOK(r, k),
           req' = [req EXCEPT ![r] = k]
    PROVE  IInv'
  <1>1. k \in Knowledge
    BY DEF RequestOK
  <1>2. req' \in [Request -> Knowledge] /\ \A s \in Request : RequestOK(s, req'[s])
    BY <1>1 DEF IInv
  <1>. QED
    BY <1>2 DEF IInv, RequestOK

\* A request is matched, or there is no route for it.
LEMMA ArrivalKeeps ==
    ASSUME IInv, NEW r \in Request, NotFound(r) \/ ArriveHttp(r) \/ ArriveGrpc(r)
    PROVE  IInv'
  <1>. req[r] \in Knowledge /\ RequestOK(r, req[r]) /\ TablesOK
    BY DEF IInv
  <1>1. CASE NotFound(r)
    <2> DEFINE k == [req[r] EXCEPT !.pc = "done", !.answer = "404"]
    <2>1. req' = [req EXCEPT ![r] = k] /\ TablesOK'
      BY <1>1 DEF NotFound, IInv, TablesOK, files, config, balance
    <2>2. RequestOK(r, k)
      <3>1. k \in Knowledge
        BY <1>1 DEF Knowledge, Answer
      <3>2. /\ k.pc = "done" /\ k.route = req[r].route /\ k.todo = req[r].todo /\ k.passed = req[r].passed
            /\ k.attempt = req[r].attempt /\ k.sent = req[r].sent /\ k.last = req[r].last /\ k.answer = "404"
        BY DEF Knowledge
      <3> HIDE DEF k
      <3>. QED
        BY <1>1, <3>1, <3>2 DEF NotFound, RequestOK
    <2>. QED
      BY <2>1, <2>2, OneRequest
  <1>2. CASE ArriveHttp(r)
    <2>1. Matched(r) \in Routes
      BY <1>2, MatchedRoute DEF ArriveHttp, TablesOK
    <2>2. PICK target \in Choices(Matched(r)) :
            /\ Choose(Matched(r), target)
            /\ req' = [req EXCEPT ![r].pc = "plugins", ![r].route = Matched(r),
                                  ![r].target = target, ![r].todo = Chain(Matched(r))]
      BY <1>2 DEF ArriveHttp
    <2> DEFINE k == [req[r] EXCEPT !.pc = "plugins", !.route = Matched(r),
                                   !.target = target, !.todo = Chain(Matched(r))]
    <2>3. TablesOK' /\ target \in Target \union {None}
      BY <1>2, <2>1, <2>2, ChooseTables DEF ArriveHttp
    <2>4. Chain(Matched(r)) \in SUBSET Step /\ Steps(Matched(r).plugins, 1) \subseteq Chain(Matched(r))
      BY <2>1, ChainSteps DEF TablesOK
    <2>5. k \in Knowledge
      BY <2>1, <2>3, <2>4 DEF Knowledge
    <2>6. RequestOK(r, k)
      <3>1. k \in Knowledge
        BY <2>5 DEF Knowledge, Answer
      <3>2. /\ k.pc = "plugins" /\ k.route = Matched(r) /\ k.todo = Chain(Matched(r)) /\ k.passed = req[r].passed
            /\ k.attempt = req[r].attempt /\ k.sent = req[r].sent /\ k.last = req[r].last /\ k.answer = req[r].answer
        BY DEF Knowledge
      <3> HIDE DEF k
      <3>3. req[r].pc = "new"
        BY <1>2 DEF ArriveHttp
      <3>. QED
        BY <2>1, <2>4, <3>1, <3>2, <3>3 DEF RequestOK
    <2>7. req' = [req EXCEPT ![r] = k]
      BY <2>2 DEF IInv
    <2>. QED
      BY <2>3, <2>6, <2>7, OneRequest
  <1>3. CASE ArriveGrpc(r)
    <2> DEFINE k == [req[r] EXCEPT !.pc = "matched", !.route = Matched(r)]
    <2>1. Matched(r) \in Routes
      BY <1>3, MatchedRoute DEF ArriveGrpc, TablesOK
    <2>2. req' = [req EXCEPT ![r] = k] /\ TablesOK'
      BY <1>3 DEF ArriveGrpc, IInv, TablesOK, files, config, balance
    <2>3. RequestOK(r, k)
      <3>1. k \in Knowledge
        BY <2>1 DEF Knowledge, Answer
      <3>2. /\ k.pc = "matched" /\ k.route = Matched(r) /\ k.todo = req[r].todo /\ k.passed = req[r].passed
            /\ k.attempt = req[r].attempt /\ k.sent = req[r].sent /\ k.last = req[r].last /\ k.answer = req[r].answer
        BY DEF Knowledge
      <3> HIDE DEF k
      <3>. QED
        BY <1>3, <2>1, <3>1, <3>2 DEF ArriveGrpc, RequestOK
    <2>. QED
      BY <2>2, <2>3, OneRequest
  <1>. QED
    BY <1>1, <1>2, <1>3

\* The plugins run, and refuse a request or let it through to its target.
LEMMA PluginsKeep ==
    ASSUME IInv, NEW r \in Request,
           Preflight(r) \/ Pass(r) \/ Refuse(r) \/ Forward(r) \/ Resolve(r)
    PROVE  IInv'
  <1>. req[r] \in Knowledge /\ RequestOK(r, req[r]) /\ TablesOK
    BY DEF IInv
  <1>1. CASE Preflight(r)
    <2> DEFINE k == [req[r] EXCEPT !.pc = "plugins", !.todo = Chain(req[r].route)]
    <2>1. /\ req[r].route \in Routes /\ Chain(req[r].route) \in SUBSET Step
          /\ Steps(req[r].route.plugins, 1) \subseteq Chain(req[r].route)
      BY <1>1, ChainSteps DEF Preflight, RequestOK, TablesOK
    <2>2. req' = [req EXCEPT ![r] = k] /\ TablesOK'
      BY <1>1 DEF Preflight, IInv, TablesOK, files, config, balance
    <2>3. RequestOK(r, k)
      <3>1. k \in Knowledge
        BY <2>1 DEF Knowledge, Answer
      <3>2. /\ k.pc = "plugins" /\ k.route = req[r].route /\ k.todo = Chain(req[r].route) /\ k.passed = req[r].passed
            /\ k.attempt = req[r].attempt /\ k.sent = req[r].sent /\ k.last = req[r].last /\ k.answer = req[r].answer
        BY DEF Knowledge
      <3> HIDE DEF k
      <3>. QED
        BY <1>1, <2>1, <3>1, <3>2 DEF Preflight, RequestOK
    <2>. QED
      BY <2>2, <2>3, OneRequest
  <1>2. CASE Pass(r)
    <2>1. PICK step \in req[r].todo :
            req' = [req EXCEPT ![r].todo = @ \ {step}, ![r].passed = @ \union {step}]
      BY <1>2 DEF Pass
    <2>0. step \in Step
      BY DEF Knowledge
    <2> DEFINE k == [req[r] EXCEPT !.todo = @ \ {step}, !.passed = @ \union {step}]
    <2>2. req' = [req EXCEPT ![r] = k] /\ TablesOK'
      BY <1>2, <2>1 DEF Pass, IInv, TablesOK, files, config, balance
    <2>3. RequestOK(r, k)
      <3>1. k \in Knowledge
        BY <2>0 DEF Knowledge, Answer
      <3>2. /\ k.pc = req[r].pc /\ k.route = req[r].route /\ k.todo = req[r].todo \ {step} /\ k.passed = req[r].passed \union {step}
            /\ k.attempt = req[r].attempt /\ k.sent = req[r].sent /\ k.last = req[r].last /\ k.answer = req[r].answer
        BY DEF Knowledge
      <3> HIDE DEF k
      <3>. QED
        BY <1>2, <3>1, <3>2 DEF Pass, RequestOK
    <2>. QED
      BY <2>2, <2>3, OneRequest
  <1>3. CASE Refuse(r)
    <2> DEFINE k == [req[r] EXCEPT !.pc = "done", !.answer = "refused"]
    <2>1. req' = [req EXCEPT ![r] = k] /\ TablesOK'
      BY <1>3 DEF Refuse, IInv, TablesOK, files, config, balance
    <2>2. RequestOK(r, k)
      <3>1. k \in Knowledge
        BY <1>3 DEF Knowledge, Answer
      <3>2. /\ k.pc = "done" /\ k.route = req[r].route /\ k.todo = req[r].todo /\ k.passed = req[r].passed
            /\ k.attempt = req[r].attempt /\ k.sent = req[r].sent /\ k.last = req[r].last /\ k.answer = "refused"
        BY DEF Knowledge
      <3> HIDE DEF k
      <3>. QED
        BY <1>3, <3>1, <3>2 DEF Refuse, RequestOK
    <2>. QED
      BY <2>1, <2>2, OneRequest
  <1>4. CASE Forward(r)
    <2> DEFINE k == IF req[r].target = None
                      THEN [req[r] EXCEPT !.pc = "done", !.heard = "502", !.answer = "502"]
                      ELSE [req[r] EXCEPT !.pc = "sending"]
    <2>1. req' = [req EXCEPT ![r] = k] /\ TablesOK'
      BY <1>4 DEF Forward, IInv, TablesOK, files, config, balance
    <2>3. RequestOK(r, k)
      <3>1. k \in Knowledge
        BY DEF Knowledge, Answer
      <3>2. /\ k.pc = IF req[r].target = None THEN "done" ELSE "sending"
            /\ k.answer = IF req[r].target = None THEN "502" ELSE req[r].answer
            /\ k.route = req[r].route /\ k.todo = req[r].todo /\ k.passed = req[r].passed /\ k.attempt = req[r].attempt /\ k.sent = req[r].sent
        BY DEF Knowledge
      <3> HIDE DEF k
      <3>. QED
        BY <1>4, <3>1, <3>2 DEF Forward, RequestOK
    <2>. QED
      BY <2>1, <2>3, OneRequest
  <1>5. CASE Resolve(r)
    <2>1. PICK target \in Choices(req[r].route) :
            /\ Choose(req[r].route, target)
            /\ req' = [req EXCEPT ![r].heard = "204", ![r].target = target,
                                  ![r].pc = IF target = None THEN "done" ELSE "sending",
                                  ![r].answer = IF target = None THEN "unavailable" ELSE @]
      BY <1>5 DEF Resolve
    <2> DEFINE k == [req[r] EXCEPT !.heard = "204", !.target = target,
                                   !.pc = IF target = None THEN "done" ELSE "sending",
                                   !.answer = IF target = None THEN "unavailable" ELSE @]
    <2>2. req[r].route \in Routes
      BY <1>5 DEF Resolve, RequestOK
    <2>3. TablesOK' /\ target \in Target \union {None}
      BY <1>5, <2>1, <2>2, ChooseTables DEF Resolve
    <2>4. req' = [req EXCEPT ![r] = k]
      BY <2>1 DEF IInv
    <2>5. RequestOK(r, k)
      <3>0. /\ (IF target = None THEN "done" ELSE "sending") \in {"done", "sending"}
            /\ (IF target = None THEN "unavailable" ELSE req[r].answer) \in Answer \union {None}
        BY DEF Knowledge, Answer
      <3>1. k \in Knowledge
        <4>1. ASSUME NEW pc \in {"done", "sending"}, NEW answer \in Answer \union {None}
              PROVE  [req[r] EXCEPT !.heard = "204", !.target = target,
                                    !.pc = pc, !.answer = answer] \in Knowledge
          BY <2>3 DEF Knowledge
        <4>. QED
          BY <3>0, <4>1
      <3>2. /\ k.pc = IF target = None THEN "done" ELSE "sending"
            /\ k.answer = IF target = None THEN "unavailable" ELSE req[r].answer
            /\ k.route = req[r].route /\ k.todo = req[r].todo /\ k.passed = req[r].passed /\ k.attempt = req[r].attempt /\ k.sent = req[r].sent
        BY DEF Knowledge
      <3> HIDE DEF k
      <3>3. req[r].pc = "plugins" /\ req[r].todo = {}
        BY <1>5 DEF Resolve
      <3>. QED
        BY <2>2, <3>1, <3>2, <3>3 DEF RequestOK
    <2>. QED
      BY <2>3, <2>4, <2>5, OneRequest
  <1>. QED
    BY <1>1, <1>2, <1>3, <1>4, <1>5

\* What an attempt, and the end of a request, do to the type of its record.
LEMMA TriedTypes ==
    ASSUME NEW q \in Knowledge, NEW outcome \in Outcome, NEW exc \in Exception \union {None}
    PROVE  /\ [q EXCEPT !.sent = @ + 1, !.last = outcome, !.exc = exc] \in Knowledge
           /\ [q EXCEPT !.attempt = @ + 1] \in Knowledge
  <1>1. q.sent + 1 \in Nat /\ q.attempt + 1 \in Nat
    BY DEF Knowledge
  <1>2. ASSUME NEW n \in Nat
        PROVE  /\ [q EXCEPT !.sent = n, !.last = outcome, !.exc = exc] \in Knowledge
               /\ [q EXCEPT !.attempt = n] \in Knowledge
    BY DEF Knowledge
  <1>. QED
    BY <1>1, <1>2

LEMMA OverTypes ==
    ASSUME NEW q \in Knowledge, NEW answer \in Answer
    PROVE  /\ [q EXCEPT !.pc = "done", !.heard = answer, !.answer = answer] \in Knowledge
           /\ [q EXCEPT !.pc = "done", !.answer = answer, !.heard = answer] \in Knowledge
  BY DEF Knowledge

LEMMA CalledTypes ==
    ASSUME NEW q \in Knowledge, NEW outcome \in Outcome, outcome \in Answer
    PROVE  [q EXCEPT !.pc = "done", !.sent = @ + 1, !.last = outcome, !.answer = outcome]
              \in Knowledge
  <1>1. q.sent + 1 \in Nat
    BY DEF Knowledge
  <1>2. ASSUME NEW n \in Nat
        PROVE  [q EXCEPT !.pc = "done", !.sent = n, !.last = outcome, !.answer = outcome]
                  \in Knowledge
    BY DEF Knowledge
  <1>. QED
    BY <1>1, <1>2

\* The attempts of an HTTP request, and the one call of a gRPC request.
LEMMA SendingKeeps ==
    ASSUME IInv, NEW r \in Request, Attempt(r) \/ Exhausted(r) \/ Call(r) PROVE IInv'
  <1>. req[r] \in Knowledge /\ RequestOK(r, req[r]) /\ TablesOK
    BY DEF IInv
  <1>1. CASE Attempt(r)
    <2>1. PICK outcome \in Status \union Exception :
         LET exc == IF outcome \in Exception THEN outcome ELSE req[r].exc
             answer == IF outcome \in Status THEN outcome ELSE Raised(exc)
             tried == [req[r] EXCEPT !.sent = @ + 1, !.last = outcome, !.exc = exc]
         IN  req' = [req EXCEPT ![r] =
               IF Repeats(req[r].route, req[r].attempt, outcome)
                 THEN Again(tried)
                 ELSE [tried EXCEPT !.pc = "done", !.heard = answer, !.answer = answer]]
      BY <1>1 DEF Attempt
    <2> DEFINE exc == IF outcome \in Exception THEN outcome ELSE req[r].exc
               answer == IF outcome \in Status THEN outcome ELSE Raised(outcome)
               tried == [req[r] EXCEPT !.sent = @ + 1, !.last = outcome, !.exc = exc]
               over == [tried EXCEPT !.pc = "done", !.heard = answer, !.answer = answer]
               k == IF Repeats(req[r].route, req[r].attempt, outcome) THEN Again(tried) ELSE over
    <2>2. req' = [req EXCEPT ![r] = k]
      BY <2>1
    <2>3. TablesOK'
      BY <1>1 DEF Attempt, TablesOK, files, config, balance
    <2>4. /\ r \in Http /\ req[r].pc = "sending" /\ req[r].route \in Routes
          /\ req[r].attempt = req[r].sent /\ req[r].sent \in Nat /\ req[r].answer = None
          /\ req[r].attempt <= req[r].route.retries /\ req[r].route.retries \in Int
          /\ Steps(req[r].route.plugins, 1) \subseteq req[r].passed
      BY <1>1, RoutesOK DEF Attempt, RequestOK, Knowledge
    <2>5. /\ tried \in Knowledge /\ tried.sent = req[r].sent + 1 /\ tried.last = outcome
          /\ tried.attempt = req[r].attempt /\ tried.pc = "sending" /\ tried.answer = None
          /\ tried.route = req[r].route /\ tried.passed = req[r].passed
      <3>1. exc \in Exception \union {None} /\ outcome \in Outcome
        BY DEF Knowledge, Outcome
      <3> HIDE DEF exc
      <3>2. tried \in Knowledge
        BY <3>1, TriedTypes
      <3>. QED
        BY <2>4, <3>1, <3>2 DEF Knowledge
    <2>6. /\ answer \in Answer /\ answer # "refused"
          /\ answer = IF outcome \in Status THEN outcome ELSE Raised(outcome)
      BY PathConstants DEF Raised, Answer
    <2> HIDE DEF tried, answer
    <2>7. CASE Repeats(req[r].route, req[r].attempt, outcome)
      <3>1. k = [tried EXCEPT !.attempt = @ + 1]
        BY <2>7 DEF Again
      <3>2. k \in Knowledge
        BY <2>5, <3>1, TriedTypes DEF Outcome
      <3>3. /\ k.sent = req[r].sent + 1 /\ k.attempt = req[r].attempt + 1 /\ k.pc = "sending"
            /\ k.answer = None /\ k.route = req[r].route /\ k.passed = req[r].passed
        BY <2>5, <3>1 DEF Knowledge
      <3>4. req[r].attempt # req[r].route.retries
        BY <2>7 DEF Repeats
      <3>5. /\ k.attempt = k.sent /\ k.sent \in Nat /\ k.sent > 0
            /\ k.sent <= k.route.retries /\ k.route.retries \in Int
        BY <2>4, <3>3, <3>4
      <3>6. k.sent <= k.route.retries + 1
        BY <3>5
      <3> HIDE DEF k
      <3>. QED
        <4>1. RequestOK(r, k)
          BY <2>4, <3>2, <3>3, <3>5, <3>6, PathConstants DEF RequestOK
        <4>. QED
          BY <2>2, <2>3, <4>1, OneRequest
    <2>8. CASE ~Repeats(req[r].route, req[r].attempt, outcome)
      <3>1. k = over
        BY <2>8
      <3>2. over \in Knowledge
        BY <2>5, <2>6, OverTypes
      <3>3. /\ over.sent = req[r].sent + 1 /\ over.last = outcome /\ over.pc = "done"
            /\ over.answer = answer /\ over.route = req[r].route /\ over.passed = req[r].passed
        BY <2>5 DEF Knowledge
      <3>4. outcome \notin RetryOn \union Caught \/ req[r].attempt = req[r].route.retries
        BY <2>8 DEF Repeats
      <3>. HIDE DEF over, k
      <3>. QED
        <4>1. RequestOK(r, over)
          BY <2>4, <2>6, <3>2, <3>3, <3>4 DEF RequestOK
        <4>. QED
          BY <2>2, <2>3, <3>1, <4>1, OneRequest
    <2>. QED
      BY <2>7, <2>8
  <1>2. CASE Exhausted(r)
    <2> DEFINE k == [req[r] EXCEPT !.pc = "done", !.answer = Raised(req[r].exc),
                                   !.heard = Raised(req[r].exc)]
    <2>1. req' = [req EXCEPT ![r] = k] /\ TablesOK'
      BY <1>2 DEF Exhausted, IInv, TablesOK, files, config, balance
    <2>2. Raised(req[r].exc) \in Answer
      BY DEF Raised, Answer
    <2>3. k \in Knowledge /\ k.sent = req[r].sent /\ k.pc = "done"
      BY <2>2 DEF Knowledge
    <2>4. req[r].sent = 0
      <3>1. /\ req[r].pc = "sending" /\ req[r].attempt > req[r].route.retries
            /\ req[r].route \in Routes /\ req[r].sent \in Nat
        BY <1>2 DEF Exhausted, RequestOK, Knowledge
      <3>. QED
        BY <3>1, RoutesOK DEF RequestOK
    <2> HIDE DEF k
    <2>5. RequestOK(r, k)
      BY <2>3, <2>4 DEF RequestOK
    <2>. QED
      BY <2>1, <2>5, OneRequest
  <1>3. CASE Call(r)
    <2>1. PICK outcome \in Status :
            req' = [req EXCEPT ![r].pc = "done", ![r].sent = @ + 1,
                               ![r].last = outcome, ![r].answer = outcome]
      BY <1>3 DEF Call
    <2> DEFINE k == [req[r] EXCEPT !.pc = "done", !.sent = @ + 1,
                                   !.last = outcome, !.answer = outcome]
    <2>2. req' = [req EXCEPT ![r] = k] /\ TablesOK'
      BY <1>3, <2>1 DEF Call, IInv, TablesOK, files, config, balance
    <2>3. /\ r \notin Http /\ req[r].pc = "sending" /\ req[r].sent = 0
          /\ req[r].route \in Routes /\ Steps(req[r].route.plugins, 1) \subseteq req[r].passed
      <3>1. r \in Grpc /\ r \notin Http /\ req[r].pc = "sending" /\ req[r].sent \in Nat
        BY <1>3, PathConstants DEF Call, Knowledge
      <3>. QED
        BY <3>1 DEF RequestOK
    <2>4. outcome # "refused" /\ outcome \in Answer /\ outcome \in Outcome
      BY PathConstants DEF Answer, Outcome
    <2>5. /\ k \in Knowledge /\ k.pc = "done" /\ k.sent = 1 /\ k.last = outcome
          /\ k.answer = outcome /\ k.route = req[r].route /\ k.passed = req[r].passed
      <3>1. k \in Knowledge
        BY <2>4, CalledTypes
      <3>. QED
        BY <2>3, <3>1 DEF Knowledge
    <2> HIDE DEF k
    <2>6. RequestOK(r, k)
      BY <2>3, <2>4, <2>5 DEF RequestOK
    <2>. QED
      BY <2>2, <2>6, OneRequest
  <1>. QED
    BY <1>1, <1>2, <1>3
-----------------------------------------------------------------------------
(***************************************************************************)
(* Reloads, and the invariant                                              *)
(***************************************************************************)
\* Edits and reloads leave the requests alone, and what they hold.
LEMMA ConfigKeeps ==
    ASSUME IInv, TablesOK', UNCHANGED req PROVE IInv'
  BY DEF IInv, RequestOK

\* A reload keeps the tables in their types.
LEMMA ReloadTables ==
    ASSUME TablesOK, Reload PROVE TablesOK'
  <1>1. routesYaml \in Texts /\ UNCHANGED files /\ loaded' = routesYaml
    BY DEF TablesOK, Reload, Texts
  <1>2. CASE gatewayYaml = Bad
    BY <1>1, <1>2 DEF TablesOK, Reload, files, balance
  <1>3. CASE gatewayYaml # Bad
    <2>1. globals' = gatewayYaml /\ engine' = routesYaml
      BY <1>3 DEF Reload, UpdateRoutes
    <2>2. counter' \in [RouteId -> Nat] /\ stale' \in [RouteId -> Nat]
          /\ picked' \in [RouteId -> [Target -> Nat]]
      BY <1>3 DEF Reload, UpdateRoutes, TablesOK
    <2>. QED
      BY <1>1, <1>3, <2>1, <2>2 DEF TablesOK, files
  <1>. QED
    BY <1>2, <1>3

\* A worker starts with what the files hold and no requests.
LEMMA InitIInv == Init => IInv
  <1>. SUFFICES ASSUME Init PROVE IInv
    OBVIOUS
  <1>1. TablesOK
    BY PathConstants DEF Init, TablesOK, Texts
  <1>2. Fresh \in Knowledge
    BY DEF Fresh, Knowledge
  <1>3. \A r \in Request : RequestOK(r, Fresh)
    BY <1>2 DEF Fresh, RequestOK
  <1>. QED
    BY <1>1, <1>2, <1>3 DEF Init, IInv

\* IInv is inductive.
LEMMA NextIInv == IInv /\ [Next]_vars => IInv'
  <1>. SUFFICES ASSUME IInv, [Next]_vars PROVE IInv'
    OBVIOUS
  <1>1. ASSUME NEW r \in Request, Handle(r) PROVE IInv'
    BY <1>1, PluginsKeep, SendingKeeps DEF Handle
  <1>2. ASSUME NEW text \in RoutesText, EditRoutes(text) PROVE IInv'
    <2>1. TablesOK'
      BY <1>2, PathConstants DEF EditRoutes, IInv, TablesOK, config, balance
    <2>. QED
      BY <1>2, <2>1, ConfigKeeps DEF EditRoutes
  <1>3. ASSUME NEW text \in GatewayText, EditGateway(text) PROVE IInv'
    <2>1. TablesOK'
      BY <1>3, PathConstants DEF EditGateway, IInv, TablesOK, config, balance
    <2>. QED
      BY <1>3, <2>1, ConfigKeeps DEF EditGateway
  <1>4. CASE Reload
    BY <1>4, ReloadTables, ConfigKeeps DEF IInv, Reload
  <1>5. CASE UNCHANGED vars
    <2>1. TablesOK'
      BY <1>5 DEF vars, IInv, TablesOK, files, config, balance
    <2>. QED
      BY <1>5, <2>1, ConfigKeeps DEF vars
  <1>. QED
    BY <1>1, <1>2, <1>3, <1>4, <1>5, ArrivalKeeps DEF Next
-----------------------------------------------------------------------------
\* All variables keep their types.
THEOREM PathTypeCorrect == Spec => []TypeOK
  <1>1. IInv => TypeOK
    BY DEF IInv, TypeOK, TablesOK
  <1>. QED
    BY <1>1, InitIInv, NextIInv, PTL DEF Spec

\* No request reaches an upstream more often than its route's retries allow,
\* whatever is reloaded while it runs (proxy.py:119-156).
THEOREM SendsBounded == Spec => []SentBound
  <1>1. IInv => SentBound
    BY DEF IInv, RequestOK, SentBound
  <1>. QED
    BY <1>1, InitIInv, NextIInv, PTL DEF Spec

\* The answer is what the last attempt came to, and it is final (proxy.py:131-156).
THEOREM LastAttemptDecides == Spec => []LastDecides
  <1>1. IInv => LastDecides
    BY DEF IInv, RequestOK, LastDecides
  <1>. QED
    BY <1>1, InitIInv, NextIInv, PTL DEF Spec

\* Nothing is sent upstream before the plugins of its route have let it through,
\* and nothing a plugin refused (pipeline.py:77-139, grpc_proxy.py:273-318).
THEOREM SendsAreChecked == Spec => []Checked
  <1>1. IInv => Checked
    BY DEF IInv, RequestOK, Checked
  <1>. QED
    BY <1>1, InitIInv, NextIInv, PTL DEF Spec

\* The routing table and the global plugins change together (loader.py:233-242).
THEOREM ReloadsApplyTogether == Spec => AppliedTogether
  <1>1. [Next]_vars =>
           [<<engine, globals>>' # <<engine, globals>> =>
                engine' = routesYaml /\ globals' = gatewayYaml]_vars
    <2>. SUFFICES ASSUME Next
                  PROVE  \/ UNCHANGED <<engine, globals>>
                         \/ engine' = routesYaml /\ globals' = gatewayYaml
      OBVIOUS
    <2>. USE DEF config
    <2>1. ASSUME NEW r \in Request, NotFound(r) \/ ArriveHttp(r) \/ ArriveGrpc(r)
          PROVE  UNCHANGED <<engine, globals>>
      BY <2>1 DEF NotFound, ArriveHttp, ArriveGrpc
    <2>2. ASSUME NEW r \in Request, Handle(r) PROVE UNCHANGED <<engine, globals>>
      BY <2>2 DEF Handle, Preflight, Pass, Refuse, Forward, Resolve, Attempt, Exhausted, Call
    <2>3. ASSUME NEW text, EditRoutes(text) \/ EditGateway(text)
          PROVE  UNCHANGED <<engine, globals>>
      BY <2>3 DEF EditRoutes, EditGateway
    <2>4. ASSUME Reload
          PROVE  \/ UNCHANGED <<engine, globals>>
                 \/ engine' = routesYaml /\ globals' = gatewayYaml
      BY <2>4 DEF Reload, UpdateRoutes
    <2>. QED
      BY <2>1, <2>2, <2>3, <2>4 DEF Next
  <1>. QED
    BY <1>1, PTL DEF Spec, AppliedTogether
-----------------------------------------------------------------------------
(***************************************************************************)
(* Turns of round_robin                                                    *)
(***************************************************************************)
\* How many turns from now on target k comes, when `at` is next of n.
Away(n, at, k) == IF at <= k THEN k - at ELSE k - at + n

\* The turns of the targets so far: those that come sooner have had no more than
\* those that come later, and at most one less.
Fair(turns, n, at) ==
    /\ turns \in [1..n -> Nat]
    /\ \A j, k \in 1..n : Away(n, at, j) <= Away(n, at, k) =>
                            turns[j] <= turns[k] /\ turns[k] <= turns[j] + 1

Even(route) == Rotates(route) /\ Cardinality(Targets(route)) = Len(route.targets)
At(route) == 1 + (counter[route.id] % Len(route.targets))

\* A turn was a pick, or one of the turns that older versions of the route took.
Counted(turns, route) ==
    \A k \in 1..Len(route.targets) :
        /\ picked[route.id][route.targets[k]] <= turns[k]
        /\ turns[k] <= picked[route.id][route.targets[k]] + stale[route.id]

TurnsOK(route) ==
    \E turns : Fair(turns, Len(route.targets), At(route)) /\ Counted(turns, route)

Alternating == \A i \in DOMAIN engine : Even(engine[i]) => TurnsOK(engine[i])

\* No table has two routes of one id: such routes would share a counter.
OneId == \A text \in Texts : \A i, j \in DOMAIN text : text[i].id = text[j].id => i = j

\* Dividing the next number.
LEMMA Division ==
    ASSUME NEW n \in Nat \ {0}, NEW q \in Int, NEW q2 \in Int,
           NEW r \in 0..(n - 1), NEW r2 \in 0..(n - 1), n * q + r + 1 = n * q2 + r2
    PROVE  r2 = IF r + 1 = n THEN 0 ELSE r + 1
  <1>1. n * (q2 - q) = n * q2 - n * q
    OBVIOUS
  <1>2. n * (q2 - q) = r + 1 - r2
    BY <1>1
  <1>3. CASE q2 - q = 0
    BY <1>2, <1>3
  <1>4. CASE q2 - q = 1
    BY <1>2, <1>4
  <1>5. CASE q2 - q >= 2
    <2>1. n * (q2 - q) >= n * 2
      BY <1>5
    <2>. QED
      BY <1>2, <2>1
  <1>6. CASE q2 - q <= -1
    <2>1. n * (q2 - q) <= -n
      BY <1>6
    <2>. QED
      BY <1>2, <2>1
  <1>. QED
    BY <1>3, <1>4, <1>5, <1>6

\* The next number is one further on, or starts again.
LEMMA NextRemainder ==
    ASSUME NEW n \in Nat \ {0}, NEW c \in Nat
    PROVE  (c + 1) % n = IF (c % n) + 1 = n THEN 0 ELSE (c % n) + 1
  <1> DEFINE q == c \div n
             q2 == (c + 1) \div n
             r == c % n
             r2 == (c + 1) % n
  <1>1. r \in 0..(n - 1) /\ q \in Int /\ c = n * q + r
    OBVIOUS
  <1>2. r2 \in 0..(n - 1) /\ q2 \in Int /\ c + 1 = n * q2 + r2
    OBVIOUS
  <1> HIDE DEF q, q2, r, r2
  <1>3. r2 = IF r + 1 = n THEN 0 ELSE r + 1
    <2>1. n * q + r + 1 = n * q2 + r2
      BY <1>1, <1>2
    <2>. QED
      BY <1>1, <1>2, <2>1, Division
  <1>. QED
    BY <1>3 DEF r, r2

\* Whose turn it is has one more, and is then the last to come.
LEMMA FairTurn ==
    ASSUME NEW n \in Nat \ {0}, NEW at \in 1..n, NEW turns, Fair(turns, n, at)
    PROVE  Fair([turns EXCEPT ![at] = @ + 1], n, IF at = n THEN 1 ELSE at + 1)
  <1> DEFINE next == IF at = n THEN 1 ELSE at + 1
             after == [turns EXCEPT ![at] = @ + 1]
  <1>1. turns \in [1..n -> Nat] /\ after \in [1..n -> Nat] /\ next \in 1..n
    BY DEF Fair
  <1>2. \A k \in 1..n : after[k] = IF k = at THEN turns[k] + 1 ELSE turns[k]
    BY <1>1
  <1>3. \A k \in 1..n : /\ Away(n, at, k) \in 0..(n - 1)
                        /\ Away(n, at, k) = 0 <=> k = at
                        /\ Away(n, next, k) = IF k = at THEN n - 1 ELSE Away(n, at, k) - 1
    BY DEF Away
  <1>4. \A j, k \in 1..n : Away(n, at, j) <= Away(n, at, k) =>
                            turns[j] <= turns[k] /\ turns[k] <= turns[j] + 1
    BY DEF Fair
  <1> HIDE DEF next, after
  <1>5. ASSUME NEW j \in 1..n, NEW k \in 1..n, Away(n, next, j) <= Away(n, next, k)
        PROVE  after[j] <= after[k] /\ after[k] <= after[j] + 1
    <2>1. turns[j] \in Nat /\ turns[k] \in Nat
      BY <1>1
    <2>2. CASE j = at /\ k = at
      BY <1>2, <2>1, <2>2
    <2>3. CASE j # at /\ k = at
      BY <1>2, <1>3, <1>4, <2>1, <2>3
    <2>4. CASE j # at /\ k # at
      BY <1>2, <1>3, <1>4, <1>5, <2>1, <2>4
    <2>5. CASE j = at /\ k # at
      <3>1. Away(n, next, j) = n - 1 /\ Away(n, next, k) < n - 1
        BY <1>3, <2>5
      <3>. QED
        BY <1>3, <1>5, <3>1
    <2>. QED
      BY <2>2, <2>3, <2>4, <2>5
  <1>. QED
    BY <1>1, <1>5 DEF Fair, next, after

\* The targets of a route that names each once are as many as their places.
LEMMA Distinct ==
    ASSUME NEW route \in Routes, Even(route)
    PROVE  /\ Len(route.targets) \in Nat \ {0} /\ DOMAIN route.targets = 1..Len(route.targets)
           /\ route.targets \in Seq(Target)
           /\ \A j, k \in 1..Len(route.targets) :
                 route.targets[j] = route.targets[k] => j = k
  <1> DEFINE n == Len(route.targets)
             f == [k \in 1..n |-> route.targets[k]]
  <1>1. /\ route.targets \in Seq(Target) /\ route.targets # <<>>
        /\ n \in Nat \ {0} /\ DOMAIN route.targets = 1..n
    <2>1. route.targets \in Seq(Target) /\ route.targets # <<>>
      BY RoutesOK DEF Even, Rotates
    <2>. QED
      BY <2>1
  <1>2. f \in Surjection(1..n, Targets(route))
    BY <1>1 DEF Surjection, Targets
  <1>3. IsFiniteSet(1..n) /\ Cardinality(1..n) = n
    BY <1>1, FS_Interval
  <1>4. Cardinality(Targets(route)) = n
    BY DEF Even
  <1> HIDE DEF n, f
  <1>5. f \in Injection(1..n, Targets(route))
    BY <1>2, <1>3, <1>4, FS_Surjection
  <1>6. \A j, k \in 1..n : f[j] = f[k] => j = k
    BY <1>5 DEF Injection, IsInjective
  <1>. QED
    BY <1>1, <1>6 DEF f, n

\* A choice takes the turn of a target, for the route of the table or for an
\* older version of it.
LEMMA ChooseAlternates ==
    ASSUME OneId, TablesOK, Alternating, NEW chosen \in Routes, NEW target,
           Choose(chosen, target), UNCHANGED engine
    PROVE  Alternating'
  <1> SUFFICES ASSUME NEW i \in DOMAIN engine, Even(engine[i]) PROVE TurnsOK(engine[i])'
    BY DEF Alternating, Even, Rotates, Targets
  <1> DEFINE route == engine[i]
             n == Len(route.targets)
             at == At(route)
             t(k) == route.targets[k]
  <1>1. route \in Routes /\ route' = route /\ engine \in Texts
    BY RoutesOK DEF TablesOK
  <1>2. /\ n \in Nat \ {0} /\ route.targets \in Seq(Target)
        /\ \A j, k \in 1..n : t(j) = t(k) => j = k
        /\ \A k \in 1..n : t(k) \in Target
    BY <1>1, Distinct
  <1>3. route.id \in RouteId /\ counter[route.id] \in Nat /\ stale[route.id] \in Nat
    BY <1>1 DEF RouteId, TablesOK
  <1>4. \A k \in 1..n : picked[route.id][t(k)] \in Nat
    BY <1>2, <1>3 DEF TablesOK
  <1>5. PICK turns : Fair(turns, n, at) /\ Counted(turns, route)
    BY DEF Alternating, TurnsOK
  <1>6. at \in 1..n
    BY <1>2, <1>3 DEF At
  <1>7. CASE chosen.id # route.id \/ ~Rotates(chosen)
    <2>1. /\ counter'[route.id] = counter[route.id] /\ stale'[route.id] = stale[route.id]
          /\ picked'[route.id] = picked[route.id]
      BY <1>7, <1>3 DEF Choose, Count, TablesOK
    <2>2. At(route)' = at
      BY <1>1, <2>1 DEF At
    <2>3. Counted(turns, route)'
      BY <1>1, <1>5, <2>1 DEF Counted
    <2>. QED
      BY <1>1, <1>5, <2>2, <2>3 DEF TurnsOK
  <1>8. CASE chosen.id = route.id /\ Rotates(chosen)
    <2>0. PICK after : after = [turns EXCEPT ![at] = @ + 1]
      OBVIOUS
    <2>1. counter'[route.id] = counter[route.id] + 1
      BY <1>3, <1>8 DEF Choose, Count, TablesOK
    <2>2. At(route)' = IF at = n THEN 1 ELSE at + 1
      <3>1. (counter[route.id] + 1) % n =
               IF (counter[route.id] % n) + 1 = n THEN 0 ELSE (counter[route.id] % n) + 1
        BY <1>2, <1>3, NextRemainder
      <3>2. counter[route.id] % n \in 0..(n - 1)
        BY <1>2, <1>3
      <3>. QED
        BY <1>1, <1>2, <2>1, <3>1, <3>2 DEF At
    <2>3. Fair(after, n, At(route)')
      <3> HIDE DEF n, at
      <3>. QED
        BY <1>2, <1>5, <1>6, <2>0, <2>2, FairTurn
    <2>4. \A k \in 1..n : /\ turns[k] \in Nat
                          /\ after[k] = IF k = at THEN turns[k] + 1 ELSE turns[k]
      BY <1>5, <1>6, <2>0 DEF Fair
    <2>5. \A k \in 1..n : /\ picked[route.id][t(k)] <= turns[k]
                          /\ turns[k] <= picked[route.id][t(k)] + stale[route.id]
      BY <1>5 DEF Counted
    <2>6. CASE Current(chosen)
      <3>1. chosen = route
        BY <1>1, <1>8, <2>6 DEF Current, OneId
      <3>2. target = t(at)
        BY <1>8, <3>1 DEF Choose, Choices, Rotates, At
      <3>3. stale' = stale /\ picked' = [picked EXCEPT ![route.id][t(at)] = @ + 1]
        BY <1>8, <2>6, <3>1, <3>2 DEF Choose
      <3>4. \A k \in 1..n : picked'[route.id][t(k)] =
               IF k = at THEN picked[route.id][t(k)] + 1 ELSE picked[route.id][t(k)]
        BY <1>2, <1>3, <1>6, <3>3 DEF TablesOK
      <3> HIDE DEF at, n
      <3>5. \A k \in 1..n : /\ picked'[route.id][t(k)] <= after[k]
                            /\ after[k] <= picked'[route.id][t(k)] + stale'[route.id]
        BY <1>3, <1>4, <2>4, <2>5, <3>3, <3>4
      <3>6. Counted(after, route)'
        BY <1>1, <3>5 DEF Counted, n
      <3>. QED
        BY <1>1, <2>3, <3>6 DEF TurnsOK, n
    <2>7. CASE ~Current(chosen)
      <3>1. picked' = picked /\ stale'[route.id] = stale[route.id] + 1
        BY <1>3, <1>8, <2>7 DEF Choose, TablesOK
      <3> HIDE DEF at, n
      <3>2. \A k \in 1..n : /\ picked'[route.id][t(k)] <= after[k]
                            /\ after[k] <= picked'[route.id][t(k)] + stale'[route.id]
        BY <1>3, <1>4, <2>4, <2>5, <3>1
      <3>3. Counted(after, route)'
        BY <1>1, <3>2 DEF Counted, n
      <3>. QED
        BY <1>1, <2>3, <3>3 DEF TurnsOK, n
    <2>. QED
      BY <2>6, <2>7
  <1>. QED
    BY <1>7, <1>8

\* A table that has just been applied has had no turns.
Unpicked ==
    /\ picked = [id \in RouteId |-> [t \in Target |-> 0]]
    /\ stale = [id \in RouteId |-> 0]

LEMMA NoTurns == TablesOK /\ Unpicked => Alternating
  <1> SUFFICES ASSUME TablesOK, Unpicked, NEW i \in DOMAIN engine, Even(engine[i])
               PROVE  TurnsOK(engine[i])
    BY DEF Alternating
  <1> DEFINE route == engine[i]
             n == Len(route.targets)
             turns == [k \in 1..n |-> 0]
  <1>1. route \in Routes /\ route.id \in RouteId
    BY RoutesOK DEF TablesOK, RouteId
  <1>2. n \in Nat \ {0} /\ \A k \in 1..n : route.targets[k] \in Target
    BY <1>1, Distinct
  <1>3. Fair(turns, n, At(route))
    BY DEF Fair
  <1>4. Counted(turns, route)
    BY <1>1, <1>2 DEF Counted, Unpicked
  <1>. QED
    BY <1>3, <1>4 DEF TurnsOK

LEMMA NextAlternates ==
    ASSUME OneId, IInv, Alternating, [Next]_vars PROVE Alternating'
  <1>1. TablesOK /\ TablesOK'
    BY NextIInv DEF IInv
  <1>2. ASSUME UNCHANGED <<engine, balance>> PROVE Alternating'
    BY <1>2 DEF balance, Alternating, Even, Rotates, Targets, TurnsOK, At, Counted
  <1>3. ASSUME NEW r \in Request, ArriveHttp(r) PROVE Alternating'
    <2>1. Matched(r) \in Routes /\ UNCHANGED engine
      BY <1>1, <1>3, MatchedRoute DEF ArriveHttp, TablesOK, config
    <2>2. PICK target : Choose(Matched(r), target)
      BY <1>3 DEF ArriveHttp
    <2>. QED
      BY <1>1, <2>1, <2>2, ChooseAlternates
  <1>4. ASSUME NEW r \in Request, Resolve(r) PROVE Alternating'
    <2>1. req[r].route \in Routes /\ UNCHANGED engine
      BY <1>4 DEF IInv, RequestOK, Resolve, config
    <2>2. PICK target : Choose(req[r].route, target)
      BY <1>4 DEF Resolve
    <2>. QED
      BY <1>1, <2>1, <2>2, ChooseAlternates
  <1>5. CASE Reload
    <2>1. CASE gatewayYaml = Bad
      BY <1>2, <1>5, <2>1 DEF Reload
    <2>2. CASE gatewayYaml # Bad
      <3>1. Unpicked'
        BY <1>5, <2>2 DEF Reload, UpdateRoutes, Unpicked
      <3>2. (TablesOK /\ Unpicked => Alternating)'
        BY NoTurns, PTL
      <3>. QED
        BY <1>1, <3>1, <3>2
    <2>. QED
      BY <2>1, <2>2
  <1>6. ASSUME NEW r \in Request,
               \/ NotFound(r) \/ ArriveGrpc(r) \/ Preflight(r) \/ Pass(r) \/ Refuse(r)
               \/ Forward(r) \/ Attempt(r) \/ Exhausted(r) \/ Call(r)
        PROVE  UNCHANGED <<engine, balance>>
    BY <1>6 DEF NotFound, ArriveGrpc, Preflight, Pass, Refuse, Forward, Attempt, Exhausted,
                Call, config
  <1>7. ASSUME NEW text, EditRoutes(text) \/ EditGateway(text)
        PROVE  UNCHANGED <<engine, balance>>
    BY <1>7 DEF EditRoutes, EditGateway, config
  <1>8. UNCHANGED vars => UNCHANGED <<engine, balance>>
    BY DEF vars, config
  <1>. QED
    BY <1>2, <1>3, <1>4, <1>5, <1>6, <1>7, <1>8 DEF Next, Handle

\* round_robin uses the targets of a route evenly, but for the turns that calls
\* on older versions of the route took (router.py:162-171).
THEOREM TargetsBalanced == ASSUME OneId PROVE Spec => []Balanced
  <1>1. Init => IInv /\ Alternating
    BY InitIInv, NoTurns DEF Init, IInv, Unpicked
  <1>2. IInv /\ Alternating /\ [Next]_vars => (IInv /\ Alternating)'
    BY NextIInv, NextAlternates
  <1>3. ASSUME IInv, Alternating PROVE Balanced
    <2> SUFFICES ASSUME NEW i \in DOMAIN engine, Even(engine[i]),
                        NEW t \in Targets(engine[i]), NEW u \in Targets(engine[i])
                 PROVE  picked[engine[i].id][t] <=
                            picked[engine[i].id][u] + 1 + stale[engine[i].id]
      BY DEF Balanced, Even
    <2> DEFINE route == engine[i]
               n == Len(route.targets)
               at == At(route)
    <2>0. TablesOK /\ engine \in Seq(Routes)
      BY <1>3, RoutesOK DEF IInv, TablesOK
    <2>1. route \in Routes /\ route.id \in RouteId
      BY <2>0 DEF RouteId
    <2>2. n \in Nat \ {0} /\ DOMAIN route.targets = 1..n /\ route.targets \in Seq(Target)
      BY <2>1, Distinct
    <2>3. PICK j \in 1..n, k \in 1..n : t = route.targets[j] /\ u = route.targets[k]
      BY <2>2 DEF Targets
    <2>4. PICK turns : Fair(turns, n, at) /\ Counted(turns, route)
      BY <1>3 DEF Alternating, TurnsOK
    <2>5. at \in 1..n
      BY <2>0, <2>1, <2>2 DEF TablesOK, At
    <2>6. /\ turns[j] \in Nat /\ turns[k] \in Nat /\ stale[route.id] \in Nat
          /\ picked[route.id][t] \in Nat /\ picked[route.id][u] \in Nat
      <3>1. t \in Target /\ u \in Target
        BY <2>2, <2>3
      <3>2. turns[j] \in Nat /\ turns[k] \in Nat
        BY <2>4 DEF Fair
      <3>. QED
        BY <2>0, <2>1, <3>1, <3>2 DEF TablesOK
    <2>7. Away(n, at, j) \in Int /\ Away(n, at, k) \in Int
      BY <2>2, <2>5 DEF Away
    <2> HIDE DEF n, at
    <2>8. turns[j] <= turns[k] + 1
      BY <2>4, <2>6, <2>7 DEF Fair
    <2>9. /\ picked[route.id][t] <= turns[j]
          /\ turns[k] <= picked[route.id][u] + stale[route.id]
      BY <2>3, <2>4 DEF Counted, n
    <2>. QED
      BY <2>6, <2>8, <2>9
  <1>. QED
    BY <1>1, <1>2, <1>3, PTL DEF Spec
=============================================================================
