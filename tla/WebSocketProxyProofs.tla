------------------------ MODULE WebSocketProxyProofs ------------------------
(***************************************************************************)
(* Theorems about WebSocketProxy, for any messages and any number of them. *)
(***************************************************************************)
EXTENDS WebSocketProxy, TLAPS

\* What the handler's stage says of sockets and pumps.
StageOK ==
    /\ stage # "over" => closes = 0 /\ ~failed /\ client # "closed" /\ upstream # "closed"
    /\ stage \in {"matching", "dialing"} => upstream = "none"
    /\ stage # "pumping" => client # "open"
    /\ \A d \in Direction : pump[d] \in {"receiving", "sending"} => stage = "pumping"
    /\ stage \in {"matching", "dialing", "accepting"} =>
          \A d \in Direction : pump[d] = "off" /\ taken[d] = 0 /\ delivered[d] = <<>>

\* A pump that waits has passed on all it took, one that sends holds one more.
PumpOK ==
    \A d \in Direction :
        /\ taken[d] <= Len(sent[d])
        /\ pump[d] = "receiving" => taken[d] = Len(delivered[d])
        /\ pump[d] = "sending" => taken[d] = Len(delivered[d]) + 1

IInv == TypeOK /\ StageOK /\ PumpOK /\ NothingLeaks
-----------------------------------------------------------------------------
\* A session starts with one socket and both pumps off.
LEMMA InitIInv == Init => IInv
  <1>. SUFFICES ASSUME Init PROVE IInv
    OBVIOUS
  <1>1. <<>> \in Seq(Message) /\ Len(<<>>) = 0
    OBVIOUS
  <1>2. TypeOK
    <2>1. sent \in [Direction -> Seq(Message)] /\ delivered \in [Direction -> Seq(Message)]
      BY <1>1 DEF Init
    <2>2. taken \in [Direction -> Nat]
      BY DEF Init
    <2>3. pump \in [Direction -> {"off", "receiving", "sending", "ended"}]
      BY DEF Init
    <2>4. /\ stage \in Stages /\ closes \in 0..2
          /\ client \in {"connecting", "open", "gone", "closed"}
          /\ upstream \in {"none", "open", "gone", "closed"}
      BY DEF Init, Stages
    <2>5. failed \in BOOLEAN
      BY DEF Init
    <2>. QED
      BY <2>1, <2>2, <2>3, <2>4, <2>5 DEF TypeOK
  <1>3. PumpOK
    BY <1>1 DEF Init, PumpOK
  <1>. QED
    BY <1>2, <1>3 DEF Init, IInv, StageOK, NothingLeaks

\* The steps of the handler.
LEMMA HandlerKeeps ==
    ASSUME IInv, Handler PROVE IInv'
  <1>. USE DEF ends, pumps, Direction
  <1>1. CASE Reject
    BY <1>1 DEF Reject, Closed, IInv, TypeOK, StageOK, PumpOK, NothingLeaks, Stages
  <1>2. CASE Dial
    BY <1>2 DEF Dial, IInv, TypeOK, StageOK, PumpOK, NothingLeaks, Stages
  <1>3. CASE DialFails
    BY <1>3 DEF DialFails, Closed, IInv, TypeOK, StageOK, PumpOK, NothingLeaks, Stages
  <1>4. CASE Connect
    BY <1>4 DEF Connect, IInv, TypeOK, StageOK, PumpOK, NothingLeaks, Stages
  <1>5. CASE Accept
    BY <1>5 DEF Accept, IInv, TypeOK, StageOK, PumpOK, NothingLeaks, Stages
  <1>6. CASE AcceptFails
    BY <1>6 DEF AcceptFails, Closed, IInv, TypeOK, StageOK, PumpOK, NothingLeaks, Stages
  <1>7. CASE Finish
    BY <1>7 DEF Finish, Closed, IInv, TypeOK, StageOK, PumpOK, NothingLeaks, Stages
  <1>. QED
    BY <1>1, <1>2, <1>3, <1>4, <1>5, <1>6, <1>7 DEF Handler

\* The steps of a pump move one message or end it.
LEMMA PumpKeeps ==
    ASSUME IInv, NEW d \in Direction, Pump(d) PROVE IInv'
  <1>. USE DEF ends, Stages
  <1>. pump[d] \in {"receiving", "sending"} /\ stage = "pumping"
    BY DEF Pump, Receive, Forward, ForwardFails, Hangup, IInv, StageOK
  <1>1. CASE Receive(d)
    BY <1>1 DEF Receive, IInv, TypeOK, StageOK, PumpOK, NothingLeaks
  <1>2. CASE Forward(d)
    <2>1. sent[d] \in Seq(Message) /\ delivered[d] \in Seq(Message)
          /\ taken[d] \in 1..Len(sent[d]) /\ taken[d] = Len(delivered[d]) + 1
      BY <1>2 DEF Forward, IInv, TypeOK, PumpOK
    <2>2. sent[d][taken[d]] \in Message
      BY <2>1
    <2>3. /\ Append(delivered[d], sent[d][taken[d]]) \in Seq(Message)
          /\ Len(Append(delivered[d], sent[d][taken[d]])) = taken[d]
      BY <2>1, <2>2
    <2>4. TypeOK'
      BY <1>2, <2>3 DEF Forward, IInv, TypeOK
    <2>5. PumpOK'
      BY <1>2, <2>1, <2>3 DEF Forward, IInv, TypeOK, PumpOK
    <2>. QED
      BY <1>2, <2>4, <2>5 DEF Forward, IInv, TypeOK, StageOK, NothingLeaks
  <1>3. CASE ForwardFails(d) \/ Hangup(d)
    <2>1. /\ UNCHANGED <<stage, ends, taken, delivered, closes, failed>>
          /\ pump' = [pump EXCEPT ![d] = "ended"]
      BY <1>3 DEF ForwardFails, Hangup
    <2>2. TypeOK'
      BY <2>1 DEF IInv, TypeOK
    <2>3. \A e \in Direction : pump'[e] = pump[e] \/ pump'[e] = "ended"
      BY <2>1 DEF IInv, TypeOK
    <2>. QED
      BY <2>1, <2>2, <2>3 DEF IInv, StageOK, PumpOK, NothingLeaks
  <1>. QED
    BY <1>1, <1>2, <1>3 DEF Pump

\* What the two ends do.
LEMMA EndsKeep ==
    ASSUME IInv, Ends PROVE IInv'
  <1>. USE DEF pumps, Stages
  <1>1. CASE ClientLeaves \/ UpstreamLeaves
    BY <1>1 DEF ClientLeaves, UpstreamLeaves, IInv, TypeOK, StageOK, PumpOK, NothingLeaks
  <1>2. ASSUME NEW d \in Direction, NEW m \in Message, Send(d, m) PROVE IInv'
    <2>1. /\ sent' \in [Direction -> Seq(Message)]
          /\ \A e \in Direction : Len(sent[e]) <= Len(sent'[e])
      BY <1>2 DEF Send, IInv, TypeOK
    <2>2. PumpOK'
      BY <1>2, <2>1 DEF Send, IInv, TypeOK, PumpOK
    <2>. QED
      BY <1>2, <2>1, <2>2 DEF Send, IInv, TypeOK, StageOK, NothingLeaks
  <1>. QED
    BY <1>1, <1>2 DEF Ends

\* IInv is inductive.
LEMMA NextIInv == IInv /\ [Next]_vars => IInv'
  <1>. SUFFICES ASSUME IInv, [Next]_vars PROVE IInv'
    OBVIOUS
  <1>1. CASE UNCHANGED vars
    BY <1>1 DEF vars, ends, pumps, IInv, TypeOK, StageOK, PumpOK, NothingLeaks
  <1>. QED
    BY <1>1, HandlerKeeps, PumpKeeps, EndsKeep DEF Next
-----------------------------------------------------------------------------
\* All variables keep their types.
THEOREM SessionTypeCorrect == Spec => []TypeOK
  <1>1. IInv => TypeOK
    BY DEF IInv
  <1>. QED
    BY <1>1, InitIInv, NextIInv, PTL DEF Spec

\* However a session ends, both its sockets are closed
\* (websocket_listener.py:57-99).
THEOREM SessionsDoNotLeak == Spec => []NothingLeaks
  <1>1. IInv => NothingLeaks
    BY DEF IInv
  <1>. QED
    BY <1>1, InitIInv, NextIInv, PTL DEF Spec
-----------------------------------------------------------------------------
\* The handler's steps open the relay, end it, or are none of its.
LEMMA HandlerRefines ==
    ASSUME IInv, Handler
    PROVE  Relaying!Open \/ Relaying!End \/ UNCHANGED Relaying!vars
  <1>. USE DEF ends, pumps, Relaying!Open, Relaying!End, Relaying!vars, phase
  <1>1. CASE Reject \/ DialFails \/ AcceptFails \/ Finish
    <2>1. phase # "over" /\ phase' = "over" /\ UNCHANGED <<sent, delivered>>
      BY <1>1 DEF Reject, DialFails, AcceptFails, Finish
    <2>. QED
      BY <2>1
  <1>2. CASE Dial \/ Connect
    BY <1>2 DEF Dial, Connect
  <1>3. CASE Accept
    BY <1>3 DEF Accept
  <1>. QED
    BY <1>1, <1>2, <1>3 DEF Handler

\* Every step of a session is one of the relay or none.
LEMMA NextRefines ==
    ASSUME IInv, [Next]_vars PROVE [Relaying!Next]_(Relaying!vars)
  <1>1. CASE Handler
    BY <1>1, HandlerRefines DEF Relaying!Next
  <1>2. ASSUME NEW d \in Direction, Pump(d) PROVE [Relaying!Next]_(Relaying!vars)
    <2>1. CASE Forward(d)
      <3>1. /\ taken[d] = Len(delivered[d]) + 1 /\ taken[d] <= Len(sent[d])
            /\ stage = "pumping" /\ stage' = "pumping"
            /\ sent[d] \in Seq(Message) /\ delivered[d] \in Seq(Message)
        BY <2>1 DEF Forward, IInv, TypeOK, PumpOK, StageOK
      <3>2. delivered' = [delivered EXCEPT ![d] = Append(@, sent[d][Len(@) + 1])]
        BY <2>1, <3>1 DEF Forward
      <3>3. Relaying!Deliver(d)
        BY <2>1, <3>1, <3>2 DEF Forward, ends, Relaying!Deliver, phase
      <3>. QED
        BY <3>3 DEF Relaying!Next
    <2>2. CASE Receive(d) \/ ForwardFails(d) \/ Hangup(d)
      BY <2>2 DEF Receive, ForwardFails, Hangup, ends, Relaying!vars, phase
    <2>. QED
      BY <1>2, <2>1, <2>2 DEF Pump
  <1>3. CASE ClientLeaves \/ UpstreamLeaves \/ UNCHANGED vars
    BY <1>3 DEF ClientLeaves, UpstreamLeaves, vars, ends, pumps, Relaying!vars, phase
  <1>4. ASSUME NEW d \in Direction, NEW m \in Message, Send(d, m)
        PROVE  [Relaying!Next]_(Relaying!vars)
    <2>1. stage # "over"
      BY <1>4 DEF Send, Source, IInv, NothingLeaks
    <2>2. Relaying!Send(d, m)
      BY <1>4, <2>1 DEF Send, pumps, Relaying!Send, phase
    <2>. QED
      BY <2>2 DEF Relaying!Next
  <1>. QED
    BY <1>1, <1>2, <1>3, <1>4 DEF Next, Ends

\* A session implements the ordered relay: what was sent in a direction arrives
\* in order, each message once, between the opening and the end
\* (websocket_listener.py:101-132).
THEOREM SessionRelays == Spec => ImplementsRelay
  <1>1. Init => Relaying!Init
    BY DEF Init, Relaying!Init, phase
  <1>. QED
    BY <1>1, InitIInv, NextIInv, NextRefines, PTL DEF Spec, ImplementsRelay, Relaying!Spec
=============================================================================
