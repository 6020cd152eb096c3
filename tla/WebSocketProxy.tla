--------------------------- MODULE WebSocketProxy ---------------------------
(***************************************************************************)
(* One WebSocket session of the gateway: the handler websocket_gateway of  *)
(* src/gateway/app.py and WebSocketProxy.proxy of                          *)
(* src/gateway/listeners/websocket_listener.py.                            *)
(*                                                                         *)
(* The upstream is connected before the client is accepted.  Then one      *)
(* coroutine per direction moves messages, and the session is over when    *)
(* both have returned, whatever ended them: a pump that finds its own side *)
(* closed returns, and one that holds a message for a closed side fails.   *)
(***************************************************************************)
EXTENDS Integers, Sequences

CONSTANTS
    Message,     \* text and binary messages
    MaxSent      \* bound on the messages sent in each direction

ASSUME SessionBound == MaxSent \in Nat

Direction == {"up", "down"}    \* client to upstream, upstream to client

VARIABLES
    stage,      \* of the handler
    client,     \* the client's socket
    upstream,   \* the upstream's socket
    sent,       \* messages the two ends have sent
    taken,      \* how many of them each pump has received
    delivered,  \* messages the pumps have sent on
    pump,       \* what each pump waits for
    closes,     \* how often the gateway has closed the client's socket
    failed      \* the handler has raised an exception

ends == <<client, upstream, sent>>
pumps == <<taken, delivered, pump>>
vars == <<stage, ends, pumps, closes, failed>>

Stages == {"matching", "dialing", "accepting", "pumping", "over"}

\* The sockets a direction reads from and writes to.
Source(d) == IF d = "up" THEN client ELSE upstream
Sink(d) == IF d = "up" THEN upstream ELSE client

Init ==
    /\ stage = "matching"
    /\ client = "connecting" /\ upstream = "none"
    /\ sent = [d \in Direction |-> <<>>]
    /\ taken = [d \in Direction |-> 0]
    /\ delivered = [d \in Direction |-> <<>>]
    /\ pump = [d \in Direction |-> "off"]
    /\ closes = 0 /\ failed = FALSE

(***************************************************************************)
(* The handler                                                             *)
(***************************************************************************)
\* The socket is dropped instead.
Closed_Dropped(socket) == IF socket \in {"connecting", "open"} THEN "dropped" ELSE socket

Closed(socket) == IF socket \in {"connecting", "open"} THEN "closed" ELSE socket

\* No route, no target, or a plugin's refusal: the handshake is turned down.
Reject ==
    /\ stage = "matching" /\ stage' = "over"
    /\ client' = Closed(client) /\ closes' = closes + 1
    /\ UNCHANGED <<upstream, sent, pumps, failed>>

Dial ==
    /\ stage = "matching" /\ stage' = "dialing"
    /\ UNCHANGED <<ends, pumps, closes, failed>>

\* The upstream cannot be reached in time.  proxy() closes the client's socket
\* and reports it; the handler takes that for a refusal and closes it again,
\* which the framework answers with an exception.
DialFails ==
    /\ stage = "dialing" /\ stage' = "over"
    /\ client' = Closed(client) /\ closes' = closes + 2 /\ failed' = TRUE
    /\ UNCHANGED <<upstream, sent, pumps>>

Connect ==
    /\ stage = "dialing" /\ stage' = "accepting"
    /\ upstream' = "open"
    /\ UNCHANGED <<client, sent, pumps, closes, failed>>

Accept ==
    /\ stage = "accepting" /\ client = "connecting"
    /\ stage' = "pumping" /\ client' = "open"
    /\ pump' = [d \in Direction |-> "receiving"]
    /\ UNCHANGED <<upstream, sent, taken, delivered, closes, failed>>

\* Nothing closes the upstream.
AcceptFails_NoExit ==
    /\ stage = "accepting" /\ client = "gone"
    /\ stage' = "over" /\ closes' = closes + 2 /\ failed' = TRUE
    /\ UNCHANGED <<ends, pumps>>

\* The client has left meanwhile: the connection to the upstream is given up.
AcceptFails ==
    /\ stage = "accepting" /\ client = "gone"
    /\ stage' = "over" /\ upstream' = Closed(upstream)
    /\ closes' = closes + 2 /\ failed' = TRUE
    /\ UNCHANGED <<client, sent, pumps>>

\* gather() returns when both pumps have; both sockets are then closed.
Finish ==
    /\ stage = "pumping" /\ \A d \in Direction : pump[d] = "ended"
    /\ stage' = "over" /\ closes' = closes + 1
    /\ client' = Closed(client) /\ upstream' = Closed(upstream)
    /\ UNCHANGED <<sent, pumps, failed>>

(***************************************************************************)
(* The pumps                                                               *)
(***************************************************************************)
\* Messages that wait are skipped for the last one.
Receive_Latest(d) ==
    /\ pump[d] = "receiving" /\ taken[d] < Len(sent[d])
    /\ taken' = [taken EXCEPT ![d] = Len(sent[d])]
    /\ pump' = [pump EXCEPT ![d] = "sending"]
    /\ UNCHANGED <<stage, ends, delivered, closes, failed>>

Receive(d) ==
    /\ pump[d] = "receiving" /\ taken[d] < Len(sent[d])
    /\ taken' = [taken EXCEPT ![d] = @ + 1]
    /\ pump' = [pump EXCEPT ![d] = "sending"]
    /\ UNCHANGED <<stage, ends, delivered, closes, failed>>

Forward(d) ==
    /\ pump[d] = "sending" /\ Sink(d) = "open"
    /\ delivered' = [delivered EXCEPT ![d] = Append(@, sent[d][taken[d]])]
    /\ pump' = [pump EXCEPT ![d] = "receiving"]
    /\ UNCHANGED <<stage, ends, taken, closes, failed>>

\* The pump tries for ever to send it.
ForwardFails_Retries(d) ==
    /\ pump[d] = "sending" /\ Sink(d) # "open"
    /\ UNCHANGED vars

\* The message in hand cannot be sent any more and is lost with the pump.
ForwardFails(d) ==
    /\ pump[d] = "sending" /\ Sink(d) # "open"
    /\ pump' = [pump EXCEPT ![d] = "ended"]
    /\ UNCHANGED <<stage, ends, taken, delivered, closes, failed>>

\* A side that is silent for a while is taken for closed.
Hangup_Idle(d) ==
    /\ pump[d] = "receiving" /\ taken[d] = Len(sent[d])
    /\ pump' = [pump EXCEPT ![d] = "ended"]
    /\ UNCHANGED <<stage, ends, taken, delivered, closes, failed>>

\* The end of the own side, which may overtake messages that wait to be read.
Hangup(d) ==
    /\ pump[d] = "receiving" /\ Source(d) # "open"
    /\ pump' = [pump EXCEPT ![d] = "ended"]
    /\ UNCHANGED <<stage, ends, taken, delivered, closes, failed>>

(***************************************************************************)
(* The two ends                                                            *)
(***************************************************************************)
Send(d, m) ==
    /\ Source(d) = "open" /\ Len(sent[d]) < MaxSent
    /\ sent' = [sent EXCEPT ![d] = Append(@, m)]
    /\ UNCHANGED <<stage, client, upstream, pumps, closes, failed>>

ClientLeaves ==
    /\ client \in {"connecting", "open"} /\ client' = "gone"
    /\ UNCHANGED <<stage, upstream, sent, pumps, closes, failed>>

UpstreamLeaves ==
    /\ upstream = "open" /\ upstream' = "gone"
    /\ UNCHANGED <<stage, client, sent, pumps, closes, failed>>

Pump(d) == Receive(d) \/ Forward(d) \/ ForwardFails(d) \/ Hangup(d)
Handler == Reject \/ Dial \/ DialFails \/ Connect \/ Accept \/ AcceptFails \/ Finish
Ends == \/ ClientLeaves \/ UpstreamLeaves
        \/ \E d \in Direction, m \in Message : Send(d, m)

Next == Handler \/ Ends \/ \E d \in Direction : Pump(d)

Spec == Init /\ [][Next]_vars

\* Dialing has a timeout and the event loop runs the handler and both pumps;
\* nothing makes an end speak or leave.
FairSpec == Spec /\ WF_vars(Handler) /\ \A d \in Direction : WF_vars(Pump(d))
-----------------------------------------------------------------------------
(***************************************************************************)
(* Properties                                                              *)
(***************************************************************************)

\* All variables have their types.
TypeOK ==
    /\ stage \in Stages
    /\ client \in {"connecting", "open", "gone", "closed"}
    /\ upstream \in {"none", "open", "gone", "closed"}
    /\ sent \in [Direction -> Seq(Message)] /\ delivered \in [Direction -> Seq(Message)]
    /\ taken \in [Direction -> Nat]
    /\ pump \in [Direction -> {"off", "receiving", "sending", "ended"}]
    /\ closes \in 0..2 /\ failed \in BOOLEAN

\* However a session ends, by refusal, by failure before or after the upstream
\* was connected, or because an end left, no socket of it stays open; and a
\* session that was accepted does not end in an exception.
NothingLeaks ==
    /\ stage = "over" => client \in {"gone", "closed"} /\ upstream # "open"
    /\ failed => \A d \in Direction : pump[d] = "off"

\* The session relays: in each direction what was sent arrives in order, without
\* a gap or a duplicate, never before the session opened nor after its end.
phase == CASE stage = "pumping" -> "open" [] stage = "over" -> "over" [] OTHER -> "waiting"
Relaying == INSTANCE Relay
ImplementsRelay == Relaying!Spec

\* Each message that was sent is delivered, or an end leaves: the gateway never
\* ends a session by itself.
Delivers ==
    \A d \in Direction, n \in 1..MaxSent :
        Len(sent[d]) >= n ~> Len(delivered[d]) >= n \/ client = "gone" \/ upstream = "gone"

\* When one end has left, the session ends as soon as the other one leaves too
\* or sends a message.
Ending ==
    \A d \in Direction :
        (stage = "pumping" /\ Sink(d) # "open" /\ (Source(d) # "open" \/ taken[d] < Len(sent[d])))
            ~> stage = "over"
=============================================================================
