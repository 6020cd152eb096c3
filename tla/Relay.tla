-------------------------------- MODULE Relay --------------------------------
(***************************************************************************)
(* What a WebSocket proxy promises: a session that opens once and ends for *)
(* good and, while it is open, hands over in each direction what was sent  *)
(* in that direction, in order, each message once.                         *)
(***************************************************************************)
EXTENDS Integers, Sequences

CONSTANTS Direction, Message

VARIABLES
    phase,      \* "waiting", "open" or "over"
    sent,       \* all messages sent in each direction
    delivered   \* those handed over

vars == <<phase, sent, delivered>>

Init ==
    /\ phase = "waiting"
    /\ sent = [d \in Direction |-> <<>>]
    /\ delivered = [d \in Direction |-> <<>>]

Open ==
    /\ phase = "waiting" /\ phase' = "open"
    /\ UNCHANGED <<sent, delivered>>

Send(d, m) ==
    /\ phase # "over"
    /\ sent' = [sent EXCEPT ![d] = Append(@, m)]
    /\ UNCHANGED <<phase, delivered>>

Deliver(d) ==
    /\ phase = "open"
    /\ Len(delivered[d]) < Len(sent[d])
    /\ delivered' = [delivered EXCEPT ![d] = Append(@, sent[d][Len(@) + 1])]
    /\ UNCHANGED <<phase, sent>>

End ==
    /\ phase # "over" /\ phase' = "over"
    /\ UNCHANGED <<sent, delivered>>

Next ==
    \/ Open \/ End
    \/ \E d \in Direction : Deliver(d) \/ \E m \in Message : Send(d, m)

Spec == Init /\ [][Next]_vars
=============================================================================
