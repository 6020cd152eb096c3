--------------------------- MODULE MCRequestPath ---------------------------
(***************************************************************************)
(* RequestPath on one HTTP request and two gRPC calls.                     *)
(***************************************************************************)
EXTENDS RequestPath

All == {"h1", "c1", "c2"}

Users == [id |-> "users", accepts |-> All, targets |-> <<"t1", "t2">>,
          balance |-> "round_robin", plugins |-> <<>>, retries |-> 1]

\* Another version of it that serves one gRPC call alone, and a route that
\* balances at random, with a negative count of retries; a route with no target.
Calls == [Users EXCEPT !.accepts = {"c1"}, !.plugins = <<"auth">>, !.retries = 0]
Odd == [Users EXCEPT !.id = "odd", !.accepts = {"h1"}, !.plugins = <<"auth", "unknown">>,
                     !.balance = "random", !.retries = -1]

Empty == [Users EXCEPT !.id = "empty", !.accepts = {"h1", "c2"}, !.targets = <<>>]

McRoutes == {<<Users>>, <<Odd, Calls>>, <<Empty>>, Bad}
McGateway == {<<"log">>, Bad}
McOrder == [log |-> 1, auth |-> 10]
=============================================================================
