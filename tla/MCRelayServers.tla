--------------------------- MODULE MCRelayServers ---------------------------
(***************************************************************************)
(* RelayServers for TLC: the two servers that anyserver.json enables, one  *)
(* with protocols and one without.  A sender and its receiver share a      *)
(* server, the client of the other server speaks to the thread of the      *)
(* first, and the first server has three clients to tell apart.            *)
(***************************************************************************)
EXTENDS RelayServers, TLC

CONSTANTS a, b, t, x

Clients == {a, b, t, x}
Kinds == <<"websocket", "plain">>
Homes == [c \in Clients |-> IF c = x THEN 2 ELSE 1]
Protocols == (a :> "sender") @@ (b :> "receiver") @@ (t :> "test_b") @@ (x :> "")
Sends == (a :> 1) @@ (b :> 0) @@ (t :> 0) @@ (x :> 2)

\* Everybody who is spoken to may leave, and one of the two who speak.
Leavers == {b, t, x}
=============================================================================
