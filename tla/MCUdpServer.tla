---------------------------- MODULE MCUdpServer -----------------------------
(***************************************************************************)
(* UdpServer for TLC: senders with concrete addresses.  An inet address    *)
(* fills the buffer.  A unix address is a path with its terminating 0; an  *)
(* unbound unix socket has none.                                           *)
(***************************************************************************)
EXTENDS UdpServer, TLC

CONSTANTS a, b, u

Senders == {a, b, u}

Cells == 0..3

InetAddresses == (a :> <<1, 1, 1>>) @@ (b :> <<1, 2, 1>>) @@ (u :> <<1, 1, 3>>)

UnixAddresses == (a :> <<1, 0>>) @@ (b :> <<2, 3, 0>>) @@ (u :> <<>>)
=============================================================================
