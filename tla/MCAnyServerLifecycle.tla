------------------------ MODULE MCAnyServerLifecycle ------------------------
(***************************************************************************)
(* AnyServerLifecycle for TLC: which servers are configured, in order.     *)
(***************************************************************************)
EXTENDS AnyServerLifecycle, TLC

\* Every way in which a thread waits, with the websocket server, which is joined,
\* between servers that are not.  (anyserver.json: a process has one websocket
\* server.)
AllWaits == (1 :> "epoll") @@ (2 :> "websocket") @@ (3 :> "recvfrom")

\* The smallest configuration in which start() takes two steps.
Small == (1 :> "epoll") @@ (2 :> "websocket")
=============================================================================
