--------------------------- MODULE ClientSessions ---------------------------
(***************************************************************************)
(* What a server of anyserver promises the application that listens to it  *)
(* (IAnyServerListener, anyserver.h).  A client id names one session at a  *)
(* time: onClientConnected opens it, every onReceive for that id carries   *)
(* the next bytes of that one connection, in order and without gaps, and   *)
(* onClientDisconnected closes it.  A connection is announced at most once.*)
(* An id may be reused by a later session, never by an overlapping one.    *)
(* A server may also call onClientDisconnected with an id that names no    *)
(* session: UnknownLimit says how often it does so for one connection, and *)
(* it never does while that connection has a session.                      *)
(***************************************************************************)
EXTENDS Integers, Sequences

CONSTANTS
    Conn,      \* connections made by the peers
    Id,        \* client ids (ClientInfo::m_client_id)
    NoConn,    \* an id that names no session
    NoPeer,    \* a session that was announced although no peer stands behind it
    ChunkLimit, \* the most bytes one onReceive may carry
    UnknownLimit \* the most disconnections of unknown ids for one connection

VARIABLES
    view,      \* view[i]: the session the listener associates with id i
    got,       \* got[i]: the bytes received in that session, <<k, j>> is byte j of k
    opened,    \* the connections announced so far
    unknown    \* unknown[k]: onClientDisconnected calls that closing k made with an
               \* id that names no session

sessionVars == <<view, got, opened, unknown>>

Stream(k, from, n) == [j \in 1..n |-> <<k, from + j>>]

Init ==
    /\ view = [i \in Id |-> NoConn]
    /\ got = [i \in Id |-> <<>>]
    /\ opened = {}
    /\ unknown = [k \in Conn |-> 0]

\* onClientConnected(i) for a connection never announced before.
Open(i, k) ==
    /\ view[i] = NoConn
    /\ k \in Conn \ opened
    /\ view' = [view EXCEPT ![i] = k]
    /\ got' = [got EXCEPT ![i] = <<>>]
    /\ opened' = opened \cup {k}
    /\ UNCHANGED unknown

\* onClientConnected(i) for an accept() that failed: nobody will ever speak.
OpenNobody(i) ==
    /\ view[i] = NoConn
    /\ view' = [view EXCEPT ![i] = NoPeer]
    /\ got' = [got EXCEPT ![i] = <<>>]
    /\ UNCHANGED <<opened, unknown>>

\* onReceive(i) with the next n bytes of the session's connection.
Receive(i, n) ==
    /\ view[i] \in Conn
    /\ got' = [got EXCEPT ![i] = @ \o Stream(view[i], Len(@), n)]
    /\ UNCHANGED <<view, opened, unknown>>

\* onClientDisconnected(i).
Close(i) ==
    /\ view[i] \in Conn
    /\ view' = [view EXCEPT ![i] = NoConn]
    /\ UNCHANGED <<got, opened, unknown>>

\* onClientDisconnected for a connection k that has no session, with an id that
\* names nobody.
CloseUnknown(k) ==
    /\ unknown[k] < UnknownLimit
    /\ \A i \in Id : view[i] # k
    /\ unknown' = [unknown EXCEPT ![k] = @ + 1]
    /\ UNCHANGED <<view, got, opened>>

Next ==
    \/ \E i \in Id :
         \/ \E k \in Conn : Open(i, k)
         \/ OpenNobody(i)
         \/ \E n \in 1..ChunkLimit : Receive(i, n)
         \/ Close(i)
    \/ \E k \in Conn : CloseUnknown(k)

Spec == Init /\ [][Next]_sessionVars
=============================================================================
