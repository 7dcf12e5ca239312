----------------------------- MODULE LwsServer ------------------------------
(***************************************************************************)
(* The servers built on libwebsockets: WebSocketTcpServer and              *)
(* HttpTcpServer.                                                          *)
(*                                                                         *)
(* One thread calls lws_service, which runs the server's callback once for *)
(* each thing that happens to a connection (a wsi).  The callback keeps    *)
(* m_client_list, keyed by the descriptor of the wsi, and a pointer to the *)
(* wsi in each entry.  A closing connection makes two callbacks that both  *)
(* remove the client.  HTTP bodies are collected in one static string.     *)
(* libwebsockets itself is external: its steps are what the callbacks of   *)
(* the source rely on.                                                     *)
(***************************************************************************)
EXTENDS Integers, Sequences, FiniteSets

CONSTANTS
    Conn,       \* the connections peers may make
    Fd,         \* descriptors for them
    Id,         \* client ids
    NoConn,     \* no connection
    NoFd,       \* no descriptor
    Flavor,     \* "websocket" or "http"
    Overlap,    \* requests of two http clients may overlap
    AnswerEarly, \* an http client may be answered in the middle of its request
    BodyLength, \* pieces in which the body of a request arrives
    MaxSend     \* bound: messages (or pieces of bodies) sent over one connection

ASSUME ConstantsAssumption ==
    /\ NoConn \notin Conn /\ NoFd \notin Fd
    /\ Flavor \in {"websocket", "http"}
    /\ Overlap \in BOOLEAN /\ AnswerEarly \in BOOLEAN
    /\ BodyLength \in Nat \ {0} /\ MaxSend \in Nat

VARIABLES
    peer,          \* peer[k]: "absent", "up" or "gone"
    arrived,       \* arrived[k]: messages that reached the socket
    taken,         \* taken[k]: messages lws has taken from it
    wsi,           \* wsi[k]: "none", "handshake", "open" or "freed"
    fdOf,          \* fdOf[k]: lws_get_socket_fd
    missing,       \* missing[k]: pieces of k's request still to come, -1 between requests
    req_body,      \* the static string of __callback_http__
    m_client_list, \* BaseServer::m_client_list, records [id, fd, conn]
    m_run_thread,  \* BaseServerImpl::m_run_thread
    pc,            \* where the service thread stands
    cur,           \* the connection lws is closing
    left,          \* the callbacks lws has still to make for it
    view,          \* the listener's knowledge: connection behind each id
    got,           \* the messages the listener received under each id
    opened,        \* the connections announced so far
    unknown,       \* unknown[k]: disconnections of k announced with an id of no session
    fault          \* "none", or the thread used an invalid pointer

peerVars == <<peer, arrived>>
wsiVars == <<wsi, fdOf>>
bodyVars == <<missing, req_body>>
closeVars == <<cur, left>>
listenerVars == <<view, got, opened, unknown>>
vars == <<peer, arrived, taken, wsi, fdOf, missing, req_body, m_client_list,
          m_run_thread, pc, cur, left, view, got, opened, unknown, fault>>

FindById(i) == {c \in m_client_list : c.id = i}
FindByFd(f) == {c \in m_client_list : c.fd = f}

\* The address of a new ClientInfo.
FreeIds == Id \ {c.id : c \in m_client_list}
FreeFds == Fd \ {fdOf[k] : k \in Conn}

Alive == fault = "none"

\* lws_service is between two callbacks.  After the last piece of a body it goes
\* straight on to the completion.
InService == Alive /\ pc = "service" /\ \A k \in Conn : missing[k] # 0

Init ==
    /\ peer = [k \in Conn |-> "absent"]
    /\ arrived = [k \in Conn |-> 0]
    /\ taken = [k \in Conn |-> 0]
    /\ wsi = [k \in Conn |-> "none"]
    /\ fdOf = [k \in Conn |-> NoFd]
    /\ missing = [k \in Conn |-> -1]
    /\ req_body = <<>>
    /\ m_client_list = {}
    /\ m_run_thread = FALSE
    /\ pc = "created"
    /\ cur = NoConn
    /\ left = {}
    /\ view = [i \in Id |-> NoConn]
    /\ got = [i \in Id |-> <<>>]
    /\ opened = {}
    /\ unknown = [k \in Conn |-> 0]
    /\ fault = "none"

-----------------------------------------------------------------------------
(* The peers (environment).                                                *)

Connect(k) ==
    /\ Alive /\ peer[k] = "absent"
    /\ peer' = [peer EXCEPT ![k] = "up"]
    /\ UNCHANGED <<arrived, taken, wsiVars, bodyVars, m_client_list, m_run_thread,
                   pc, closeVars, listenerVars, fault>>

PeerWrite(k) ==
    /\ Alive /\ peer[k] = "up" /\ arrived[k] < MaxSend
    /\ arrived' = [arrived EXCEPT ![k] = @ + 1]
    /\ UNCHANGED <<peer, taken, wsiVars, bodyVars, m_client_list, m_run_thread,
                   pc, closeVars, listenerVars, fault>>

Hangup(k) ==
    /\ Alive /\ peer[k] = "up"
    /\ peer' = [peer EXCEPT ![k] = "gone"]
    /\ UNCHANGED <<arrived, taken, wsiVars, bodyVars, m_client_list, m_run_thread,
                   pc, closeVars, listenerVars, fault>>

-----------------------------------------------------------------------------
(* The service thread.                                                     *)

ThreadStart ==
    /\ Alive /\ pc = "created"
    /\ m_run_thread' = TRUE
    /\ pc' = "test"
    /\ UNCHANGED <<peerVars, taken, wsiVars, bodyVars, m_client_list, closeVars,
                   listenerVars, fault>>

\* while ( server->m_run_thread )
LoopTest ==
    /\ Alive /\ pc = "test"
    /\ pc' = IF m_run_thread THEN "service" ELSE "exited"
    /\ UNCHANGED <<peerVars, taken, wsiVars, bodyVars, m_client_list, m_run_thread,
                   closeVars, listenerVars, fault>>

\* lws_service returns, after its timeout or after some callbacks.
ServiceReturns ==
    /\ InService
    /\ pc' = "test"
    /\ UNCHANGED <<peerVars, taken, wsiVars, bodyVars, m_client_list, m_run_thread,
                   closeVars, listenerVars, fault>>

\* Mutant: the client is announced and not listed.
AnnounceUnlisted(k, f, i) ==
    IF m_run_thread
      THEN /\ view' = [view EXCEPT ![i] = k]
           /\ got' = [got EXCEPT ![i] = <<>>]
           /\ opened' = opened \cup {k}
           /\ pc' = "callback"
           /\ UNCHANGED m_client_list
      ELSE UNCHANGED <<m_client_list, view, got, opened, pc>>

\* addClientInfo and NOTIFY_CLIENT_CONNECTED; nothing once stop() was called.
Announce(k, f, i) ==
    IF m_run_thread
      THEN /\ m_client_list' = m_client_list \cup {[id |-> i, fd |-> f, conn |-> k]}
           /\ view' = [view EXCEPT ![i] = k]
           /\ got' = [got EXCEPT ![i] = <<>>]
           /\ opened' = opened \cup {k}
           /\ pc' = "callback"
      ELSE UNCHANGED <<m_client_list, view, got, opened, pc>>

\* lws accepts a connection that may become a websocket: no callback of ours.
WsAccept(k, f) ==
    /\ InService /\ Flavor = "websocket"
    /\ peer[k] # "absent" /\ wsi[k] = "none" /\ f \in FreeFds
    /\ wsi' = [wsi EXCEPT ![k] = "handshake"]
    /\ fdOf' = [fdOf EXCEPT ![k] = f]
    /\ UNCHANGED <<peerVars, taken, bodyVars, m_client_list, m_run_thread, pc,
                   closeVars, listenerVars, fault>>

\* Mutant: the descriptor of the wsi is not asked for.
EstablishedNoFd(k, i) ==
    /\ InService /\ wsi[k] = "handshake" /\ i \in FreeIds
    /\ wsi' = [wsi EXCEPT ![k] = "open"]
    /\ Announce(k, NoFd, i)
    /\ UNCHANGED <<peerVars, taken, fdOf, bodyVars, m_run_thread, closeVars, unknown,
                   fault>>

\* LWS_CALLBACK_ESTABLISHED
Established(k, i) ==
    /\ InService /\ wsi[k] = "handshake" /\ i \in FreeIds
    /\ wsi' = [wsi EXCEPT ![k] = "open"]
    /\ Announce(k, fdOf[k], i)
    /\ UNCHANGED <<peerVars, taken, fdOf, bodyVars, m_run_thread, closeVars, unknown,
                   fault>>

\* LWS_CALLBACK_SERVER_NEW_CLIENT_INSTANTIATED: lws accepts an http connection.
ClientInstantiated(k, f, i) ==
    /\ InService /\ Flavor = "http"
    /\ peer[k] # "absent" /\ wsi[k] = "none" /\ f \in FreeFds /\ i \in FreeIds
    /\ wsi' = [wsi EXCEPT ![k] = "open"]
    /\ fdOf' = [fdOf EXCEPT ![k] = f]
    /\ Announce(k, f, i)
    /\ UNCHANGED <<peerVars, taken, bodyVars, m_run_thread, closeVars, unknown, fault>>

\* findClientInfo(fd), unchecked, and the onReceive callback.
Deliver(k, data) ==
    IF m_run_thread
      THEN \/ /\ FindByFd(fdOf[k]) = {}
              /\ fault' = "thread"
              /\ UNCHANGED <<got, pc>>
           \/ \E c \in FindByFd(fdOf[k]) :
                /\ got' = [got EXCEPT ![c.id] = @ \o data]
                /\ pc' = "callback"
                /\ UNCHANGED fault
      ELSE UNCHANGED <<got, pc, fault>>

\* LWS_CALLBACK_RECEIVE
Receive(k) ==
    /\ InService /\ Flavor = "websocket"
    /\ wsi[k] = "open" /\ arrived[k] > taken[k]
    /\ taken' = [taken EXCEPT ![k] = @ + 1]
    /\ Deliver(k, <<<<k, taken[k] + 1>>>>)
    /\ UNCHANGED <<peerVars, wsiVars, bodyVars, m_client_list, m_run_thread,
                   closeVars, view, opened, unknown>>

\* Mutant: the string of the request before is not emptied.
HttpKeepsBody(k) ==
    /\ InService /\ Flavor = "http"
    /\ wsi[k] = "open" /\ missing[k] = -1 /\ arrived[k] > taken[k]
    /\ Overlap \/ \A j \in Conn : missing[j] = -1
    /\ missing' = [missing EXCEPT ![k] = BodyLength]
    /\ UNCHANGED <<peerVars, taken, wsiVars, req_body, m_client_list, m_run_thread,
                   pc, closeVars, listenerVars, fault>>

\* LWS_CALLBACK_HTTP: the headers of a request; the string is emptied.
Http(k) ==
    /\ InService /\ Flavor = "http"
    /\ wsi[k] = "open" /\ missing[k] = -1 /\ arrived[k] > taken[k]
    /\ Overlap \/ \A j \in Conn : missing[j] = -1
    /\ missing' = [missing EXCEPT ![k] = BodyLength]
    /\ req_body' = IF m_run_thread THEN <<>> ELSE req_body
    /\ UNCHANGED <<peerVars, taken, wsiVars, m_client_list, m_run_thread, pc,
                   closeVars, listenerVars, fault>>

\* LWS_CALLBACK_HTTP_BODY: the next piece is appended.
HttpBody(k) ==
    /\ InService
    /\ wsi[k] = "open" /\ missing[k] > 0 /\ arrived[k] > taken[k]
    /\ taken' = [taken EXCEPT ![k] = @ + 1]
    /\ missing' = [missing EXCEPT ![k] = @ - 1]
    /\ req_body' = IF m_run_thread THEN Append(req_body, <<k, taken[k] + 1>>)
                   ELSE req_body
    /\ UNCHANGED <<peerVars, wsiVars, m_client_list, m_run_thread, pc, closeVars,
                   listenerVars, fault>>

\* LWS_CALLBACK_HTTP_BODY_COMPLETION: the string is handed to the listener.
HttpBodyCompletion(k) ==
    /\ Alive /\ pc = "service" /\ missing[k] = 0
    /\ missing' = [missing EXCEPT ![k] = -1]
    /\ Deliver(k, req_body)
    /\ UNCHANGED <<peerVars, taken, wsiVars, req_body, m_client_list, m_run_thread,
                   closeVars, view, opened, unknown>>

\* lws closes a connection whose peer is gone, a handshake that took longer than
\* timeout_secs and an http connection idle for keepalive_timeout.
BeginClose(k) ==
    /\ InService
    /\ \/ wsi[k] = "handshake"
       \/ wsi[k] = "open" /\ peer[k] = "gone"
       \/ wsi[k] = "open" /\ Flavor = "http" /\ missing[k] = -1
    /\ cur' = k
    /\ left' = IF wsi[k] = "open" THEN {"DEL_POLL_FD", "CLOSED"} ELSE {"DEL_POLL_FD"}
    /\ missing' = [missing EXCEPT ![k] = -1]
    /\ pc' = "closing"
    /\ UNCHANGED <<peerVars, taken, wsiVars, req_body, m_client_list, m_run_thread,
                   listenerVars, fault>>

\* Mutant: the close callbacks leave the client in the list.
CloseUnhandled(reason) ==
    /\ Alive /\ pc = "closing" /\ reason \in left
    /\ left' = left \ {reason}
    /\ UNCHANGED <<peerVars, taken, wsiVars, bodyVars, m_client_list, m_run_thread,
                   pc, cur, listenerVars, fault>>

\* Mutant: the client is removed, and its id is lost: the listener is told 0.
CloseAsNobody(reason) ==
    /\ Alive /\ pc = "closing" /\ reason \in left
    /\ left' = left \ {reason}
    /\ IF m_run_thread
         THEN /\ pc' = "callback"
              /\ m_client_list' = m_client_list \ FindByFd(fdOf[cur])
              /\ unknown' = [unknown EXCEPT ![cur] = @ + 1]
         ELSE UNCHANGED <<pc, m_client_list, unknown>>
    /\ UNCHANGED <<peerVars, taken, wsiVars, bodyVars, m_run_thread, cur, view, got,
                   opened, fault>>

\* LWS_CALLBACK_DEL_POLL_FD, LWS_CALLBACK_CLOSED and LWS_CALLBACK_CLOSED_HTTP:
\* each one calls removeClientInfo(fd) and announces its result, the id 0 when it
\* found nothing: the other callback was first, or the handshake failed.
CloseCallback(reason) ==
    /\ Alive /\ pc = "closing" /\ reason \in left
    /\ left' = left \ {reason}
    /\ IF m_run_thread
         THEN /\ pc' = "callback"
              /\ LET gone == FindByFd(fdOf[cur]) IN
                   /\ m_client_list' = m_client_list \ gone
                   /\ view' = [i \in Id |-> IF \E c \in gone : c.id = i THEN NoConn
                                                                        ELSE view[i]]
                   /\ unknown' = IF \E c \in gone : view[c.id] # NoConn THEN unknown
                                 ELSE [unknown EXCEPT ![cur] = @ + 1]
         ELSE UNCHANGED <<pc, m_client_list, view, unknown>>
    /\ UNCHANGED <<peerVars, taken, wsiVars, bodyVars, m_run_thread, cur, got,
                   opened, fault>>

\* lws closes the socket and frees the wsi.
CloseDone ==
    /\ Alive /\ pc = "closing" /\ left = {}
    /\ wsi' = [wsi EXCEPT ![cur] = "freed"]
    /\ fdOf' = [fdOf EXCEPT ![cur] = NoFd]
    /\ cur' = NoConn
    /\ pc' = "service"
    /\ UNCHANGED <<peerVars, taken, bodyVars, m_client_list, m_run_thread, left,
                   listenerVars, fault>>

\* The listener, inside a callback, answers any client it knows: findClientInfo
\* and the wsi in its result are used unchecked.  An answer over http ends with
\* lws_http_transaction_completed: the client's request, however much of its body
\* is still to come, is over.  req_body keeps what it holds.
CallbackSend(i) ==
    /\ Alive /\ pc = "callback" /\ view[i] # NoConn
    /\ AnswerEarly \/ missing[view[i]] = -1
    /\ LET reached == {c \in FindById(i) : wsi[c.conn] = "open"} IN
         /\ fault' = IF reached = {} THEN "thread" ELSE fault
         /\ missing' = [k \in Conn |-> IF \E c \in reached : c.conn = k THEN -1
                                                                     ELSE missing[k]]
    /\ UNCHANGED <<peerVars, taken, wsiVars, req_body, m_client_list, m_run_thread,
                   pc, closeVars, listenerVars>>

CallbackReturn ==
    /\ Alive /\ pc = "callback"
    /\ pc' = IF cur = NoConn THEN "service" ELSE "closing"
    /\ UNCHANGED <<peerVars, taken, wsiVars, bodyVars, m_client_list, m_run_thread,
                   closeVars, listenerVars, fault>>

-----------------------------------------------------------------------------
(* The application, from any thread.                                       *)

Stop ==
    /\ Alive
    /\ m_run_thread' = FALSE
    /\ UNCHANGED <<peerVars, taken, wsiVars, bodyVars, m_client_list, pc,
                   closeVars, listenerVars, fault>>

-----------------------------------------------------------------------------
ThreadStep ==
    \/ ThreadStart \/ LoopTest
    \/ \E k \in Conn, f \in Fd : WsAccept(k, f)
    \/ \E k \in Conn, i \in Id : Established(k, i)
    \/ \E k \in Conn, f \in Fd, i \in Id : ClientInstantiated(k, f, i)
    \/ \E k \in Conn : Receive(k) \/ Http(k) \/ HttpBody(k) \/ HttpBodyCompletion(k)
    \/ \E k \in Conn : BeginClose(k)
    \/ \E reason \in {"DEL_POLL_FD", "CLOSED"} : CloseCallback(reason)
    \/ CloseDone \/ CallbackReturn

Next ==
    \/ \E k \in Conn : Connect(k) \/ PeerWrite(k) \/ Hangup(k)
    \/ ThreadStep
    \/ ServiceReturns
    \/ \E i \in Id : CallbackSend(i)
    \/ Stop

Spec == Init /\ [][Next]_vars

\* The thread is scheduled, and poll() reports every socket that stays readable.
Fairness ==
    /\ WF_vars(ThreadStep)
    /\ \A k \in Conn : SF_vars(peer[k] = "gone" /\ BeginClose(k))

FairSpec == Spec /\ Fairness

-----------------------------------------------------------------------------
(* Properties.                                                             *)

\* Every variable keeps its type.
TypeOK ==
    /\ peer \in [Conn -> {"absent", "up", "gone"}]
    /\ arrived \in [Conn -> 0..MaxSend]
    /\ taken \in [Conn -> 0..MaxSend]
    /\ wsi \in [Conn -> {"none", "handshake", "open", "freed"}]
    /\ fdOf \in [Conn -> Fd \cup {NoFd}]
    /\ missing \in [Conn -> -1..BodyLength]
    /\ req_body \in Seq(Conn \X (1..MaxSend))
    /\ m_client_list \subseteq [id : Id, fd : Fd, conn : Conn]
    /\ m_run_thread \in BOOLEAN
    /\ pc \in {"created", "test", "service", "callback", "closing", "exited"}
    /\ cur \in Conn \cup {NoConn}
    /\ left \subseteq {"DEL_POLL_FD", "CLOSED"}
    /\ view \in [Id -> Conn \cup {NoConn}]
    /\ got \in [Id -> Seq(Conn \X (1..MaxSend))]
    /\ opened \subseteq Conn
    /\ unknown \in [Conn -> Nat]
    /\ fault \in {"none", "thread"}

\* While the server runs, an entry of the client list has the descriptor of an
\* open wsi: no entry outlives the wsi it points to, so a descriptor that lws
\* gives to a later connection finds that connection's client and no other.
ClientsHaveOpenWsi ==
    m_run_thread =>
        \A c \in m_client_list :
            /\ wsi[c.conn] = "open" /\ fdOf[c.conn] = c.fd
            /\ \A d \in m_client_list : d.fd = c.fd => d = c

\* The service thread uses findClientInfo's result and its wsi unchecked, for
\* data that arrives and for answers sent from a callback: both are valid.
ThreadNeverFaults == fault # "thread"

Sessions == INSTANCE ClientSessions
                WITH NoPeer <- NoFd,
                     ChunkLimit <- IF Flavor = "http" THEN BodyLength ELSE 1,
                     UnknownLimit <- 1

\* What the listener is told is a ClientSessions behaviour: the two close
\* callbacks of one connection end one session, the one of that connection, and
\* make besides one disconnection of an unknown id, after the session has ended or
\* for a handshake that failed; each session receives its own messages in order.
SessionsSpec == Sessions!Spec

\* What is received under a client's id was sent by that client (ServerFactory:
\* "get message ... from client"), each piece once and in the order sent.
BodiesAreOwn ==
    \A i \in Id : view[i] # NoConn =>
        \A n \in 1..Len(got[i]) :
            /\ got[i][n][1] = view[i]
            /\ \A m \in 1..(n - 1) : got[i][m][2] < got[i][n][2]

\* A peer that hangs up is announced as disconnected, unless the server stops.
HangupsAreAnnounced ==
    \A k \in Conn :
        (peer[k] = "gone" /\ k \in opened)
            ~> ((\A i \in Id : view[i] # k) \/ ~m_run_thread \/ ~Alive)
=============================================================================
