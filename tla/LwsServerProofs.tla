-------------------------- MODULE LwsServerProofs ---------------------------
(***************************************************************************)
(* Proofs about LwsServer, for every number of connections, descriptors,   *)
(* ids and messages and for both servers.                                  *)
(*                                                                         *)
(* The argument: m_run_thread, once lowered, stays low, and every callback *)
(* of the listener begins while it is up.  As long as it is up, or such a  *)
(* callback is still running, the client list has exactly one entry for    *)
(* each open wsi, apart from the one that lws is closing, whose entry is   *)
(* gone with the first of its callbacks.                                   *)
(***************************************************************************)
EXTENDS LwsServer, SequenceTheorems, TLAPS

BothCallbacks == {"DEL_POLL_FD", "CLOSED"}

\* Nothing happens before the thread runs.
NothingYet ==
    pc = "created" => /\ m_client_list = {}
                      /\ \A k \in Conn : wsi[k] = "none"
                      /\ \A i \in Id : view[i] = NoConn

\* A descriptor belongs to one living wsi.
FdsMatchWsi ==
    /\ \A k \in Conn : fdOf[k] \in Fd <=> wsi[k] \in {"handshake", "open"}
    /\ \A j, k \in Conn : fdOf[j] \in Fd /\ fdOf[j] = fdOf[k] => j = k

\* lws closes one living wsi at a time, and no request is left on it.
OneIsClosing ==
    /\ pc = "closing" => cur \in Conn
    /\ pc \notin {"closing", "callback"} => cur = NoConn
    /\ cur = NoConn => left = {}
    /\ cur \in Conn => wsi[cur] \in {"handshake", "open"} /\ missing[cur] = -1

\* Only an open http connection has a request under way.
RequestsAreOpen ==
    \A k \in Conn : missing[k] # -1 => wsi[k] = "open" /\ Flavor = "http"

\* The state in which the callbacks of the source are not yet disabled by stop().
Serving == m_run_thread \/ pc = "callback"

\* The client list, the open wsis and what the listener knows are the same.
ListMatches ==
    /\ \A c \in m_client_list : wsi[c.conn] = "open" /\ fdOf[c.conn] = c.fd
    /\ \A c, d \in m_client_list : c.id = d.id \/ c.fd = d.fd => c = d
    /\ \A k \in Conn : wsi[k] = "open" /\ (k = cur => left = BothCallbacks) =>
           \E c \in m_client_list : c.conn = k
    /\ cur \in Conn /\ left # BothCallbacks => \A c \in m_client_list : c.conn # cur
    /\ \A c \in m_client_list : view[c.id] = c.conn
    /\ \A i \in Id : view[i] # NoConn =>
           \E c \in m_client_list : c.id = i /\ c.conn = view[i]

IndInv ==
    /\ TypeOK
    /\ NothingYet
    /\ FdsMatchWsi
    /\ OneIsClosing
    /\ RequestsAreOpen
    /\ Serving => ListMatches
    /\ ThreadNeverFaults

-----------------------------------------------------------------------------
(* Steps that only move the thread or the peers.                           *)

\* The peers, the thread's control and the flag leave clients and wsis alone.
LEMMA ControlPreserves ==
    ASSUME IndInv,
           \/ \E k \in Conn : Connect(k) \/ PeerWrite(k) \/ Hangup(k)
           \/ ThreadStart \/ LoopTest \/ ServiceReturns \/ CallbackReturn \/ Stop
           \/ UNCHANGED vars
    PROVE  IndInv'
<1> USE DEF peerVars, wsiVars, bodyVars, closeVars, listenerVars
<1>1. /\ UNCHANGED <<taken, wsi, fdOf, missing, req_body, m_client_list, cur, left,
                     view, got, opened, unknown, fault>>
      /\ \/ UNCHANGED <<pc, m_run_thread>>
         \/ pc' = pc /\ m_run_thread' = FALSE
         \/ pc = "created" /\ pc' = "test" /\ m_run_thread' = TRUE
         \/ /\ UNCHANGED m_run_thread
            /\ \/ pc = "test" /\ pc' \in {"service", "exited"}
               \/ pc = "service" /\ pc' = "test"
               \/ pc = "callback" /\ pc' = IF cur = NoConn THEN "service" ELSE "closing"
  BY DEF Connect, PeerWrite, Hangup, ThreadStart, LoopTest, ServiceReturns, InService,
         CallbackReturn, Stop, vars
<1>2. peer' \in [Conn -> {"absent", "up", "gone"}] /\ arrived' \in [Conn -> 0..MaxSend]
  <2>1. /\ peer \in [Conn -> {"absent", "up", "gone"}] /\ arrived \in [Conn -> 0..MaxSend]
    BY DEF IndInv, TypeOK
  <2>2. CASE \E k \in Conn : Connect(k) \/ PeerWrite(k) \/ Hangup(k)
    BY <2>1, <2>2, ConstantsAssumption DEF Connect, PeerWrite, Hangup
  <2>3. CASE UNCHANGED <<peer, arrived>>
    BY <2>1, <2>3
  <2> QED
    BY <2>2, <2>3 DEF ThreadStart, LoopTest, ServiceReturns, CallbackReturn, Stop, vars
<1>3. TypeOK'
  BY <1>1, <1>2 DEF IndInv, TypeOK
<1>4. NothingYet' /\ FdsMatchWsi' /\ RequestsAreOpen' /\ ThreadNeverFaults'
  BY <1>1 DEF IndInv, NothingYet, FdsMatchWsi, RequestsAreOpen, ThreadNeverFaults
<1>5. OneIsClosing'
  BY <1>1 DEF IndInv, TypeOK, OneIsClosing
<1>6. Serving' => ListMatches'
  <2>1. CASE pc = "created" /\ pc' = "test"
    <3>1. m_client_list = {} /\ cur = NoConn
          /\ (\A k \in Conn : wsi[k] = "none") /\ (\A i \in Id : view[i] = NoConn)
      BY <2>1 DEF IndInv, NothingYet, OneIsClosing
    <3> QED
      BY <1>1, <3>1, ConstantsAssumption DEF ListMatches
  <2>2. CASE ~(pc = "created" /\ pc' = "test")
    <3>1. Serving' => Serving
      BY <1>1, <2>2 DEF Serving
    <3>2. ListMatches => ListMatches'
      BY <1>1 DEF ListMatches
    <3> QED
      BY <3>1, <3>2 DEF IndInv
  <2> QED
    BY <2>1, <2>2
<1> QED
  BY <1>3, <1>4, <1>5, <1>6 DEF IndInv

\* lws accepts with a descriptor that no living wsi has.
LEMMA WsAcceptPreserves ==
    ASSUME IndInv, NEW k \in Conn, NEW f \in Fd, WsAccept(k, f)
    PROVE  IndInv'
<1> USE DEF peerVars, wsiVars, bodyVars, closeVars, listenerVars
<1>1. /\ pc = "service" /\ wsi[k] = "none" /\ f \in FreeFds
      /\ wsi' = [wsi EXCEPT ![k] = "handshake"] /\ fdOf' = [fdOf EXCEPT ![k] = f]
      /\ UNCHANGED <<peer, arrived, taken, missing, req_body, m_client_list, m_run_thread,
                     pc, cur, left, view, got, opened, unknown, fault>>
  BY DEF WsAccept, InService
<1>2. /\ wsi \in [Conn -> {"none", "handshake", "open", "freed"}]
      /\ fdOf \in [Conn -> Fd \cup {NoFd}] /\ m_client_list \subseteq [id : Id, fd : Fd, conn : Conn]
  BY DEF IndInv, TypeOK
<1>3. TypeOK'
  BY <1>1, <1>2 DEF IndInv, TypeOK
<1>4. NothingYet'
  BY <1>1 DEF NothingYet
<1>5. FdsMatchWsi'
  BY <1>1, <1>2 DEF IndInv, FdsMatchWsi, FreeFds
<1>6. OneIsClosing' /\ RequestsAreOpen' /\ ThreadNeverFaults'
  BY <1>1, <1>2 DEF IndInv, OneIsClosing, RequestsAreOpen, ThreadNeverFaults
<1>7. Serving' => ListMatches'
  BY <1>1, <1>2 DEF IndInv, Serving, ListMatches
<1> QED
  BY <1>3, <1>4, <1>5, <1>6, <1>7 DEF IndInv

-----------------------------------------------------------------------------
(* Callbacks that add a client or hand over data.                          *)

\* A wsi opens; its client is listed and announced, unless stop() was called.
LEMMA OpensPreserves ==
    ASSUME IndInv, NEW k \in Conn, NEW f \in Fd, NEW i \in FreeIds,
           pc = "service", wsi[k] \in {"none", "handshake"},
           \A j \in Conn \ {k} : fdOf[j] # f,
           wsi' = [wsi EXCEPT ![k] = "open"], fdOf' = [fdOf EXCEPT ![k] = f],
           Announce(k, f, i),
           UNCHANGED <<peer, arrived, taken, missing, req_body, m_run_thread, cur, left,
                       unknown, fault>>
    PROVE  IndInv'
<1> DEFINE new == [id |-> i, fd |-> f, conn |-> k]
<1>1. /\ wsi \in [Conn -> {"none", "handshake", "open", "freed"}]
      /\ fdOf \in [Conn -> Fd \cup {NoFd}] /\ m_client_list \subseteq [id : Id, fd : Fd, conn : Conn]
      /\ view \in [Id -> Conn \cup {NoConn}] /\ got \in [Id -> Seq(Conn \X (1..MaxSend))]
      /\ opened \subseteq Conn /\ m_run_thread \in BOOLEAN
  BY DEF IndInv, TypeOK
<1>2. cur = NoConn /\ i \in Id /\ new \in [id : Id, fd : Fd, conn : Conn]
  BY DEF IndInv, OneIsClosing, FreeIds
<1>3. \/ /\ m_run_thread /\ pc' = "callback"
         /\ m_client_list' = m_client_list \cup {new}
         /\ view' = [view EXCEPT ![i] = k] /\ got' = [got EXCEPT ![i] = <<>>]
         /\ opened' = opened \cup {k}
      \/ ~m_run_thread /\ UNCHANGED <<m_client_list, view, got, opened, pc>>
  BY DEF Announce
<1>4. TypeOK'
  <2>1. /\ wsi' \in [Conn -> {"none", "handshake", "open", "freed"}]
        /\ fdOf' \in [Conn -> Fd \cup {NoFd}]
    BY <1>1
  <2>2. <<>> \in Seq(Conn \X (1..MaxSend))
    OBVIOUS
  <2>3. /\ m_client_list' \subseteq [id : Id, fd : Fd, conn : Conn]
        /\ view' \in [Id -> Conn \cup {NoConn}] /\ got' \in [Id -> Seq(Conn \X (1..MaxSend))]
        /\ opened' \subseteq Conn
    <3>1. CASE m_run_thread
      <4>1. /\ m_client_list' = m_client_list \cup {new} /\ opened' = opened \cup {k}
            /\ view' = [view EXCEPT ![i] = k] /\ got' = [got EXCEPT ![i] = <<>>]
        BY <1>3, <3>1
      <4> HIDE DEF new
      <4>2. m_client_list' \subseteq [id : Id, fd : Fd, conn : Conn] /\ opened' \subseteq Conn
        BY <1>1, <1>2, <4>1
      <4>3. view' \in [Id -> Conn \cup {NoConn}]
        BY <1>1, <1>2, <4>1
      <4>4. got' \in [Id -> Seq(Conn \X (1..MaxSend))]
        BY <1>1, <1>2, <2>2, <4>1
      <4> QED
        BY <4>2, <4>3, <4>4
    <3>2. CASE ~m_run_thread
      BY <1>1, <1>3, <3>2
    <3> QED
      BY <3>1, <3>2
  <2> QED
    BY <1>3, <2>1, <2>3 DEF IndInv, TypeOK
<1>5. NothingYet'
  BY <1>3 DEF NothingYet
<1>6. FdsMatchWsi'
  BY <1>1 DEF IndInv, FdsMatchWsi
<1>7. OneIsClosing' /\ RequestsAreOpen' /\ ThreadNeverFaults'
  BY <1>1, <1>2, <1>3, ConstantsAssumption DEF IndInv, OneIsClosing, RequestsAreOpen, ThreadNeverFaults
<1>8. Serving' => ListMatches'
  <2>1. CASE ~m_run_thread
    BY <1>3, <2>1 DEF Serving
  <2>2. CASE m_run_thread
    <3>1. ListMatches
      BY <2>2 DEF IndInv, Serving
    <3>2. \A c \in m_client_list : c.id # i /\ c.fd # f /\ c.conn # k /\ c.id \in Id /\ c.conn \in Conn
      BY <1>1, <3>1 DEF ListMatches, FreeIds
    <3>3. \A c \in m_client_list' : c = new \/ c \in m_client_list
      BY <1>3, <2>2
    <3>4. m_client_list' = m_client_list \cup {new} /\ view' = [view EXCEPT ![i] = k]
      BY <1>3, <2>2
    <3> HIDE DEF new
    <3>5. new.id = i /\ new.fd = f /\ new.conn = k
      BY DEF new
    <3>6. \A c \in m_client_list' : wsi'[c.conn] = "open" /\ fdOf'[c.conn] = c.fd
      BY <1>1, <3>1, <3>2, <3>3, <3>5 DEF ListMatches
    <3>7. \A c, d \in m_client_list' : c.id = d.id \/ c.fd = d.fd => c = d
      BY <3>1, <3>2, <3>3, <3>5 DEF ListMatches
    <3>8. \A j \in Conn : wsi'[j] = "open" => \E c \in m_client_list' : c.conn = j
      <4>1. \A j \in Conn : wsi[j] = "open" => \E c \in m_client_list : c.conn = j
        BY <1>2, <3>1, ConstantsAssumption DEF ListMatches
      <4>2. \A j \in Conn \ {k} : wsi'[j] = wsi[j]
        BY <1>1
      <4> QED
        BY <3>4, <3>5, <4>1, <4>2
    <3>9. \A c \in m_client_list' : view'[c.id] = c.conn
      BY <1>1, <1>2, <3>1, <3>2, <3>3, <3>4, <3>5 DEF ListMatches
    <3>10. \A j \in Id : view'[j] # NoConn =>
              \E c \in m_client_list' : c.id = j /\ c.conn = view'[j]
      BY <1>1, <1>2, <3>1, <3>4, <3>5 DEF ListMatches
    <3> QED
      BY <1>2, <3>6, <3>7, <3>8, <3>9, <3>10, ConstantsAssumption DEF ListMatches
  <2> QED
    BY <2>1, <2>2
<1> QED
  BY <1>4, <1>5, <1>6, <1>7, <1>8 DEF IndInv

\* LWS_CALLBACK_ESTABLISHED uses the descriptor the wsi has.
LEMMA EstablishedPreserves ==
    ASSUME IndInv, NEW k \in Conn, NEW i \in Id, Established(k, i)
    PROVE  IndInv'
<1>1. /\ pc = "service" /\ wsi[k] = "handshake" /\ i \in FreeIds
      /\ wsi' = [wsi EXCEPT ![k] = "open"] /\ Announce(k, fdOf[k], i)
      /\ UNCHANGED <<peer, arrived, taken, fdOf, missing, req_body, m_run_thread, cur, left,
                     unknown, fault>>
  BY DEF Established, InService, peerVars, bodyVars, closeVars
<1>2. fdOf[k] \in Fd /\ \A j \in Conn \ {k} : fdOf[j] # fdOf[k]
  BY <1>1 DEF IndInv, FdsMatchWsi
<1>3. fdOf' = [fdOf EXCEPT ![k] = fdOf[k]]
  BY <1>1 DEF IndInv, TypeOK
<1> QED
  BY <1>1, <1>2, <1>3, OpensPreserves

\* LWS_CALLBACK_SERVER_NEW_CLIENT_INSTANTIATED opens the wsi at once.
LEMMA ClientInstantiatedPreserves ==
    ASSUME IndInv, NEW k \in Conn, NEW f \in Fd, NEW i \in Id, ClientInstantiated(k, f, i)
    PROVE  IndInv'
<1>1. /\ pc = "service" /\ wsi[k] = "none" /\ i \in FreeIds /\ f \in FreeFds
      /\ wsi' = [wsi EXCEPT ![k] = "open"] /\ fdOf' = [fdOf EXCEPT ![k] = f]
      /\ Announce(k, f, i)
      /\ UNCHANGED <<peer, arrived, taken, missing, req_body, m_run_thread, cur, left, unknown,
                     fault>>
  BY DEF ClientInstantiated, InService, peerVars, bodyVars, closeVars
<1> QED
  BY <1>1, OpensPreserves DEF FreeFds

\* findClientInfo finds the client of an open wsi that is not being closed.
LEMMA DeliverFinds ==
    ASSUME IndInv, NEW k \in Conn, pc = "service", wsi[k] = "open", m_run_thread
    PROVE  /\ FindByFd(fdOf[k]) # {}
           /\ \A c \in FindByFd(fdOf[k]) : c.id \in Id /\ c.conn = k /\ view[c.id] = k
<1>1. ListMatches /\ cur = NoConn /\ m_client_list \subseteq [id : Id, fd : Fd, conn : Conn]
  BY DEF IndInv, Serving, OneIsClosing, TypeOK
<1>2. PICK d \in m_client_list : d.conn = k
  BY <1>1, ConstantsAssumption DEF ListMatches
<1>3. FindByFd(fdOf[k]) = {d}
  BY <1>1, <1>2 DEF ListMatches, FindByFd
<1> QED
  BY <1>1, <1>2, <1>3 DEF ListMatches

\* Data is handed over: only what was received grows.
LEMMA DeliverPreserves ==
    ASSUME IndInv, NEW k \in Conn, pc = "service", wsi[k] = "open",
           NEW data \in Seq(Conn \X (1..MaxSend)), Deliver(k, data),
           taken' \in [Conn -> 0..MaxSend],
           missing' = missing \/ missing' = [missing EXCEPT ![k] = -1],
           UNCHANGED <<peer, arrived, wsi, fdOf, req_body, m_client_list, m_run_thread,
                       cur, left, view, opened, unknown>>
    PROVE  IndInv'
<1>1. /\ fault' = fault
      /\ (pc' = pc \/ (m_run_thread /\ pc' = "callback"))
      /\ got' = got \/ \E j \in Id : got' = [got EXCEPT ![j] = @ \o data]
  <2>1. CASE m_run_thread
    BY <2>1, DeliverFinds DEF Deliver
  <2>2. CASE ~m_run_thread
    <3>1. UNCHANGED <<got, pc, fault>>
      BY <2>2, Zenon DEF Deliver
    <3> QED
      BY <3>1
  <2> QED
    BY <2>1, <2>2
<1>2. missing \in [Conn -> -1..BodyLength] /\ got \in [Id -> Seq(Conn \X (1..MaxSend))]
  BY DEF IndInv, TypeOK
<1>3. TypeOK'
  <2>1. missing' \in [Conn -> -1..BodyLength]
    <3>1. -1 \in -1..BodyLength
      BY ConstantsAssumption
    <3> QED
      BY <1>2, <3>1
  <2>2. got' \in [Id -> Seq(Conn \X (1..MaxSend))]
    <3>1. ASSUME NEW j \in Id, got' = [got EXCEPT ![j] = @ \o data]
          PROVE  got' \in [Id -> Seq(Conn \X (1..MaxSend))]
      <4>1. got[j] \o data \in Seq(Conn \X (1..MaxSend))
        BY <1>2
      <4> QED
        BY <1>2, <3>1, <4>1
    <3> QED
      BY <1>1, <1>2, <3>1
  <2> QED
    BY <1>1, <2>1, <2>2 DEF IndInv, TypeOK
<1>4. NothingYet' /\ FdsMatchWsi' /\ ThreadNeverFaults'
  BY <1>1 DEF IndInv, NothingYet, FdsMatchWsi, ThreadNeverFaults
<1>5. OneIsClosing' /\ RequestsAreOpen'
  BY <1>1, <1>2, ConstantsAssumption DEF IndInv, OneIsClosing, RequestsAreOpen
<1>6. Serving' => ListMatches'
  BY <1>1 DEF IndInv, Serving, ListMatches
<1> QED
  BY <1>3, <1>4, <1>5, <1>6 DEF IndInv

\* One message more is taken from the socket, as long as it has one.
LEMMA TakenGrows ==
    ASSUME IndInv, NEW k \in Conn, arrived[k] > taken[k],
           taken' = [taken EXCEPT ![k] = @ + 1]
    PROVE  taken' \in [Conn -> 0..MaxSend] /\ taken[k] + 1 \in 1..MaxSend
  BY ConstantsAssumption DEF IndInv, TypeOK

\* LWS_CALLBACK_RECEIVE
LEMMA ReceivePreserves ==
    ASSUME IndInv, NEW k \in Conn, Receive(k)
    PROVE  IndInv'
<1>1. /\ pc = "service" /\ wsi[k] = "open" /\ arrived[k] > taken[k]
      /\ taken' = [taken EXCEPT ![k] = @ + 1] /\ Deliver(k, <<<<k, taken[k] + 1>>>>)
      /\ UNCHANGED <<peer, arrived, wsi, fdOf, missing, req_body, m_client_list, m_run_thread,
                     cur, left, view, opened, unknown>>
  BY DEF Receive, InService, peerVars, wsiVars, bodyVars, closeVars
<1>2. taken' \in [Conn -> 0..MaxSend] /\ taken[k] + 1 \in 1..MaxSend
  BY <1>1, TakenGrows
<1>3. <<<<k, taken[k] + 1>>>> \in Seq(Conn \X (1..MaxSend))
  BY <1>2
<1> QED
  BY <1>1, <1>2, <1>3, DeliverPreserves

\* LWS_CALLBACK_HTTP_BODY_COMPLETION
LEMMA HttpBodyCompletionPreserves ==
    ASSUME IndInv, NEW k \in Conn, HttpBodyCompletion(k)
    PROVE  IndInv'
<1>1. /\ pc = "service" /\ missing[k] = 0 /\ missing' = [missing EXCEPT ![k] = -1]
      /\ Deliver(k, req_body)
      /\ UNCHANGED <<peer, arrived, taken, wsi, fdOf, req_body, m_client_list, m_run_thread,
                     cur, left, view, opened, unknown>>
  BY DEF HttpBodyCompletion, peerVars, wsiVars, closeVars
<1>2. wsi[k] = "open"
  BY <1>1 DEF IndInv, RequestsAreOpen
<1>3. req_body \in Seq(Conn \X (1..MaxSend)) /\ taken' \in [Conn -> 0..MaxSend]
  BY <1>1 DEF IndInv, TypeOK
<1> QED
  BY <1>1, <1>2, <1>3, DeliverPreserves

\* LWS_CALLBACK_HTTP and LWS_CALLBACK_HTTP_BODY: only the request changes.
LEMMA HttpPreserves ==
    ASSUME IndInv, NEW k \in Conn, Http(k) \/ HttpBody(k)
    PROVE  IndInv'
<1> USE DEF peerVars, wsiVars, bodyVars, closeVars, listenerVars
<1>1. /\ pc = "service" /\ wsi[k] = "open"
      /\ UNCHANGED <<peer, arrived, wsi, fdOf, m_client_list, m_run_thread, pc, cur, left,
                     view, got, opened, unknown, fault>>
  BY DEF Http, HttpBody, InService
<1>2. /\ missing \in [Conn -> -1..BodyLength] /\ taken \in [Conn -> 0..MaxSend]
      /\ req_body \in Seq(Conn \X (1..MaxSend)) /\ cur = NoConn
  BY <1>1 DEF IndInv, TypeOK, OneIsClosing
<1>3. /\ missing' \in [Conn -> -1..BodyLength] /\ taken' \in [Conn -> 0..MaxSend]
      /\ req_body' \in Seq(Conn \X (1..MaxSend))
      /\ Flavor = "http" /\ \A j \in Conn \ {k} : missing'[j] = missing[j]
  <2>1. CASE Http(k)
    <3>1. <<>> \in Seq(Conn \X (1..MaxSend))
      OBVIOUS
    <3> QED
      BY <1>2, <2>1, <3>1, ConstantsAssumption DEF Http
  <2>2. CASE HttpBody(k)
    <3>1. taken' \in [Conn -> 0..MaxSend] /\ taken[k] + 1 \in 1..MaxSend
      BY <2>2, TakenGrows DEF HttpBody
    <3>2. missing' = [missing EXCEPT ![k] = @ - 1] /\ missing[k] > 0
      BY <2>2 DEF HttpBody
    <3>3. Flavor = "http"
      BY <1>2, <3>2 DEF IndInv, RequestsAreOpen
    <3>4. Append(req_body, <<k, taken[k] + 1>>) \in Seq(Conn \X (1..MaxSend))
      BY <1>2, <3>1
    <3>5. req_body' \in Seq(Conn \X (1..MaxSend))
      BY <1>2, <2>2, <3>4 DEF HttpBody
    <3>6. missing' \in [Conn -> -1..BodyLength]
      BY <1>2, <3>2, ConstantsAssumption
    <3> QED
      BY <1>2, <3>1, <3>2, <3>3, <3>5, <3>6
  <2> QED
    BY <2>1, <2>2
<1>4. TypeOK'
  BY <1>1, <1>3 DEF IndInv, TypeOK
<1>5. NothingYet' /\ FdsMatchWsi' /\ ThreadNeverFaults'
  BY <1>1 DEF IndInv, NothingYet, FdsMatchWsi, ThreadNeverFaults
<1>6. OneIsClosing' /\ RequestsAreOpen'
  BY <1>1, <1>2, <1>3, ConstantsAssumption DEF IndInv, OneIsClosing, RequestsAreOpen
<1>7. Serving' => ListMatches'
  BY <1>1 DEF IndInv, Serving, ListMatches
<1> QED
  BY <1>4, <1>5, <1>6, <1>7 DEF IndInv

-----------------------------------------------------------------------------
(* Closing a connection, and answers from a callback.                      *)

\* lws begins to close one living wsi; the request under way is given up.
LEMMA BeginClosePreserves ==
    ASSUME IndInv, NEW k \in Conn, BeginClose(k)
    PROVE  IndInv'
<1> USE DEF peerVars, wsiVars, listenerVars
<1>1. /\ pc = "service" /\ wsi[k] \in {"handshake", "open"} /\ cur' = k /\ pc' = "closing"
      /\ left' = IF wsi[k] = "open" THEN BothCallbacks ELSE {"DEL_POLL_FD"}
      /\ missing' = [missing EXCEPT ![k] = -1]
      /\ UNCHANGED <<peer, arrived, taken, wsi, fdOf, req_body, m_client_list, m_run_thread,
                     view, got, opened, unknown, fault>>
  BY DEF BeginClose, InService, BothCallbacks
<1>2. missing \in [Conn -> -1..BodyLength] /\ cur = NoConn
  BY <1>1 DEF IndInv, TypeOK, OneIsClosing
<1>3. missing' \in [Conn -> -1..BodyLength] /\ missing'[k] = -1
      /\ \A j \in Conn \ {k} : missing'[j] = missing[j]
  <2>1. -1 \in -1..BodyLength
    BY ConstantsAssumption
  <2> QED
    BY <1>1, <1>2, <2>1
<1>4. left' \subseteq {"DEL_POLL_FD", "CLOSED"} /\ (left' = BothCallbacks <=> wsi[k] = "open")
  BY <1>1 DEF BothCallbacks
<1>5. TypeOK'
  BY <1>1, <1>3, <1>4 DEF IndInv, TypeOK
<1>6. NothingYet' /\ FdsMatchWsi' /\ ThreadNeverFaults'
  BY <1>1 DEF IndInv, NothingYet, FdsMatchWsi, ThreadNeverFaults
<1>7. OneIsClosing' /\ RequestsAreOpen'
  BY <1>1, <1>3, ConstantsAssumption DEF IndInv, OneIsClosing, RequestsAreOpen
<1>8. Serving' => ListMatches'
  <2>1. Serving' => ListMatches
    BY <1>1 DEF IndInv, Serving
  <2> QED
    BY <1>1, <1>2, <1>4, <2>1, ConstantsAssumption DEF ListMatches
<1> QED
  BY <1>5, <1>6, <1>7, <1>8 DEF IndInv

\* The first callback for a closing wsi removes its client, and no other.
LEMMA CloseCallbackPreserves ==
    ASSUME IndInv, NEW reason \in {"DEL_POLL_FD", "CLOSED"}, CloseCallback(reason)
    PROVE  IndInv'
<1> USE DEF peerVars, wsiVars, bodyVars
<1> DEFINE gone == FindByFd(fdOf[cur])
<1>1. /\ pc = "closing" /\ left' = left \ {reason}
      /\ UNCHANGED <<peer, arrived, taken, wsi, fdOf, missing, req_body, m_run_thread, cur,
                     got, opened, fault>>
  BY DEF CloseCallback
<1>2. \/ /\ m_run_thread /\ pc' = "callback" /\ m_client_list' = m_client_list \ gone
         /\ view' = [i \in Id |-> IF \E c \in gone : c.id = i THEN NoConn ELSE view[i]]
      \/ ~m_run_thread /\ UNCHANGED <<pc, m_client_list, view>>
  BY DEF CloseCallback
<1>u. unknown' = unknown \/ unknown' = [unknown EXCEPT ![cur] = @ + 1]
  BY DEF CloseCallback
<1>3. /\ m_client_list \subseteq [id : Id, fd : Fd, conn : Conn] /\ cur \in Conn
      /\ view \in [Id -> Conn \cup {NoConn}] /\ left \subseteq {"DEL_POLL_FD", "CLOSED"}
      /\ fdOf[cur] \in Fd
  BY <1>1 DEF IndInv, TypeOK, OneIsClosing, FdsMatchWsi
<1>4. gone = {c \in m_client_list : c.fd = fdOf[cur]}
  BY DEF FindByFd
<1> HIDE DEF gone
<1>5. TypeOK'
  <2>1. left' \subseteq {"DEL_POLL_FD", "CLOSED"}
    BY <1>1, <1>3
  <2>2. m_client_list' \subseteq [id : Id, fd : Fd, conn : Conn]
        /\ view' \in [Id -> Conn \cup {NoConn}]
        /\ pc' \in {"callback", "closing"}
    BY <1>1, <1>2, <1>3
  <2>3. unknown' \in [Conn -> Nat]
    <3>1. unknown \in [Conn -> Nat]
      BY DEF IndInv, TypeOK
    <3>2. unknown[cur] + 1 \in Nat
      BY <1>3, <3>1
    <3> QED
      BY <1>u, <1>3, <3>1, <3>2
  <2> QED
    BY <1>1, <2>1, <2>2, <2>3 DEF IndInv, TypeOK
<1>6. NothingYet' /\ FdsMatchWsi' /\ RequestsAreOpen' /\ ThreadNeverFaults'
  BY <1>1, <1>2 DEF IndInv, NothingYet, FdsMatchWsi, RequestsAreOpen, ThreadNeverFaults
<1>7. OneIsClosing'
  BY <1>1, <1>2, <1>3, ConstantsAssumption DEF IndInv, OneIsClosing
<1>8. Serving' => ListMatches'
  <2>1. CASE ~m_run_thread
    BY <1>1, <1>2, <2>1 DEF Serving
  <2>2. CASE m_run_thread
    <3>1. ListMatches /\ FdsMatchWsi /\ left' # BothCallbacks
      BY <1>1, <2>2 DEF IndInv, Serving, BothCallbacks
    <3>2. /\ m_client_list' = m_client_list \ gone
          /\ view' = [i \in Id |-> IF \E c \in gone : c.id = i THEN NoConn ELSE view[i]]
      BY <1>2, <2>2
    <3>3. \A c \in m_client_list : c \in gone <=> c.conn = cur
      BY <1>3, <1>4, <3>1 DEF ListMatches, FdsMatchWsi
    <3>4. \A c \in m_client_list' : c \in m_client_list /\ c \notin gone /\ c.conn # cur
                                   /\ c.id \in Id
      BY <1>3, <3>2, <3>3
    <3>5. \A c \in m_client_list' : view'[c.id] = c.conn
      <4>1. ASSUME NEW c \in m_client_list' PROVE ~ \E d \in gone : d.id = c.id
        BY <1>4, <3>1, <3>4 DEF ListMatches
      <4> QED
        BY <3>1, <3>2, <3>4, <4>1 DEF ListMatches
    <3>6. \A i \in Id : view'[i] # NoConn =>
              \E c \in m_client_list' : c.id = i /\ c.conn = view'[i]
      BY <3>1, <3>2 DEF ListMatches
    <3>7. \A k \in Conn : wsi[k] = "open" /\ (k = cur => left' = BothCallbacks) =>
              \E c \in m_client_list' : c.conn = k
      BY <1>3, <3>1, <3>2, <3>3 DEF ListMatches
    <3> QED
      BY <1>1, <3>1, <3>4, <3>5, <3>6, <3>7 DEF ListMatches
  <2> QED
    BY <2>1, <2>2
<1> QED
  BY <1>5, <1>6, <1>7, <1>8 DEF IndInv

\* When the wsi is freed no client points to it.
LEMMA CloseDonePreserves ==
    ASSUME IndInv, CloseDone
    PROVE  IndInv'
<1> USE DEF peerVars, bodyVars, listenerVars
<1>1. /\ pc = "closing" /\ left = {} /\ cur' = NoConn /\ pc' = "service"
      /\ wsi' = [wsi EXCEPT ![cur] = "freed"] /\ fdOf' = [fdOf EXCEPT ![cur] = NoFd]
      /\ UNCHANGED <<peer, arrived, taken, missing, req_body, m_client_list, m_run_thread,
                     left, view, got, opened, unknown, fault>>
  BY DEF CloseDone
<1>2. /\ wsi \in [Conn -> {"none", "handshake", "open", "freed"}] /\ cur \in Conn
      /\ fdOf \in [Conn -> Fd \cup {NoFd}] /\ m_client_list \subseteq [id : Id, fd : Fd, conn : Conn]
      /\ missing[cur] = -1
  BY <1>1 DEF IndInv, TypeOK, OneIsClosing
<1>3. TypeOK'
  BY <1>1, <1>2 DEF IndInv, TypeOK
<1>4. NothingYet' /\ ThreadNeverFaults'
  BY <1>1 DEF IndInv, NothingYet, ThreadNeverFaults
<1>5. FdsMatchWsi'
  BY <1>1, <1>2, ConstantsAssumption DEF IndInv, FdsMatchWsi
<1>6. OneIsClosing' /\ RequestsAreOpen'
  BY <1>1, <1>2, ConstantsAssumption DEF IndInv, OneIsClosing, RequestsAreOpen
<1>7. Serving' => ListMatches'
  <2>1. Serving' => ListMatches /\ \A c \in m_client_list : c.conn # cur
    BY <1>1, <1>2 DEF IndInv, Serving, ListMatches, BothCallbacks
  <2> QED
    BY <1>1, <1>2, <2>1, ConstantsAssumption DEF ListMatches
<1> QED
  BY <1>3, <1>4, <1>5, <1>6, <1>7 DEF IndInv

\* An id the listener knows is listed, with an open wsi: the answer is safe.
LEMMA CallbackSendPreserves ==
    ASSUME IndInv, NEW i \in Id, CallbackSend(i)
    PROVE  IndInv'
<1> DEFINE reached == {c \in FindById(i) : wsi[c.conn] = "open"}
<1>1. pc = "callback" /\ view[i] # NoConn
      /\ UNCHANGED <<peer, arrived, taken, wsi, fdOf, req_body, m_client_list,
                     m_run_thread, pc, cur, left, view, got, opened, unknown>>
  BY DEF CallbackSend, peerVars, wsiVars, closeVars, listenerVars
<1>2. \E c \in FindById(i) : wsi[c.conn] = "open"
  BY <1>1 DEF IndInv, Serving, ListMatches, FindById
<1>3. fault' = IF reached = {} THEN "thread" ELSE fault
  BY DEF CallbackSend
<1>4. fault' = fault
  BY <1>2, <1>3
<1>5. missing' = [k \in Conn |-> IF \E c \in reached : c.conn = k THEN -1 ELSE missing[k]]
  BY DEF CallbackSend
<1>6. missing' \in [Conn -> -1..BodyLength] /\ \A k \in Conn : missing'[k] \in {-1, missing[k]}
  <2>1. -1 \in -1..BodyLength /\ missing \in [Conn -> -1..BodyLength]
    BY ConstantsAssumption DEF IndInv, TypeOK
  <2> HIDE DEF reached
  <2> QED
    BY <1>5, <2>1
<1>7. TypeOK' /\ RequestsAreOpen' /\ OneIsClosing'
  BY <1>1, <1>4, <1>6 DEF IndInv, TypeOK, RequestsAreOpen, OneIsClosing
<1> QED
  BY <1>1, <1>4, <1>7 DEF IndInv, NothingYet, FdsMatchWsi, Serving, ListMatches, ThreadNeverFaults

-----------------------------------------------------------------------------
(* The invariant and what follows from it.                                 *)

\* The initial states satisfy the inductive invariant.
LEMMA InitEstablishes == Init => IndInv
<1> SUFFICES ASSUME Init PROVE IndInv
  OBVIOUS
<1>1. TypeOK
  <2>1. <<>> \in Seq(Conn \X (1..MaxSend))
    OBVIOUS
  <2>2. -1 \in -1..BodyLength /\ 0 \in 0..MaxSend
    BY ConstantsAssumption
  <2>3. got \in [Id -> Seq(Conn \X (1..MaxSend))]
    BY <2>1 DEF Init
  <2> QED
    BY <2>1, <2>2, <2>3 DEF Init, TypeOK
<1>2. NothingYet /\ FdsMatchWsi /\ OneIsClosing /\ RequestsAreOpen /\ ThreadNeverFaults
  BY ConstantsAssumption
     DEF Init, NothingYet, FdsMatchWsi, OneIsClosing, RequestsAreOpen, ThreadNeverFaults
<1>3. ~Serving
  BY DEF Init, Serving
<1> QED
  BY <1>1, <1>2, <1>3 DEF IndInv

\* Every step preserves the inductive invariant.
LEMMA NextPreserves == IndInv /\ [Next]_vars => IndInv'
<1> SUFFICES ASSUME IndInv, [Next]_vars PROVE IndInv'
  OBVIOUS
<1>1. CASE \/ \E k \in Conn : Connect(k) \/ PeerWrite(k) \/ Hangup(k)
           \/ ThreadStart \/ LoopTest \/ ServiceReturns \/ CallbackReturn \/ Stop
           \/ UNCHANGED vars
  BY <1>1, ControlPreserves
<1>2. CASE \E k \in Conn, f \in Fd : WsAccept(k, f)
  BY <1>2, WsAcceptPreserves
<1>3. CASE \E k \in Conn, i \in Id : Established(k, i)
  BY <1>3, EstablishedPreserves
<1>4. CASE \E k \in Conn, f \in Fd, i \in Id : ClientInstantiated(k, f, i)
  BY <1>4, ClientInstantiatedPreserves
<1>5. CASE \E k \in Conn : Receive(k) \/ Http(k) \/ HttpBody(k) \/ HttpBodyCompletion(k)
  BY <1>5, ReceivePreserves, HttpPreserves, HttpBodyCompletionPreserves
<1>6. CASE \E k \in Conn : BeginClose(k)
  BY <1>6, BeginClosePreserves
<1>7. CASE \E reason \in {"DEL_POLL_FD", "CLOSED"} : CloseCallback(reason)
  BY <1>7, CloseCallbackPreserves
<1>8. CASE CloseDone
  BY <1>8, CloseDonePreserves
<1>9. CASE \E i \in Id : CallbackSend(i)
  BY <1>9, CallbackSendPreserves
<1> QED
  BY <1>1, <1>2, <1>3, <1>4, <1>5, <1>6, <1>7, <1>8, <1>9 DEF Next, ThreadStep

\* The inductive invariant holds in every reachable state.
THEOREM Invariance == Spec => []IndInv
  BY InitEstablishes, NextPreserves, PTL DEF Spec

\* Every variable keeps its type.
THEOREM TypeCorrect == Spec => []TypeOK
<1>1. IndInv => TypeOK
  BY DEF IndInv
<1> QED
  BY <1>1, Invariance, PTL

\* No entry of the client list outlives the wsi it points to while the server runs,
\* and the descriptor finds one client (findClientInfo, removeClientInfo).
THEOREM ClientsAlwaysHaveOpenWsi == Spec => []ClientsHaveOpenWsi
<1>1. IndInv => ClientsHaveOpenWsi
  BY DEF IndInv, Serving, ListMatches, ClientsHaveOpenWsi
<1> QED
  BY <1>1, Invariance, PTL

\* The unchecked results of findClientInfo in the callbacks are always valid.
THEOREM ThreadNeverFaultsAlways == Spec => []ThreadNeverFaults
<1>1. IndInv => ThreadNeverFaults
  BY DEF IndInv
<1> QED
  BY <1>1, Invariance, PTL
=============================================================================
