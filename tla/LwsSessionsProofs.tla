------------------------- MODULE LwsSessionsProofs --------------------------
(***************************************************************************)
(* LwsServer implements ClientSessions: the WebSocket server always, the   *)
(* HTTP server as long as the requests of two clients do not overlap (the  *)
(* static string of __callback_http__ is shared by all of them; the run    *)
(* that lets them overlap shows what happens then) and no client is        *)
(* answered in the middle of its request (which gives up the rest of it).  *)
(*                                                                         *)
(* An open wsi is announced once.  What has been taken from its socket is  *)
(* what its session has received, or lies in the static string.  The last  *)
(* close callback of a connection, and only that one, finds no client: it  *)
(* is the one disconnection of an unknown id that ClientSessions allows.   *)
(***************************************************************************)
EXTENDS LwsServerProofs

\* Messages of a session that were taken and not yet handed over.
Pending(k) == IF missing[k] = -1 THEN 0 ELSE BodyLength - missing[k]

\* A connection is announced when its wsi opens, and says nothing before.
OpenedOnce ==
    \A k \in Conn : wsi[k] \notin {"open", "freed"} => k \notin opened /\ taken[k] = 0

\* A session has received what was taken from its connection and is not pending.
SessionsHaveTaken ==
    \A i \in Id : view[i] \in Conn /\ view[i] # cur =>
        Len(got[i]) = taken[view[i]] - Pending(view[i])

\* The static string holds the pending pieces of the only request under way.
BodyIsPending ==
    \A k \in Conn : missing[k] # -1 =>
        /\ \A j \in Conn : missing[j] # -1 => j = k
        /\ Pending(k) <= taken[k]
        /\ req_body = Sessions!Stream(k, taken[k] - Pending(k), Pending(k))

\* Closing a connection that was never announced makes one callback.
FailedHandshakeClosesOnce ==
    cur \in Conn /\ wsi[cur] # "open" => left \subseteq {"DEL_POLL_FD"}

\* Only the last callback of a connection announces an unknown id.
UnknownIsLast ==
    \A k \in Conn : unknown[k] = 0 \/ wsi[k] = "freed" \/ (k = cur /\ left = {})

CloseInv == FailedHandshakeClosesOnce /\ UnknownIsLast

SessionInv ==
    /\ OpenedOnce
    /\ m_run_thread => SessionsHaveTaken /\ BodyIsPending

\* What is assumed of the clients of the HTTP server.
RequestsAreSeparate == Flavor = "websocket" \/ (~Overlap /\ ~AnswerEarly)

-----------------------------------------------------------------------------
(* Streams and ids.                                                        *)

\* A stream of n messages has length n and grows at its end.
LEMMA StreamGrows ==
    ASSUME NEW k, NEW from \in Nat, NEW n \in Nat
    PROVE  /\ Sessions!Stream(k, from, n) \in Seq({k} \X Nat)
           /\ Len(Sessions!Stream(k, from, n)) = n
           /\ Append(Sessions!Stream(k, from, n), <<k, from + n + 1>>)
                = Sessions!Stream(k, from, n + 1)
<1> DEFINE s == Sessions!Stream(k, from, n)
<1>1. s \in Seq({k} \X Nat) /\ Len(s) = n /\ \A j \in 1..n : s[j] = <<k, from + j>>
  BY DEF Sessions!Stream
<1>2. Append(s, <<k, from + n + 1>>) = [j \in 1..(n + 1) |-> <<k, from + j>>]
  <2> HIDE DEF s
  <2>1. Append(s, <<k, from + n + 1>>) =
            [j \in 1..(n + 1) |-> IF j = n + 1 THEN <<k, from + n + 1>> ELSE s[j]]
    BY <1>1
  <2>2. \A j \in 1..(n + 1) : (IF j = n + 1 THEN <<k, from + n + 1>> ELSE s[j]) = <<k, from + j>>
    BY <1>1
  <2> QED
    BY <2>1, <2>2
<1> QED
  BY <1>1, <1>2 DEF Sessions!Stream

\* Two ids never name the same connection.
LEMMA OneSessionPerConnection ==
    ASSUME IndInv, Serving, NEW i \in Id, NEW j \in Id, view[i] \in Conn, view[i] = view[j]
    PROVE  i = j
<1>1. ListMatches /\ view[i] # NoConn
  BY ConstantsAssumption DEF IndInv
<1>2. PICK c \in m_client_list : c.id = i /\ c.conn = view[i]
  BY <1>1 DEF ListMatches
<1>3. PICK d \in m_client_list : d.id = j /\ d.conn = view[j]
  BY <1>1 DEF ListMatches
<1>4. c = d
  BY <1>1, <1>2, <1>3 DEF ListMatches
<1> QED
  BY <1>2, <1>3, <1>4

-----------------------------------------------------------------------------
(* Disconnections of unknown ids.                                          *)

\* The second callback of a close, and the only one of a failed handshake, finds no
\* client; it is the last one, and the first of its kind for this connection.
LEMMA LastCallback ==
    ASSUME IndInv, CloseInv, m_run_thread, NEW reason \in BothCallbacks, CloseCallback(reason)
    PROVE  LET gone == FindByFd(fdOf[cur]) IN
           /\ cur \in Conn /\ unknown[cur] = 0
           /\ \A c \in gone : view[c.id] = c.conn /\ c.conn \in Conn /\ c.id \in Id
           /\ gone = {} => left' = {} /\ \A i \in Id : view[i] # cur
<1> DEFINE gone == FindByFd(fdOf[cur])
<1>1. pc = "closing" /\ reason \in left /\ left' = left \ {reason}
  BY DEF CloseCallback
<1>2. /\ cur \in Conn /\ wsi[cur] \in {"handshake", "open"} /\ ListMatches
      /\ m_client_list \subseteq [id : Id, fd : Fd, conn : Conn] /\ left \subseteq BothCallbacks
  BY <1>1 DEF IndInv, TypeOK, OneIsClosing, Serving, BothCallbacks
<1>3. unknown[cur] = 0
  BY <1>1, <1>2 DEF CloseInv, UnknownIsLast
<1>4. gone = {c \in m_client_list : c.fd = fdOf[cur]}
  BY DEF FindByFd
<1> HIDE DEF gone
<1>5. \A c \in gone : view[c.id] = c.conn /\ c.conn \in Conn /\ c.id \in Id
  BY <1>2, <1>4 DEF ListMatches
<1>6. ASSUME gone = {} PROVE left' = {} /\ \A i \in Id : view[i] # cur
  <2>1. \A c \in m_client_list : c.conn # cur
    BY <1>2, <1>4, <1>6 DEF ListMatches
  <2>2. \A i \in Id : view[i] # cur
    BY <1>2, <2>1, ConstantsAssumption DEF ListMatches
  <2>3. left # BothCallbacks
    <3>1. CASE wsi[cur] = "open"
      BY <1>2, <2>1, <3>1 DEF ListMatches
    <3>2. CASE wsi[cur] # "open"
      BY <1>2, <3>2 DEF CloseInv, FailedHandshakeClosesOnce, BothCallbacks
    <3> QED
      BY <3>1, <3>2
  <2>4. left = {reason}
    BY <1>1, <1>2, <2>3 DEF BothCallbacks
  <2> QED
    BY <1>1, <2>2, <2>4
<1> QED
  BY <1>2, <1>3, <1>5, <1>6 DEF gone

\* Every step keeps the count of unknown ids: only close callbacks touch it.
LEMMA NextPreservesCloseInv ==
    ASSUME IndInv, CloseInv, [Next]_vars
    PROVE  CloseInv'
<1> USE DEF wsiVars, closeVars, listenerVars
<1>1. /\ wsi \in [Conn -> {"none", "handshake", "open", "freed"}] /\ unknown \in [Conn -> Nat]
      /\ left \subseteq BothCallbacks
  BY DEF IndInv, TypeOK, BothCallbacks
<1>2. CASE UNCHANGED <<wsi, cur, left, unknown>>
  BY <1>2 DEF CloseInv, FailedHandshakeClosesOnce, UnknownIsLast
<1>3. CASE \/ \E k \in Conn, f \in Fd : WsAccept(k, f)
           \/ \E k \in Conn, i \in Id : Established(k, i)
           \/ \E k \in Conn, f \in Fd, i \in Id : ClientInstantiated(k, f, i)
  <2>1. PICK k \in Conn : /\ wsi[k] \in {"none", "handshake"} /\ pc = "service"
                          /\ wsi' = [wsi EXCEPT ![k] = "open"]
                             \/ wsi' = [wsi EXCEPT ![k] = "handshake"]
                          /\ UNCHANGED <<cur, left, unknown>>
    BY <1>3 DEF WsAccept, Established, ClientInstantiated, InService
  <2>2. cur = NoConn
    BY <2>1 DEF IndInv, OneIsClosing
  <2> QED
    BY <1>1, <2>1, <2>2, ConstantsAssumption
       DEF CloseInv, FailedHandshakeClosesOnce, UnknownIsLast
<1>4. CASE \E k \in Conn : BeginClose(k)
  <2>1. PICK k \in Conn : /\ pc = "service" /\ cur' = k /\ UNCHANGED <<wsi, unknown>>
                          /\ left' = IF wsi[k] = "open" THEN BothCallbacks ELSE {"DEL_POLL_FD"}
    BY <1>4 DEF BeginClose, InService, BothCallbacks
  <2>2. cur = NoConn
    BY <2>1 DEF IndInv, OneIsClosing
  <2> QED
    BY <1>1, <2>1, <2>2, ConstantsAssumption
       DEF CloseInv, FailedHandshakeClosesOnce, UnknownIsLast
<1>5. ASSUME NEW reason \in BothCallbacks, CloseCallback(reason) PROVE CloseInv'
  <2> DEFINE gone == FindByFd(fdOf[cur])
  <2>1. left' = left \ {reason} /\ UNCHANGED <<wsi, cur>>
    BY <1>5 DEF CloseCallback
  <2>2. FailedHandshakeClosesOnce'
    BY <2>1 DEF CloseInv, FailedHandshakeClosesOnce
  <2>3. CASE unknown' = unknown
    BY <2>1, <2>2, <2>3 DEF CloseInv, UnknownIsLast
  <2>4. CASE unknown' # unknown
    <3>1. m_run_thread /\ unknown' = [unknown EXCEPT ![cur] = @ + 1]
          /\ ~ \E c \in gone : view[c.id] # NoConn
      BY <1>5, <2>4 DEF CloseCallback
    <3>2. left' = {} /\ cur \in Conn
      BY <1>5, <3>1, LastCallback, ConstantsAssumption
    <3> QED
      BY <1>1, <2>1, <2>2, <3>1, <3>2 DEF CloseInv, UnknownIsLast
  <2> QED
    BY <2>3, <2>4
<1>6. CASE CloseDone
  <2>1. wsi' = [wsi EXCEPT ![cur] = "freed"] /\ cur' = NoConn /\ UNCHANGED unknown
    BY <1>6 DEF CloseDone
  <2> QED
    BY <1>1, <2>1, ConstantsAssumption
       DEF CloseInv, FailedHandshakeClosesOnce, UnknownIsLast
<1>7. CASE \/ \E k \in Conn : Connect(k) \/ PeerWrite(k) \/ Hangup(k)
           \/ ThreadStart \/ LoopTest \/ ServiceReturns \/ CallbackReturn \/ Stop
           \/ \E k \in Conn : Receive(k) \/ Http(k) \/ HttpBody(k) \/ HttpBodyCompletion(k)
           \/ \E i \in Id : CallbackSend(i)
           \/ UNCHANGED vars
  BY <1>2, <1>7 DEF Connect, PeerWrite, Hangup, ThreadStart, LoopTest, ServiceReturns,
     CallbackReturn, Stop, Receive, Http, HttpBody, HttpBodyCompletion, CallbackSend, vars
<1> QED
  BY <1>3, <1>4, <1>5, <1>6, <1>7 DEF Next, ThreadStep, BothCallbacks

-----------------------------------------------------------------------------
(* The steps the listener sees.                                            *)

\* A wsi opens: its connection is announced for the first time, unless stop() was
\* called.
LEMMA OpensRefines ==
    ASSUME IndInv, SessionInv, NEW k \in Conn, NEW f, NEW i \in FreeIds,
           pc = "service", wsi[k] \in {"none", "handshake"},
           wsi' = [wsi EXCEPT ![k] = "open"], Announce(k, f, i),
           UNCHANGED <<taken, missing, req_body, m_run_thread, cur, left, unknown>>
    PROVE  [Sessions!Next]_(Sessions!sessionVars) /\ SessionInv'
<1>1. /\ wsi \in [Conn -> {"none", "handshake", "open", "freed"}] /\ i \in Id
      /\ view \in [Id -> Conn \cup {NoConn}] /\ got \in [Id -> Seq(Conn \X (1..MaxSend))]
  BY DEF IndInv, TypeOK, FreeIds
<1>2. k \notin opened /\ taken[k] = 0 /\ missing[k] = -1
  BY DEF SessionInv, OpenedOnce, IndInv, RequestsAreOpen
<1>3. CASE m_run_thread
  <2>1. /\ view' = [view EXCEPT ![i] = k] /\ got' = [got EXCEPT ![i] = <<>>]
        /\ opened' = opened \cup {k}
    BY <1>3 DEF Announce
  <2>2. view[i] = NoConn
    <3>1. ListMatches
      BY <1>3 DEF IndInv, Serving
    <3>2. \A c \in m_client_list : c.id # i
      BY DEF FreeIds
    <3> QED
      BY <1>1, <3>1, <3>2 DEF ListMatches
  <2>3. Sessions!Open(i, k)
    BY <1>2, <2>1, <2>2 DEF Sessions!Open
  <2>4. Sessions!Next
    BY <1>1, <2>3 DEF Sessions!Next
  <2>5. OpenedOnce'
    BY <1>1, <2>1 DEF SessionInv, OpenedOnce
  <2>6. SessionsHaveTaken'
    <3>1. \A j \in Id : /\ view'[j] = IF j = i THEN k ELSE view[j]
                        /\ got'[j] = IF j = i THEN <<>> ELSE got[j]
      BY <1>1, <2>1
    <3>2. Len(<<>>) = 0 /\ Pending(k) = 0
      BY <1>2 DEF Pending
    <3>3. \A j \in Conn : Pending(j)' = Pending(j)
      BY DEF Pending
    <3> QED
      BY <1>2, <1>3, <3>1, <3>2, <3>3 DEF SessionInv, SessionsHaveTaken
  <2>7. BodyIsPending'
    BY <1>3 DEF SessionInv, BodyIsPending, Pending
  <2> QED
    BY <2>4, <2>5, <2>6, <2>7 DEF SessionInv
<1>4. CASE ~m_run_thread
  <2>1. UNCHANGED <<view, got, opened, unknown>>
    BY <1>4 DEF Announce
  <2>2. OpenedOnce'
    BY <1>1, <2>1 DEF SessionInv, OpenedOnce
  <2> QED
    BY <1>4, <2>1, <2>2 DEF SessionInv, Sessions!sessionVars
<1> QED
  BY <1>3, <1>4

\* Data goes to the session of its connection, and is the next in its stream.
LEMMA DeliverReceives ==
    ASSUME IndInv, SessionInv, NEW k \in Conn, pc = "service", wsi[k] = "open",
           NEW n \in 1..(IF Flavor = "http" THEN BodyLength ELSE 1),
           m_run_thread, UNCHANGED <<view, opened, unknown>>,
           Deliver(k, Sessions!Stream(k, taken[k] - Pending(k), n))
    PROVE  /\ Sessions!Next
           /\ \E i \in Id : /\ view[i] = k /\ Len(got'[i]) = taken[k] - Pending(k) + n
                            /\ \A j \in Id \ {i} : got'[j] = got[j] /\ view[j] # k
<1>1. PICK c \in FindByFd(fdOf[k]) :
          got' = [got EXCEPT ![c.id] = @ \o Sessions!Stream(k, taken[k] - Pending(k), n)]
  BY DeliverFinds DEF Deliver
<1> DEFINE i == c.id
<1>2. i \in Id /\ view[i] = k
  BY <1>1, DeliverFinds
<1> HIDE DEF i
<1>3. cur = NoConn /\ got \in [Id -> Seq(Conn \X (1..MaxSend))]
  BY DEF IndInv, TypeOK, OneIsClosing
<1>4. Len(got[i]) = taken[k] - Pending(k) /\ Len(got[i]) \in Nat
  BY <1>2, <1>3, ConstantsAssumption DEF SessionInv, SessionsHaveTaken
<1>5. got' = [got EXCEPT ![i] = @ \o Sessions!Stream(k, Len(got[i]), n)]
  BY <1>1, <1>4 DEF i
<1>6. Sessions!Receive(i, n)
  BY <1>2, <1>5 DEF Sessions!Receive
<1>7. n \in Nat
  BY ConstantsAssumption
<1>8. Len(got'[i]) = Len(got[i]) + n /\ \A j \in Id \ {i} : got'[j] = got[j]
  <2> DEFINE s == Sessions!Stream(k, Len(got[i]), n)
  <2>1. s \in Seq({k} \X Nat) /\ Len(s) = n
    BY <1>4, <1>7, StreamGrows
  <2> HIDE DEF s
  <2>2. got'[i] = got[i] \o s
    BY <1>2, <1>3, <1>5 DEF s
  <2>3. Len(got[i] \o s) = Len(got[i]) + Len(s)
    <3>1. got[i] \in Seq(Conn \X (1..MaxSend))
      BY <1>2, <1>3
    <3>2. got[i] \in Seq(Conn \X Nat)
      <4>1. \A p \in 1..Len(got[i]) : got[i][p] \in Conn \X Nat
        BY <3>1, ConstantsAssumption
      <4> QED
        BY <3>1, <4>1
    <3>3. s \in Seq(Conn \X Nat)
      <4>1. \A p \in 1..Len(s) : s[p] \in Conn \X Nat
        BY <2>1
      <4> QED
        BY <2>1, <4>1
    <3> QED
      BY <3>2, <3>3, ConcatProperties
  <2> QED
    BY <1>2, <1>3, <1>5, <2>1, <2>2, <2>3
<1>9. \A j \in Id \ {i} : view[j] # k
  BY <1>2, OneSessionPerConnection DEF Serving
<1> QED
  BY <1>2, <1>4, <1>6, <1>8, <1>9 DEF Sessions!Next

\* LWS_CALLBACK_RECEIVE hands over the next message of the connection.
LEMMA ReceiveRefines ==
    ASSUME IndInv, SessionInv, NEW k \in Conn, Receive(k)
    PROVE  [Sessions!Next]_(Sessions!sessionVars) /\ SessionInv'
<1>1. /\ pc = "service" /\ wsi[k] = "open" /\ arrived[k] > taken[k] /\ Flavor = "websocket"
      /\ taken' = [taken EXCEPT ![k] = @ + 1] /\ Deliver(k, <<<<k, taken[k] + 1>>>>)
      /\ UNCHANGED <<wsi, missing, req_body, m_run_thread, cur, view, opened, unknown>>
  BY DEF Receive, InService, wsiVars, bodyVars, closeVars
<1>2. taken \in [Conn -> 0..MaxSend] /\ MaxSend \in Nat /\ cur = NoConn
  BY <1>1, ConstantsAssumption DEF IndInv, TypeOK, OneIsClosing
<1>3. \A j \in Conn : missing[j] = -1 /\ Pending(j) = 0 /\ Pending(j)' = 0
  BY <1>1 DEF IndInv, RequestsAreOpen, Pending
<1>4. OpenedOnce'
  BY <1>1, <1>2 DEF SessionInv, OpenedOnce
<1>5. CASE m_run_thread
  <2>1. Sessions!Stream(k, taken[k] - Pending(k), 1) = <<<<k, taken[k] + 1>>>>
    BY <1>2, <1>3 DEF Sessions!Stream
  <2>2. 1 \in 1..(IF Flavor = "http" THEN BodyLength ELSE 1)
    BY <1>1
  <2>3. /\ Sessions!Next
        /\ \E i \in Id : /\ view[i] = k /\ Len(got'[i]) = taken[k] - Pending(k) + 1
                         /\ \A j \in Id \ {i} : got'[j] = got[j] /\ view[j] # k
    BY <1>1, <1>5, <2>1, <2>2, DeliverReceives
  <2>4. PICK i \in Id : /\ view[i] = k /\ Len(got'[i]) = taken[k] + 1
                        /\ \A j \in Id \ {i} : got'[j] = got[j] /\ view[j] # k
    BY <1>2, <1>3, <2>3
  <2>5. SessionsHaveTaken'
    <3>1. SessionsHaveTaken
      BY <1>5 DEF SessionInv
    <3>2. ASSUME NEW j \in Id, view[j] \in Conn PROVE Len(got'[j]) = taken'[view[j]]
      <4>1. CASE j = i
        BY <1>1, <1>2, <2>4, <4>1
      <4>2. CASE j # i
        <5>1. Len(got[j]) = taken[view[j]] - Pending(view[j])
          BY <1>2, <3>1, <3>2, ConstantsAssumption DEF SessionsHaveTaken
        <5> QED
          BY <1>1, <1>2, <1>3, <2>4, <3>2, <4>2, <5>1
      <4> QED
        BY <4>1, <4>2
    <3>3. \A j \in Conn : taken'[j] - Pending(j)' = taken'[j]
      BY <1>1, <1>2, <1>3
    <3> QED
      BY <1>1, <3>2, <3>3 DEF SessionsHaveTaken
  <2>6. BodyIsPending'
    BY <1>1, <1>3 DEF BodyIsPending
  <2> QED
    BY <1>4, <2>3, <2>5, <2>6 DEF SessionInv
<1>6. CASE ~m_run_thread
  <2>1. UNCHANGED got
    BY <1>1, <1>6, Zenon DEF Deliver
  <2> QED
    BY <1>1, <1>4, <1>6, <2>1 DEF SessionInv, Sessions!sessionVars
<1> QED
  BY <1>5, <1>6

\* LWS_CALLBACK_HTTP_BODY_COMPLETION hands over the static string, which holds the
\* body of this request and nothing else.
LEMMA HttpBodyCompletionRefines ==
    ASSUME IndInv, SessionInv, NEW k \in Conn, HttpBodyCompletion(k)
    PROVE  [Sessions!Next]_(Sessions!sessionVars) /\ SessionInv'
<1>1. /\ pc = "service" /\ missing[k] = 0 /\ missing' = [missing EXCEPT ![k] = -1]
      /\ Deliver(k, req_body)
      /\ UNCHANGED <<taken, wsi, req_body, m_run_thread, cur, view, opened, unknown>>
  BY DEF HttpBodyCompletion, wsiVars, closeVars
<1>2. wsi[k] = "open" /\ Flavor = "http"
  BY <1>1 DEF IndInv, RequestsAreOpen
<1>3. /\ taken \in [Conn -> 0..MaxSend] /\ missing \in [Conn -> -1..BodyLength] /\ cur = NoConn
      /\ MaxSend \in Nat /\ BodyLength \in Nat \ {0}
  BY <1>1, ConstantsAssumption DEF IndInv, TypeOK, OneIsClosing
<1>4. Pending(k) = BodyLength /\ Pending(k)' = 0 /\ \A j \in Conn \ {k} : Pending(j)' = Pending(j)
  BY <1>1, <1>3 DEF Pending
<1>5. OpenedOnce'
  BY <1>1, <1>2 DEF SessionInv, OpenedOnce
<1>6. CASE m_run_thread
  <2>1. /\ \A j \in Conn : missing[j] # -1 => j = k
        /\ req_body = Sessions!Stream(k, taken[k] - Pending(k), BodyLength)
    BY <1>1, <1>4, <1>6 DEF SessionInv, BodyIsPending
  <2>2. BodyLength \in 1..(IF Flavor = "http" THEN BodyLength ELSE 1)
    BY <1>2, <1>3
  <2>3. /\ Sessions!Next
        /\ \E i \in Id : /\ view[i] = k /\ Len(got'[i]) = taken[k] - Pending(k) + BodyLength
                         /\ \A j \in Id \ {i} : got'[j] = got[j] /\ view[j] # k
    BY <1>1, <1>2, <1>6, <2>1, <2>2, DeliverReceives
  <2>4. PICK i \in Id : /\ view[i] = k /\ Len(got'[i]) = taken[k]
                        /\ \A j \in Id \ {i} : got'[j] = got[j] /\ view[j] # k
    BY <1>3, <1>4, <2>3
  <2>5. SessionsHaveTaken'
    <3>1. SessionsHaveTaken
      BY <1>6 DEF SessionInv
    <3>2. ASSUME NEW j \in Id, view[j] \in Conn
          PROVE  Len(got'[j]) = taken[view[j]] - Pending(view[j])'
      <4>1. CASE j = i
        BY <1>1, <1>3, <1>4, <2>4, <4>1
      <4>2. CASE j # i
        <5>1. Len(got[j]) = taken[view[j]] - Pending(view[j])
          BY <1>3, <3>1, <3>2, ConstantsAssumption DEF SessionsHaveTaken
        <5>2. view[j] \in Conn \ {k} /\ view'[j] = view[j]
          BY <1>1, <2>4, <3>2, <4>2
        <5>3. Pending(view[j])' = Pending(view[j])
          BY <1>1, <5>2 DEF Pending, IndInv, TypeOK
        <5> QED
          BY <2>4, <4>2, <5>1, <5>3
      <4> QED
        BY <4>1, <4>2
    <3> QED
      BY <1>1, <3>2 DEF SessionsHaveTaken
  <2>6. BodyIsPending'
    BY <1>1, <1>3, <2>1 DEF BodyIsPending
  <2> QED
    BY <1>5, <2>3, <2>5, <2>6 DEF SessionInv
<1>7. CASE ~m_run_thread
  <2>1. UNCHANGED got
    BY <1>1, <1>7, Zenon DEF Deliver
  <2> QED
    BY <1>1, <1>5, <1>7, <2>1 DEF SessionInv, Sessions!sessionVars
<1> QED
  BY <1>6, <1>7

\* The first callback for a closing wsi ends the session of its connection; the
\* second one is the disconnection of the id 0, which names nobody.
LEMMA CloseCallbackRefines ==
    ASSUME IndInv, CloseInv, SessionInv, NEW reason \in {"DEL_POLL_FD", "CLOSED"}, CloseCallback(reason)
    PROVE  [Sessions!Next]_(Sessions!sessionVars) /\ SessionInv'
<1> DEFINE gone == FindByFd(fdOf[cur])
<1>1. /\ pc = "closing"
      /\ UNCHANGED <<taken, wsi, missing, req_body, m_run_thread, cur, got, opened>>
  BY DEF CloseCallback, wsiVars, bodyVars
<1>2. OpenedOnce'
  BY <1>1 DEF SessionInv, OpenedOnce
<1>3. view \in [Id -> Conn \cup {NoConn}] /\ cur \in Conn /\ fdOf[cur] \in Fd
      /\ m_client_list \subseteq [id : Id, fd : Fd, conn : Conn]
  BY <1>1 DEF IndInv, TypeOK, OneIsClosing, FdsMatchWsi
<1>4. CASE m_run_thread
  <2>1. view' = [i \in Id |-> IF \E c \in gone : c.id = i THEN NoConn ELSE view[i]]
    BY <1>4 DEF CloseCallback
  <2>2. ListMatches
    BY <1>4 DEF IndInv, Serving
  <2>3. \A c \in gone : c \in m_client_list /\ c.fd = fdOf[cur]
    BY DEF FindByFd
  <2> HIDE DEF gone
  <2>4. [Sessions!Next]_(Sessions!sessionVars)
    <3>0. /\ unknown' = IF \E c \in gone : view[c.id] # NoConn THEN unknown
                        ELSE [unknown EXCEPT ![cur] = @ + 1]
          /\ unknown[cur] = 0 /\ (\A c \in gone : view[c.id] \in Conn)
          /\ (gone = {} => \A i \in Id : view[i] # cur)
      <4>1. unknown' = IF \E c \in gone : view[c.id] # NoConn THEN unknown
                       ELSE [unknown EXCEPT ![cur] = @ + 1]
        BY <1>4 DEF CloseCallback, gone
      <4> QED
        BY <1>4, <4>1, LastCallback DEF gone, BothCallbacks
    <3>1. CASE gone = {}
      <4>1. view' = view
        BY <1>3, <2>1, <3>1
      <4>2. Sessions!CloseUnknown(cur)
        BY <1>1, <3>0, <3>1, <4>1 DEF Sessions!CloseUnknown
      <4> QED
        BY <1>3, <4>2 DEF Sessions!Next
    <3>2. CASE gone # {}
      <4>1. PICK c \in gone : TRUE
        BY <3>2
      <4>2. \A d \in gone : d = c
        BY <2>2, <2>3, <4>1 DEF ListMatches
      <4>3. c.id \in Id /\ view[c.id] \in Conn
        BY <1>3, <2>2, <2>3, <4>1 DEF ListMatches
      <4>4. view' = [view EXCEPT ![c.id] = NoConn]
        BY <1>3, <2>1, <4>1, <4>2
      <4>5. Sessions!Close(c.id)
        BY <1>1, <3>0, <4>1, <4>3, <4>4, ConstantsAssumption DEF Sessions!Close
      <4> QED
        BY <4>3, <4>5 DEF Sessions!Next
    <3> QED
      BY <3>1, <3>2
  <2>5. SessionsHaveTaken'
    <3>1. \A i \in Id : view'[i] \in Conn => view'[i] = view[i]
      BY <2>1, ConstantsAssumption
    <3> QED
      BY <1>1, <1>4, <3>1 DEF SessionInv, SessionsHaveTaken, Pending
  <2>6. BodyIsPending'
    BY <1>1, <1>4 DEF SessionInv, BodyIsPending, Pending
  <2> QED
    BY <1>2, <2>4, <2>5, <2>6 DEF SessionInv
<1>5. CASE ~m_run_thread
  <2>1. UNCHANGED <<view, unknown>>
    BY <1>5, Zenon DEF CloseCallback
  <2> QED
    BY <1>1, <1>2, <1>5, <2>1 DEF SessionInv, Sessions!sessionVars
<1> QED
  BY <1>4, <1>5

-----------------------------------------------------------------------------
(* The steps the listener does not see.                                    *)

\* LWS_CALLBACK_HTTP empties the string for the only request under way.
LEMMA HttpUnseen ==
    ASSUME RequestsAreSeparate, IndInv, SessionInv, NEW k \in Conn, Http(k)
    PROVE  UNCHANGED <<view, got, opened, unknown>> /\ SessionInv'
<1>1. /\ wsi[k] = "open" /\ missing[k] = -1 /\ \A j \in Conn : missing[j] = -1
      /\ missing' = [missing EXCEPT ![k] = BodyLength]
      /\ req_body' = IF m_run_thread THEN <<>> ELSE req_body
      /\ UNCHANGED <<taken, wsi, m_run_thread, cur, view, got, opened, unknown>>
  BY DEF Http, RequestsAreSeparate, wsiVars, closeVars, listenerVars
<1>2. /\ taken \in [Conn -> 0..MaxSend] /\ missing \in [Conn -> -1..BodyLength]
      /\ MaxSend \in Nat /\ BodyLength \in Nat \ {0}
  BY ConstantsAssumption DEF IndInv, TypeOK
<1>3. OpenedOnce'
  BY <1>1 DEF SessionInv, OpenedOnce
<1>4. \A j \in Conn : Pending(j) = 0 /\ Pending(j)' = 0
  BY <1>1, <1>2 DEF Pending
<1>5. ASSUME m_run_thread PROVE SessionsHaveTaken' /\ BodyIsPending'
  <2>1. SessionsHaveTaken'
    BY <1>1, <1>4, <1>5 DEF SessionInv, SessionsHaveTaken
  <2>2. Sessions!Stream(k, taken[k] - 0, 0) = <<>>
    BY <1>2 DEF Sessions!Stream
  <2>3. req_body' = <<>>
    BY <1>1, <1>5
  <2>4. ASSUME NEW j \in Conn, missing'[j] # -1
        PROVE  /\ \A h \in Conn : missing'[h] # -1 => h = j
               /\ Pending(j)' <= taken[j]
               /\ req_body' = Sessions!Stream(j, taken[j] - Pending(j)', Pending(j)')
    <3>1. j = k /\ \A h \in Conn : missing'[h] # -1 => h = k
      BY <1>1, <1>2, <2>4
    <3>2. Pending(j)' = 0
      BY <1>4
    <3> QED
      BY <1>2, <2>2, <2>3, <3>1, <3>2
  <2>5. BodyIsPending'
    BY <1>1, <2>4 DEF BodyIsPending
  <2> QED
    BY <2>1, <2>5
<1> QED
  BY <1>1, <1>3, <1>5 DEF SessionInv

\* LWS_CALLBACK_HTTP_BODY moves one message from the socket to the string.
LEMMA HttpBodyUnseen ==
    ASSUME IndInv, SessionInv, NEW k \in Conn, HttpBody(k)
    PROVE  UNCHANGED <<view, got, opened, unknown>> /\ SessionInv'
<1>1. /\ pc = "service" /\ wsi[k] = "open" /\ missing[k] > 0 /\ arrived[k] > taken[k]
      /\ taken' = [taken EXCEPT ![k] = @ + 1]
      /\ missing' = [missing EXCEPT ![k] = @ - 1]
      /\ req_body' = IF m_run_thread THEN Append(req_body, <<k, taken[k] + 1>>) ELSE req_body
      /\ UNCHANGED <<wsi, m_run_thread, cur, view, got, opened, unknown>>
  BY DEF HttpBody, InService, wsiVars, closeVars, listenerVars
<1>2. /\ taken \in [Conn -> 0..MaxSend] /\ missing \in [Conn -> -1..BodyLength]
      /\ MaxSend \in Nat /\ BodyLength \in Nat \ {0} /\ view \in [Id -> Conn \cup {NoConn}]
  BY ConstantsAssumption DEF IndInv, TypeOK
<1>3. OpenedOnce'
  BY <1>1, <1>2 DEF SessionInv, OpenedOnce
<1>4. Pending(k)' = Pending(k) + 1 /\ taken'[k] = taken[k] + 1 /\ Pending(k) \in Nat
  BY <1>1, <1>2 DEF Pending
<1>5. \A j \in Conn \ {k} : Pending(j)' = Pending(j) /\ taken'[j] = taken[j]
  BY <1>1, <1>2 DEF Pending
<1>6. ASSUME m_run_thread PROVE SessionsHaveTaken' /\ BodyIsPending'
  <2>1. SessionsHaveTaken'
    <3>1. \A j \in Conn : taken'[j] - Pending(j)' = taken[j] - Pending(j)
      BY <1>2, <1>4, <1>5
    <3> QED
      BY <1>1, <1>6, <3>1 DEF SessionInv, SessionsHaveTaken
  <2>2. /\ \A j \in Conn : missing[j] # -1 => j = k
        /\ Pending(k) <= taken[k]
        /\ req_body = Sessions!Stream(k, taken[k] - Pending(k), Pending(k))
    BY <1>1, <1>2, <1>6 DEF SessionInv, BodyIsPending
  <2>3. taken[k] - Pending(k) \in Nat /\ (taken[k] - Pending(k)) + Pending(k) + 1 = taken[k] + 1
        /\ taken'[k] - Pending(k)' = taken[k] - Pending(k)
    BY <1>2, <1>4, <2>2
  <2>4. req_body' = Sessions!Stream(k, taken[k] - Pending(k), Pending(k) + 1)
    <3>1. req_body' = Append(req_body, <<k, taken[k] + 1>>)
      BY <1>1, <1>6
    <3> DEFINE from == taken[k] - Pending(k)
               n == Pending(k)
    <3>2. from \in Nat /\ n \in Nat /\ from + n + 1 = taken[k] + 1
      BY <1>4, <2>3
    <3>3. req_body = Sessions!Stream(k, from, n)
      BY <2>2
    <3> HIDE DEF from, n
    <3>4. Append(Sessions!Stream(k, from, n), <<k, from + n + 1>>) = Sessions!Stream(k, from, n + 1)
      BY <3>2, StreamGrows
    <3>5. req_body' = Sessions!Stream(k, from, n + 1)
      BY <3>1, <3>2, <3>3, <3>4
    <3> QED
      BY <3>5 DEF from, n
  <2>5. \A j \in Conn : missing'[j] # -1 => j = k
    BY <1>1, <1>2, <2>2
  <2>6. Pending(k)' <= taken'[k]
    BY <1>2, <1>4, <2>2
  <2>7. req_body' = Sessions!Stream(k, taken'[k] - Pending(k)', Pending(k)')
    BY <1>4, <2>3, <2>4
  <2>8. ASSUME NEW j \in Conn, missing'[j] # -1
        PROVE  /\ \A h \in Conn : missing'[h] # -1 => h = j
               /\ Pending(j)' <= taken'[j]
               /\ req_body' = Sessions!Stream(j, taken'[j] - Pending(j)', Pending(j)')
    <3>1. j = k
      BY <2>5, <2>8
    <3> QED
      BY <2>5, <2>6, <2>7, <3>1, Zenon
  <2>9. BodyIsPending'
    BY <2>8 DEF BodyIsPending
  <2> QED
    BY <2>1, <2>9
<1> QED
  BY <1>1, <1>3, <1>6 DEF SessionInv

\* lws gives up a connection: its session will receive nothing more.
LEMMA BeginCloseUnseen ==
    ASSUME IndInv, SessionInv, NEW k \in Conn, BeginClose(k)
    PROVE  UNCHANGED <<view, got, opened, unknown>> /\ SessionInv'
<1>1. /\ pc = "service" /\ cur' = k /\ missing' = [missing EXCEPT ![k] = -1]
      /\ UNCHANGED <<taken, wsi, req_body, m_run_thread, view, got, opened, unknown>>
  BY DEF BeginClose, InService, wsiVars, listenerVars
<1>2. cur = NoConn /\ missing \in [Conn -> -1..BodyLength]
  BY <1>1 DEF IndInv, TypeOK, OneIsClosing
<1>3. OpenedOnce'
  BY <1>1 DEF SessionInv, OpenedOnce
<1>4. \A j \in Conn \ {k} : missing'[j] = missing[j] /\ Pending(j)' = Pending(j)
  BY <1>1, <1>2 DEF Pending
<1>5. ASSUME m_run_thread PROVE SessionsHaveTaken' /\ BodyIsPending'
  <2>1. SessionsHaveTaken'
    BY <1>1, <1>2, <1>4, <1>5, ConstantsAssumption DEF SessionInv, SessionsHaveTaken
  <2>2. missing'[k] = -1
    BY <1>1, <1>2
  <2>3. BodyIsPending'
    BY <1>1, <1>4, <1>5, <2>2 DEF SessionInv, BodyIsPending
  <2> QED
    BY <2>1, <2>3
<1> QED
  BY <1>1, <1>3, <1>5 DEF SessionInv

\* A wsi is freed when its session has ended.
LEMMA CloseDoneUnseen ==
    ASSUME IndInv, SessionInv, CloseDone
    PROVE  UNCHANGED <<view, got, opened, unknown>> /\ SessionInv'
<1>1. /\ pc = "closing" /\ left = {} /\ wsi' = [wsi EXCEPT ![cur] = "freed"] /\ cur' = NoConn
      /\ UNCHANGED <<taken, missing, req_body, m_run_thread, view, got, opened, unknown>>
  BY DEF CloseDone, bodyVars, listenerVars
<1>2. cur \in Conn /\ wsi \in [Conn -> {"none", "handshake", "open", "freed"}]
  BY <1>1 DEF IndInv, TypeOK, OneIsClosing
<1>3. OpenedOnce'
  BY <1>1, <1>2 DEF SessionInv, OpenedOnce
<1>4. ASSUME m_run_thread PROVE SessionsHaveTaken' /\ BodyIsPending'
  <2>1. ListMatches /\ \A c \in m_client_list : c.conn # cur
    BY <1>1, <1>2, <1>4 DEF IndInv, Serving, ListMatches, BothCallbacks
  <2>2. \A i \in Id : view[i] \in Conn => view[i] # cur
    BY <2>1, ConstantsAssumption DEF ListMatches
  <2>3. SessionsHaveTaken'
    BY <1>1, <1>4, <2>2 DEF SessionInv, SessionsHaveTaken, Pending
  <2>4. BodyIsPending'
    BY <1>1, <1>4 DEF SessionInv, BodyIsPending, Pending
  <2> QED
    BY <2>3, <2>4
<1> QED
  BY <1>1, <1>3, <1>4 DEF SessionInv

\* The remaining steps leave the sessions and what was taken alone.
LEMMA OthersUnseen ==
    ASSUME RequestsAreSeparate, IndInv, SessionInv,
           \/ \E k \in Conn : Connect(k) \/ PeerWrite(k) \/ Hangup(k)
           \/ ThreadStart \/ LoopTest \/ ServiceReturns \/ CallbackReturn \/ Stop
           \/ \E k \in Conn, f \in Fd : WsAccept(k, f)
           \/ \E i \in Id : CallbackSend(i)
           \/ UNCHANGED vars
    PROVE  UNCHANGED <<view, got, opened, unknown>> /\ SessionInv'
<1> USE DEF peerVars, wsiVars, bodyVars, closeVars, listenerVars
<1>0. UNCHANGED missing
  <2>1. CASE \E i \in Id : CallbackSend(i)
    <3>1. PICK i \in Id : CallbackSend(i)
      BY <2>1
    <3> DEFINE reached == {c \in FindById(i) : wsi[c.conn] = "open"}
    <3>2. /\ missing' = [k \in Conn |-> IF \E c \in reached : c.conn = k THEN -1
                                                                        ELSE missing[k]]
          /\ AnswerEarly \/ missing[view[i]] = -1
          /\ pc = "callback" /\ view[i] # NoConn
      BY <3>1 DEF CallbackSend
    <3>3. missing \in [Conn -> -1..BodyLength]
      BY DEF IndInv, TypeOK
    <3>4. CASE Flavor = "websocket"
      <4>1. \A k \in Conn : missing[k] = -1
        BY <3>4 DEF IndInv, RequestsAreOpen
      <4> HIDE DEF reached
      <4> QED
        BY <3>2, <3>3, <4>1
    <3>5. CASE ~AnswerEarly
      <4>1. \A c \in reached : missing[c.conn] = -1
        BY <3>2, <3>5 DEF IndInv, Serving, ListMatches, FindById
      <4> HIDE DEF reached
      <4> QED
        BY <3>2, <3>3, <4>1
    <3> QED
      BY <3>4, <3>5 DEF RequestsAreSeparate
  <2>2. CASE ~ \E i \in Id : CallbackSend(i)
    BY <2>2 DEF Connect, PeerWrite, Hangup, ThreadStart, LoopTest, ServiceReturns,
                CallbackReturn, Stop, WsAccept, vars
  <2> QED
    BY <2>1, <2>2
<1>1. /\ UNCHANGED <<taken, missing, req_body, cur, view, got, opened, unknown>>
      /\ (wsi' = wsi \/ \E k \in Conn : wsi[k] = "none" /\ wsi' = [wsi EXCEPT ![k] = "handshake"])
      /\ (m_run_thread' = m_run_thread \/ m_run_thread' = FALSE \/ pc = "created")
  BY <1>0 DEF Connect, PeerWrite, Hangup, ThreadStart, LoopTest, ServiceReturns,
         CallbackReturn, Stop, WsAccept, CallbackSend, vars
<1>2. wsi \in [Conn -> {"none", "handshake", "open", "freed"}]
  BY DEF IndInv, TypeOK
<1>3. OpenedOnce'
  BY <1>1, <1>2 DEF SessionInv, OpenedOnce
<1>4. CASE pc = "created"
  <2>1. \A k \in Conn : missing[k] = -1
    BY <1>4 DEF IndInv, NothingYet, RequestsAreOpen
  <2>2. \A i \in Id : view[i] = NoConn
    BY <1>4 DEF IndInv, NothingYet
  <2> QED
    BY <1>1, <1>3, <2>1, <2>2, ConstantsAssumption
       DEF SessionInv, SessionsHaveTaken, BodyIsPending
<1>5. CASE pc # "created"
  <2>1. m_run_thread' => m_run_thread
    BY <1>1, <1>5
  <2>2. SessionsHaveTaken => SessionsHaveTaken'
    BY <1>1 DEF SessionsHaveTaken, Pending
  <2>3. BodyIsPending => BodyIsPending'
    BY <1>1 DEF BodyIsPending, Pending
  <2> QED
    BY <1>1, <1>3, <2>1, <2>2, <2>3 DEF SessionInv
<1> QED
  BY <1>4, <1>5

-----------------------------------------------------------------------------
(* The refinement.                                                         *)

\* Before the first connection the listener knows nothing.
LEMMA InitRefines == Init => Sessions!Init /\ SessionInv /\ CloseInv
  BY ConstantsAssumption DEF Init, Sessions!Init, SessionInv, OpenedOnce, CloseInv,
     FailedHandshakeClosesOnce, UnknownIsLast

\* Every step is one of ClientSessions, or is not seen by the listener.
LEMMA StepRefines ==
    ASSUME RequestsAreSeparate, IndInv, CloseInv, SessionInv, [Next]_vars
    PROVE  [Sessions!Next]_(Sessions!sessionVars) /\ SessionInv'
<1>1. CASE UNCHANGED <<view, got, opened, unknown>> /\ SessionInv'
  BY <1>1 DEF Sessions!sessionVars
<1>2. CASE \/ \E k \in Conn : Connect(k) \/ PeerWrite(k) \/ Hangup(k)
           \/ ThreadStart \/ LoopTest \/ ServiceReturns \/ CallbackReturn \/ Stop
           \/ \E k \in Conn, f \in Fd : WsAccept(k, f)
           \/ \E i \in Id : CallbackSend(i)
           \/ UNCHANGED vars
  BY <1>1, <1>2, OthersUnseen
<1>3. CASE \E k \in Conn, i \in Id : Established(k, i)
  <2>1. PICK k \in Conn, i \in Id : Established(k, i)
    BY <1>3
  <2> QED
    BY <2>1, OpensRefines DEF Established, InService, bodyVars, closeVars
<1>4. CASE \E k \in Conn, f \in Fd, i \in Id : ClientInstantiated(k, f, i)
  <2>1. PICK k \in Conn, f \in Fd, i \in Id : ClientInstantiated(k, f, i)
    BY <1>4
  <2> QED
    BY <2>1, OpensRefines DEF ClientInstantiated, InService, bodyVars, closeVars
<1>5. CASE \E k \in Conn : Receive(k)
  BY <1>5, ReceiveRefines
<1>6. CASE \E k \in Conn : HttpBodyCompletion(k)
  BY <1>6, HttpBodyCompletionRefines
<1>7. CASE \E k \in Conn : Http(k) \/ HttpBody(k) \/ BeginClose(k)
  BY <1>1, <1>7, HttpUnseen, HttpBodyUnseen, BeginCloseUnseen
<1>8. CASE \E reason \in {"DEL_POLL_FD", "CLOSED"} : CloseCallback(reason)
  BY <1>8, CloseCallbackRefines
<1>9. CASE CloseDone
  BY <1>1, <1>9, CloseDoneUnseen
<1> QED
  BY <1>2, <1>3, <1>4, <1>5, <1>6, <1>7, <1>8, <1>9 DEF Next, ThreadStep

\* What the libwebsockets servers tell the listener is a behaviour of ClientSessions,
\* for the HTTP server as long as requests do not overlap and are not answered before
\* they are complete: the two close callbacks of a connection end one session and make
\* at most one disconnection of an unknown id, once that session has ended; and every
\* onReceive carries the next message, or the whole body, of the connection that its
\* id was announced for.
THEOREM ImplementsSessions ==
    ASSUME RequestsAreSeparate
    PROVE  Spec => SessionsSpec
<1>1. IndInv /\ CloseInv /\ SessionInv /\ [Next]_vars
        => [Sessions!Next]_(Sessions!sessionVars) /\ SessionInv' /\ CloseInv'
  BY StepRefines, NextPreservesCloseInv
<1> HIDE DEF IndInv
<1> QED
  BY <1>1, InitRefines, Invariance, PTL DEF Spec, SessionsSpec, Sessions!Spec
=============================================================================
