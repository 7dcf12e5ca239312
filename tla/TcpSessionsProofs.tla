------------------------- MODULE TcpSessionsProofs --------------------------
(***************************************************************************)
(* TcpServer implements ClientSessions, for every number of connections,   *)
(* descriptors and ids and for both servers.                               *)
(*                                                                         *)
(* The announced connections are read off the peers, the queue and the     *)
(* place of the epoll thread (Announced).  Only three steps of the thread  *)
(* are visible to the listener: NotifyConnected opens a session, Read adds *)
(* the next bytes to one, NotifyDisconnected closes one.  That the bytes   *)
(* of a read are the next ones needs the count of the bytes taken from a   *)
(* connection to agree with what its session has received.                 *)
(***************************************************************************)
EXTENDS TcpServerProofs, SequenceTheorems

\* A session has received exactly the bytes that were taken from its connection.
SessionsHaveTaken ==
    \A i \in Id : view[i] \in Conn => Len(got[i]) = taken[view[i]]

\* Nothing is taken from a connection that was not announced.
UnannouncedUntouched == \A k \in Conn \ Announced : taken[k] = 0

SessionInv == SessionsHaveTaken /\ UnannouncedUntouched

-----------------------------------------------------------------------------
(* The steps the listener sees.                                            *)

\* What the listener knows under i is the connection of one listed client, and
\* of that client only, when the thread is in its loop.
LEMMA OneSessionPerConnection ==
    ASSUME IndInv, pc = "loop", NEW i \in Id, NEW j \in Id,
           view[i] \in Conn, view[i] = view[j]
    PROVE  i = j
<1>1. PICK c \in m_client_list : c.id = i /\ c.conn = view[i]
  BY ConstantsAssumption DEF IndInv, ThreadConsistent, ListenerKnowsClients
<1>2. PICK d \in m_client_list : d.id = j /\ d.conn = view[j]
  BY ConstantsAssumption DEF IndInv, ThreadConsistent, ListenerKnowsClients
<1>3. c.fd \in Fd /\ d.fd \in Fd
  BY <1>1, <1>2 DEF IndInv, DescriptorsAgree, ClientsHavePeers
<1>4. fdTab[c.fd] = c.conn /\ fdTab[d.fd] = d.conn
  BY <1>1, <1>2, <1>3, ConstantsAssumption DEF IndInv, DescriptorsAgree, FdsMatchClients
<1>5. c.fd = d.fd
  BY <1>1, <1>2, <1>3, <1>4 DEF IndInv, DescriptorsAgree, UniqueFds
<1>6. c = d
  BY <1>3, <1>5, ConstantsAssumption DEF IndInv, DescriptorsAgree, FdsMatchClients
<1> QED
  BY <1>1, <1>2, <1>6

\* A readable descriptor belongs to the one client under whose id its bytes go.
LEMMA ReadFindsSession ==
    ASSUME IndInv, NEW f \in Fd, pc = "loop", fdTab[f] \in Conn
    PROVE  /\ FindByFd(f) # {}
           /\ \A c \in FindByFd(f) : c.id \in Id /\ view[c.id] = fdTab[f]
<1>1. PICK d \in m_client_list : d.fd = f /\ d.conn = fdTab[f]
  BY DEF IndInv, DescriptorsAgree, FdsMatchClients
<1>2. FindByFd(f) = {d}
  BY <1>1, ConstantsAssumption DEF IndInv, DescriptorsAgree, FdsMatchClients, FindByFd
<1>3. d.id \in Id /\ view[d.id] = d.conn
  BY <1>1 DEF IndInv, TypeOK, Client, ThreadConsistent, ListenerKnowsClients
<1> QED
  BY <1>1, <1>2, <1>3

\* NOTIFY_CLIENT_CONNECTED opens a session, or one nobody will speak in.
LEMMA NotifyConnectedOpens ==
    ASSUME IndInv, SessionInv, NotifyConnected
    PROVE  Sessions!Next /\ SessionInv'
<1> DEFINE i == cur.id
           k == cur.conn
<1>1. /\ cur \in m_client_list /\ view[i] = NoConn
      /\ i \in Id /\ k \in Conn \cup {NoPeer}
  BY DEF IndInv, ThreadConsistent, CurIsClient, NotifyConnected, TypeOK, Client
<1>2. /\ view' = [view EXCEPT ![i] = k] /\ got' = [got EXCEPT ![i] = <<>>]
      /\ pc = "added" /\ pc' = "callback" /\ UNCHANGED <<peer, taken, backlog, unknown>>
  BY DEF NotifyConnected, peerVars
<1>3. view \in [Id -> Conn \cup {NoConn, NoPeer}] /\ got \in [Id -> Seq(Conn \X Nat)]
  BY DEF IndInv, TypeOK
<1>4. k \in Conn => peer[k] \in {"up", "gone"} /\ k \notin backlog
  BY <1>1 DEF IndInv, DescriptorsAgree, ClientsHavePeers
<1>5. Announced' = Announced \cup ({k} \cap Conn)
  BY <1>2, <1>4 DEF Announced
<1>6. k \in Conn => k \notin Announced /\ taken[k] = 0
  BY <1>2 DEF Announced, SessionInv, UnannouncedUntouched
<1>7. Sessions!Next
  <2>1. CASE k \in Conn
    <3>1. Sessions!Open(i, k)
      BY <1>1, <1>2, <1>5, <1>6, <2>1 DEF Sessions!Open
    <3> QED
      BY <1>1, <2>1, <3>1 DEF Sessions!Next
  <2>2. CASE k = NoPeer
    <3>1. Sessions!OpenNobody(i)
      BY <1>1, <1>2, <1>5, <2>2, ConstantsAssumption DEF Sessions!OpenNobody
    <3> QED
      BY <1>1, <3>1 DEF Sessions!Next
  <2> QED
    BY <1>1, <2>1, <2>2
<1>8. SessionsHaveTaken'
  <2>1. \A j \in Id : /\ view'[j] = IF j = i THEN k ELSE view[j]
                      /\ got'[j] = IF j = i THEN <<>> ELSE got[j]
    BY <1>1, <1>2, <1>3
  <2>2. Len(<<>>) = 0
    OBVIOUS
  <2> QED
    BY <1>2, <1>6, <2>1, <2>2 DEF SessionInv, SessionsHaveTaken
<1>9. UnannouncedUntouched'
  BY <1>2, <1>5 DEF SessionInv, UnannouncedUntouched
<1> QED
  BY <1>7, <1>8, <1>9 DEF SessionInv

\* read() and onReceive: the next bytes of the client's own connection.
LEMMA ReadReceives ==
    ASSUME IndInv, SessionInv, NEW f \in Fd, Read(f)
    PROVE  Sessions!Next /\ SessionInv'
<1> DEFINE k == fdTab[f]
           n == Readn(f)
           bytes == [j \in 1..n |-> <<k, taken[k] + j>>]
<1>1. /\ pc = "loop" /\ k \in Conn /\ n > 0 /\ taken' = [taken EXCEPT ![k] = @ + n]
      /\ UNCHANGED <<peer, backlog, cur, view, unknown>>
  BY DEF Read, peerVars
<1>2. arrived[k] \in Nat /\ taken[k] \in Nat
  BY <1>1 DEF IndInv, TypeOK
<1>3. n \in 1..BufferLength
  BY <1>1, <1>2, ConstantsAssumption DEF Readn, Smaller
<1>4. PICK c \in FindByFd(f) :
         got' = [got EXCEPT ![c.id] = @ \o bytes] /\ pc' = "callback"
  BY <1>1, ReadFindsSession DEF Read
<1> DEFINE i == c.id
<1>5. i \in Id /\ view[i] = k
  BY <1>1, <1>4, ReadFindsSession
<1>6. got \in [Id -> Seq(Conn \X Nat)] /\ got[i] \in Seq(Conn \X Nat)
  BY <1>5 DEF IndInv, TypeOK
<1>7. Len(got[i]) = taken[k]
  BY <1>1, <1>5 DEF SessionInv, SessionsHaveTaken
<1>8. Announced' = Announced
  BY <1>1, <1>4 DEF Announced
<1>9. bytes = Sessions!Stream(view[i], Len(got[i]), n)
  BY <1>5, <1>7 DEF Sessions!Stream
<1>10. Sessions!Receive(i, n)
  BY <1>1, <1>4, <1>5, <1>8, <1>9 DEF Sessions!Receive
<1>11. Sessions!Next
  BY <1>3, <1>5, <1>10 DEF Sessions!Next
<1>12. Len(got'[i]) = taken[k] + n
  <2>1. \A j \in 1..n : <<k, taken[k] + j>> \in Conn \X Nat
    BY <1>1, <1>2, <1>3
  <2>2. bytes \in [1..n -> Conn \X Nat]
    BY <2>1
  <2> HIDE DEF bytes
  <2>3. bytes \in Seq(Conn \X Nat) /\ Len(bytes) = n
    BY <1>3, <2>2, ConstantsAssumption
  <2>4. Len(got[i] \o bytes) = Len(got[i]) + Len(bytes)
    BY <1>6, <2>3, ConcatProperties
  <2> QED
    BY <1>4, <1>5, <1>6, <1>7, <2>3, <2>4
<1>13. SessionsHaveTaken'
  <2>1. taken \in [Conn -> 0..MaxSend]
    BY DEF IndInv, TypeOK
  <2>2. \A j \in Id \ {i} : view[j] # k
    BY <1>1, <1>5, OneSessionPerConnection
  <2>3. \A j \in Id \ {i} : got'[j] = got[j]
    BY <1>4, <1>6
  <2>4. \A j \in Id \ {i} : view[j] \in Conn => taken'[view[j]] = taken[view[j]]
    BY <1>1, <2>1, <2>2
  <2>5. taken'[view[i]] = taken[k] + n
    BY <1>1, <1>5, <2>1
  <2> QED
    BY <1>1, <1>12, <2>3, <2>4, <2>5 DEF SessionInv, SessionsHaveTaken
<1>14. UnannouncedUntouched'
  <2>1. \A j \in Conn \ {k} : taken'[j] = taken[j]
    BY <1>1 DEF IndInv, TypeOK
  <2>2. k \in Announced
    <3>1. PICK d \in m_client_list : d.conn = k
      BY <1>1 DEF IndInv, DescriptorsAgree, FdsMatchClients
    <3> QED
      BY <1>1, <3>1 DEF IndInv, DescriptorsAgree, ClientsHavePeers, Announced
  <2> QED
    BY <1>8, <2>1, <2>2 DEF SessionInv, UnannouncedUntouched
<1> QED
  BY <1>11, <1>13, <1>14 DEF SessionInv

\* NOTIFY_CLIENT_DISCONNECTED closes the session of the client that was removed.
LEMMA NotifyDisconnectedCloses ==
    ASSUME IndInv, SessionInv, NotifyDisconnected
    PROVE  Sessions!Next /\ SessionInv'
<1>1. cur.id \in Id /\ view[cur.id] = cur.conn /\ view[cur.id] \in Conn
  BY DEF IndInv, ThreadConsistent, CurIsClient, NotifyDisconnected
<1>2. /\ view' = [i \in Id |-> IF i = cur.id THEN NoConn ELSE view[i]]
      /\ pc = "removed" /\ pc' = "callback" /\ UNCHANGED <<peer, backlog, taken, got>>
  BY DEF NotifyDisconnected, peerVars
<1>3. view' = [view EXCEPT ![cur.id] = NoConn] /\ unknown' = unknown
  <2>1. unknown' = [k \in Conn |->
                       IF k = cur.conn /\ ~(cur.id \in Id /\ view[cur.id] = k)
                         THEN unknown[k] + 1 ELSE unknown[k]]
    BY DEF NotifyDisconnected
  <2>2. unknown \in [Conn -> Nat]
    BY DEF IndInv, TypeOK
  <2>3. unknown' = unknown
    BY <1>1, <2>1, <2>2
  <2> QED
    BY <1>1, <1>2, <2>3 DEF IndInv, TypeOK
<1>4. Announced' = Announced
  BY <1>2 DEF Announced
<1>5. Sessions!Close(cur.id)
  BY <1>1, <1>2, <1>3, <1>4 DEF Sessions!Close
<1>6. SessionInv'
  BY <1>2, <1>4, ConstantsAssumption DEF SessionInv, SessionsHaveTaken, UnannouncedUntouched
<1> QED
  BY <1>1, <1>5, <1>6 DEF Sessions!Next

-----------------------------------------------------------------------------
(* The steps it does not see.                                              *)

\* Nothing changes for the listener when no connection is announced and none of
\* its variables changes.
LEMMA Unseen ==
    ASSUME SessionInv, Announced' = Announced, UNCHANGED <<view, got, unknown, taken>>
    PROVE  UNCHANGED Sessions!sessionVars /\ SessionInv'
  BY DEF Sessions!sessionVars, SessionInv, SessionsHaveTaken, UnannouncedUntouched

\* A connection that is queued, refused, hung up or reset is announced as before.
LEMMA PeersUnseen ==
    ASSUME IndInv, NEW k \in Conn, Connect(k) \/ PeerWrite(k) \/ Hangup(k) \/ Reset(k)
    PROVE  Announced' = Announced /\ UNCHANGED <<view, got, unknown, taken>>
<1>1. peer \in [Conn -> {"absent", "up", "gone", "refused"}]
  BY DEF IndInv, TypeOK
<1>2. CASE Connect(k)
  BY <1>1, <1>2 DEF Connect, Announced, listenerVars, threadVars
<1>3. CASE PeerWrite(k)
  BY <1>3 DEF PeerWrite, Announced, listenerVars, threadVars
<1>4. CASE Hangup(k) \/ Reset(k)
  BY <1>1, <1>4 DEF Hangup, Reset, Announced, listenerVars, threadVars
<1> QED
  BY <1>2, <1>3, <1>4

\* accept() takes a connection from the queue; it is announced in the next step.
LEMMA AcceptUnseen ==
    ASSUME IndInv, NEW i \in Id,
           AcceptFails(i) \/ \E k \in Conn, f \in Fd : Accept(k, f, i)
    PROVE  Announced' = Announced /\ UNCHANGED <<view, got, unknown, taken>>
<1>1. CASE AcceptFails(i)
  BY <1>1, ConstantsAssumption DEF AcceptFails, Announced, listenerVars, peerVars
<1>2. ASSUME NEW k \in Conn, NEW f \in Fd, Accept(k, f, i)
      PROVE  Announced' = Announced /\ UNCHANGED <<view, got, unknown, taken>>
  <2>1. cur'.conn = k /\ pc = "loop" /\ pc' = "added" /\ k \in backlog
        /\ backlog' = backlog \ {k} /\ UNCHANGED <<peer, view, got, unknown, taken>>
    BY <1>2 DEF Accept, listenerVars, peerVars
  <2> QED
    BY <2>1 DEF Announced
<1> QED
  BY <1>1, <1>2

\* The end of the thread refuses only connections that were never announced.
LEMMA ThreadExitUnseen ==
    ASSUME IndInv, ThreadExit
    PROVE  Announced' = Announced /\ UNCHANGED <<view, got, unknown, taken>>
<1>1. pc = "loop" /\ pc' = "exited" /\ UNCHANGED <<view, got, unknown, taken>>
  BY DEF ThreadExit, listenerVars
<1>2. CASE Domain = "inet"
  BY <1>1, <1>2 DEF ThreadExit, Announced
<1>3. CASE Domain # "inet"
  BY <1>1, <1>3 DEF ThreadExit, Announced
<1> QED
  BY <1>2, <1>3

\* No other step touches a peer, the queue or a client being added.
LEMMA OthersUnseen ==
    ASSUME IndInv,
           \/ \E f \in Fd : ForeignOpen(f) \/ ForeignClose(f) \/ Close(f)
           \/ ThreadStart \/ LoopTest \/ EpollWait \/ EpollInterrupted
           \/ Remove \/ CallbackReturn \/ (\E i \in Id : CallbackSend(i))
           \/ AppStep \/ UNCHANGED vars
    PROVE  Announced' = Announced /\ UNCHANGED <<view, got, unknown, taken>>
<1> USE DEF peerVars, threadVars, listenerVars, appVars
<1>1. CASE \E f \in Fd : ForeignOpen(f) \/ ForeignClose(f) \/ Close(f)
  BY <1>1 DEF ForeignOpen, ForeignClose, Close, Announced
<1>2. CASE ThreadStart \/ LoopTest \/ EpollWait \/ EpollInterrupted
           \/ Remove \/ CallbackReturn
  BY <1>2 DEF ThreadStart, LoopTest, EpollWait, EpollInterrupted, Remove,
              CallbackReturn, Announced
<1>3. CASE \E i \in Id : CallbackSend(i)
  BY <1>3 DEF CallbackSend, Announced
<1>4. CASE AppStep
  BY <1>4 DEF AppStep, Stop, AppSendToClient, AppSendToServer, AppFind, AppFindRaces,
              AppWrite, Announced
<1>5. CASE UNCHANGED vars
  BY <1>5 DEF vars, Announced
<1> QED
  BY <1>1, <1>2, <1>3, <1>4, <1>5

-----------------------------------------------------------------------------
(* The refinement.                                                         *)

\* Before the first connection the listener knows nothing.
LEMMA InitRefines == Init => Sessions!Init /\ SessionInv
<1> SUFFICES ASSUME Init PROVE Sessions!Init /\ SessionInv
  OBVIOUS
<1>1. Announced = {}
  BY DEF Init, Announced
<1>2. Sessions!Init
  BY <1>1 DEF Init, Sessions!Init
<1>3. SessionInv
  BY ConstantsAssumption DEF Init, SessionInv, SessionsHaveTaken, UnannouncedUntouched
<1> QED
  BY <1>2, <1>3

\* Every step is one of ClientSessions, or is not seen by the listener.
LEMMA StepRefines ==
    ASSUME IndInv, SessionInv, [Next]_vars
    PROVE  [Sessions!Next]_(Sessions!sessionVars) /\ SessionInv'
<1>1. CASE NotifyConnected
  BY <1>1, NotifyConnectedOpens
<1>2. CASE \E f \in Fd : Read(f)
  BY <1>2, ReadReceives
<1>3. CASE NotifyDisconnected
  BY <1>3, NotifyDisconnectedCloses
<1>4. CASE Announced' = Announced /\ UNCHANGED <<view, got, unknown, taken>>
  BY <1>4, Unseen
<1>5. CASE EnvironmentStep
  BY <1>4, <1>5, PeersUnseen, OthersUnseen DEF EnvironmentStep
<1>6. CASE ThreadStep
  BY <1>1, <1>2, <1>3, <1>4, <1>6, AcceptUnseen, ThreadExitUnseen, OthersUnseen
     DEF ThreadStep
<1>7. CASE EpollInterrupted \/ (\E i \in Id : CallbackSend(i)) \/ AppStep \/ UNCHANGED vars
  BY <1>4, <1>7, OthersUnseen
<1> QED
  BY <1>5, <1>6, <1>7 DEF Next

\* What the stream servers tell the listener is a behaviour of ClientSessions: an
\* id names one session at a time, and every onReceive carries the next bytes of
\* the connection that the id was announced for.
THEOREM ImplementsSessions == Spec => SessionsSpec
<1>1. IndInv /\ SessionInv /\ [Next]_vars
        => [Sessions!Next]_(Sessions!sessionVars) /\ SessionInv'
  BY StepRefines
<1> HIDE DEF IndInv
<1> QED
  BY <1>1, InitRefines, InvariantHolds, PTL DEF Spec, SessionsSpec, Sessions!Spec
=============================================================================
