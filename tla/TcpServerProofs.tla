-------------------------- MODULE TcpServerProofs ---------------------------
(***************************************************************************)
(* Proofs about TcpServer, for every number of connections, descriptors    *)
(* and ids and for both servers.                                           *)
(*                                                                         *)
(* The argument: a descriptor, a client entry and a session of the         *)
(* listener are three names of one connection.  The epoll thread changes   *)
(* them one after the other; IndInv says, for each place of the thread,    *)
(* exactly which of the three may disagree and for which client.           *)
(***************************************************************************)
EXTENDS TcpServer, TLAPS

\* A listed client with a connection has a descriptor and a peer that came.
ClientsHavePeers ==
    \A c \in m_client_list :
        c.conn \in Conn => /\ c.fd \in Fd
                           /\ peer[c.conn] \in {"up", "gone"}
                           /\ c.conn \notin backlog

\* findClientInfo has at most one answer.
UniqueIds == \A c, d \in m_client_list : c.id = d.id => c = d

\* A connection has one descriptor.
UniqueFds ==
    \A f, g \in Fd : fdTab[f] \in Conn /\ fdTab[f] = fdTab[g] => f = g

\* A queued connection has a peer behind it, gone or not.
BacklogHasPeers == \A k \in backlog : peer[k] \in {"up", "gone"}

\* Nothing is read before it arrived.
TakenArrived == \A k \in Conn : taken[k] <= arrived[k]

\* An event still to be handled is not stale: its descriptor is a connection's
\* and read() on it will not block.
BatchIsReady ==
    \A f \in batch \ {ServerFd} :
        /\ f \in Fd /\ fdTab[f] \in Conn
        /\ arrived[fdTab[f]] > taken[fdTab[f]] \/ peer[fdTab[f]] = "gone"

\* The client the thread is adding or removing.
CurIsClient ==
    /\ pc = "added" => cur \in m_client_list /\ view[cur.id] = NoConn
    /\ pc = "closed" => /\ cur.fd \in Fd /\ cur.conn \in Conn
                        /\ fdTab[cur.fd] \notin Conn
                        /\ peer[cur.conn] = "gone"
                        /\ \E c \in m_client_list : c.fd = cur.fd /\ c.conn = cur.conn
    /\ pc = "removed" => /\ cur.id \in Id /\ cur.conn \in Conn
                         /\ peer[cur.conn] = "gone"
                         /\ view[cur.id] = cur.conn
                         /\ \A c \in m_client_list : c.id # cur.id

\* The listener knows the listed clients, except the one being added, and no
\* other, except the one being removed.
ListenerKnowsClients ==
    /\ \A c \in m_client_list : view[c.id] = c.conn \/ (pc = "added" /\ c = cur)
    /\ \A i \in Id : view[i] # NoConn =>
         \/ \E c \in m_client_list : c.id = i /\ c.conn = view[i]
         \/ pc = "removed" /\ cur.id = i

\* The application thread sends only to connections that were made.
AppKnowsPeers ==
    /\ \A t \in app.todo : t.conn \in Conn => peer[t.conn] # "absent"
    /\ app.hold.conn \in Conn => peer[app.hold.conn] # "absent"

\* The descriptor table, the queue and the client list tell the same story.
DescriptorsAgree ==
    FdsMatchClients /\ ClientsHavePeers /\ UniqueIds /\ UniqueFds /\ BacklogHasPeers

\* What the epoll thread relies on, place by place.
ThreadConsistent ==
    TakenArrived /\ BatchIsReady /\ CurIsClient /\ ListenerKnowsClients

\* What a concurrent sendToClient or sendToServer relies on.
AppConsistent == LiveClientsStayReachable /\ AppKnowsPeers

\* What sending from a callback relies on.
SendsAreSafe == ThreadNeverFaults /\ CallbackSendsReachOwner

IndInv ==
    TypeOK /\ DescriptorsAgree /\ ThreadConsistent /\ AppConsistent /\ SendsAreSafe

USE DEF IndInv, DescriptorsAgree, ThreadConsistent, AppConsistent, SendsAreSafe,
        peerVars, threadVars, listenerVars, appVars

\* The descriptor of a client whose peer is connected is its own.
LEMMA LiveClientsHaveFds ==
    ASSUME IndInv
    PROVE  \A c \in m_client_list : c.conn \in Conn /\ peer[c.conn] = "up" =>
               fdTab[c.fd] = c.conn
<1> SUFFICES ASSUME NEW c \in m_client_list, c.conn \in Conn, peer[c.conn] = "up"
             PROVE  fdTab[c.fd] = c.conn
  OBVIOUS
<1>1. c.fd # NoFd
  BY ConstantsAssumption DEF ClientsHavePeers
<1>2. ~(pc = "closed" /\ cur.fd = c.fd)
  BY <1>1 DEF CurIsClient, FdsMatchClients
<1> QED BY <1>1, <1>2 DEF FdsMatchClients

\* Steps that only move a thread, or end the process.
LEMMA ControlPreserves ==
    ASSUME IndInv, ThreadStart \/ LoopTest \/ EpollInterrupted
                   \/ CallbackReturn \/ Stop \/ AppFindRaces
    PROVE  IndInv'
<1>0. /\ UNCHANGED <<peer, arrived, taken, backlog, listening, fdTab, m_client_list,
                     batch, cur, ghosts, view, got, unknown, app, stray>>
      /\ m_run_thread' \in BOOLEAN /\ fault' \in {fault, "app"}
      /\ \/ pc' = pc
         \/ pc \in {"created", "loop", "wait", "callback"} /\ pc' \in {"loop", "wait"}
  BY DEF TypeOK, ThreadStart, LoopTest, EpollInterrupted, CallbackReturn, Stop, AppFindRaces
<1>1. TypeOK'
  BY <1>0 DEF TypeOK
<1>2. DescriptorsAgree'
  BY <1>0 DEF FdsMatchClients, ClientsHavePeers, UniqueIds, UniqueFds,
         BacklogHasPeers
<1>3. ThreadConsistent'
  BY <1>0 DEF TakenArrived, BatchIsReady, CurIsClient, ListenerKnowsClients
<1>4. AppConsistent'
  BY <1>0 DEF LiveClientsStayReachable, AppKnowsPeers
<1>5. SendsAreSafe'
  BY <1>0 DEF ThreadNeverFaults, CallbackSendsReachOwner
<1> QED BY <1>1, <1>2, <1>3, <1>4, <1>5

\* A connection is queued, or refused: no descriptor is involved yet.
LEMMA ConnectPreserves ==
    ASSUME IndInv, NEW k \in Conn, Connect(k)
    PROVE  IndInv'
<1>1. TypeOK'
  BY DEF Connect, TypeOK
<1>2. DescriptorsAgree'
  BY DEF TypeOK, Connect, FdsMatchClients, ClientsHavePeers, UniqueIds,
         UniqueFds, BacklogHasPeers
<1>3. ThreadConsistent'
  BY DEF Connect, TakenArrived, BatchIsReady, CurIsClient,
         ListenerKnowsClients
<1>4. AppConsistent'
  BY DEF Connect, LiveClientsStayReachable, AppKnowsPeers
<1>5. SendsAreSafe'
  BY DEF Connect, ThreadNeverFaults, CallbackSendsReachOwner
<1> QED BY <1>1, <1>2, <1>3, <1>4, <1>5

\* More bytes arrive: what is ready stays ready.
LEMMA PeerWritePreserves ==
    ASSUME IndInv, NEW k \in Conn, PeerWrite(k)
    PROVE  IndInv'
<1>1. TypeOK'
  <2>1. arrived' \in [Conn -> 0..MaxSend]
    BY ConstantsAssumption DEF TypeOK, PeerWrite
  <2>2. UNCHANGED <<peer, taken, backlog, listening, fdTab, m_client_list, m_run_thread,
                    pc, batch, cur, ghosts, view, got, unknown, app, stray, fault>>
    BY DEF PeerWrite
  <2> QED BY <2>1, <2>2 DEF TypeOK
<1>2. DescriptorsAgree'
  BY DEF PeerWrite, FdsMatchClients, ClientsHavePeers, UniqueIds, UniqueFds,
         BacklogHasPeers
<1>3. ThreadConsistent'
  BY DEF TypeOK, PeerWrite, TakenArrived, BatchIsReady, CurIsClient,
         ListenerKnowsClients
<1>4. AppConsistent'
  BY DEF PeerWrite, LiveClientsStayReachable, AppKnowsPeers
<1>5. SendsAreSafe'
  BY DEF PeerWrite, ThreadNeverFaults, CallbackSendsReachOwner
<1> QED BY <1>1, <1>2, <1>3, <1>4, <1>5

\* A hang-up keeps the bytes that arrived.
LEMMA HangupPreserves ==
    ASSUME IndInv, NEW k \in Conn, Hangup(k)
    PROVE  IndInv'
<1>1. TypeOK'
  BY DEF Hangup, TypeOK
<1>2. DescriptorsAgree'
  BY DEF Hangup, FdsMatchClients, ClientsHavePeers, UniqueIds, UniqueFds,
         BacklogHasPeers
<1>3. ThreadConsistent'
  BY DEF Hangup, TakenArrived, BatchIsReady, CurIsClient, ListenerKnowsClients
<1>4. AppConsistent'
  BY DEF Hangup, LiveClientsStayReachable, AppKnowsPeers
<1>5. SendsAreSafe'
  BY DEF Hangup, ThreadNeverFaults, CallbackSendsReachOwner
<1> QED BY <1>1, <1>2, <1>3, <1>4, <1>5

\* A reset takes back only bytes that were not read.
LEMMA ResetPreserves ==
    ASSUME IndInv, NEW k \in Conn, Reset(k)
    PROVE  IndInv'
<1>1. TypeOK'
  BY DEF Reset, TypeOK
<1>2. DescriptorsAgree'
  BY DEF Reset, FdsMatchClients, ClientsHavePeers, UniqueIds, UniqueFds,
         BacklogHasPeers
<1>3. ThreadConsistent'
  BY DEF TypeOK, Reset, TakenArrived, BatchIsReady, CurIsClient,
         ListenerKnowsClients
<1>4. AppConsistent'
  BY DEF Reset, LiveClientsStayReachable, AppKnowsPeers
<1>5. SendsAreSafe'
  BY DEF Reset, ThreadNeverFaults, CallbackSendsReachOwner
<1> QED BY <1>1, <1>2, <1>3, <1>4, <1>5

\* The rest of the process takes a free number, perhaps the one just closed.
LEMMA ForeignOpenPreserves ==
    ASSUME IndInv, NEW f \in Fd, ForeignOpen(f)
    PROVE  IndInv'
<1>1. TypeOK'
  BY DEF ForeignOpen, TypeOK
<1>2. DescriptorsAgree'
  BY ConstantsAssumption DEF TypeOK, ForeignOpen, FdsMatchClients,
         ClientsHavePeers, UniqueIds, UniqueFds, BacklogHasPeers, Client
<1>3. ThreadConsistent'
  BY ConstantsAssumption DEF ForeignOpen, TakenArrived, BatchIsReady,
         CurIsClient, ListenerKnowsClients
<1>4. AppConsistent'
  BY ConstantsAssumption DEF ForeignOpen, LiveClientsStayReachable,
         AppKnowsPeers
<1>5. SendsAreSafe'
  BY DEF ForeignOpen, ThreadNeverFaults, CallbackSendsReachOwner
<1> QED BY <1>1, <1>2, <1>3, <1>4, <1>5

\* The rest of the process gives a number back that no client has.
LEMMA ForeignClosePreserves ==
    ASSUME IndInv, NEW f \in Fd, ForeignClose(f)
    PROVE  IndInv'
<1>1. TypeOK'
  BY DEF ForeignClose, TypeOK
<1>2. DescriptorsAgree'
  BY ConstantsAssumption DEF TypeOK, ForeignClose, FdsMatchClients,
         ClientsHavePeers, UniqueIds, UniqueFds, BacklogHasPeers, Client
<1>3. ThreadConsistent'
  BY ConstantsAssumption DEF ForeignClose, TakenArrived, BatchIsReady,
         CurIsClient, ListenerKnowsClients
<1>4. AppConsistent'
  BY ConstantsAssumption DEF ForeignClose, LiveClientsStayReachable,
         AppKnowsPeers
<1>5. SendsAreSafe'
  BY DEF ForeignClose, ThreadNeverFaults, CallbackSendsReachOwner
<1> QED BY <1>1, <1>2, <1>3, <1>4, <1>5

\* The events reported are ready when they are reported.
LEMMA EpollWaitPreserves ==
    ASSUME IndInv, EpollWait
    PROVE  IndInv'
<1>1. TypeOK'
  BY DEF TypeOK, EpollWait, Ready
<1>2. DescriptorsAgree'
  BY DEF EpollWait, FdsMatchClients, ClientsHavePeers, UniqueIds, UniqueFds,
         BacklogHasPeers
<1>3. ThreadConsistent'
  BY DEF EpollWait, TakenArrived, BatchIsReady, CurIsClient,
         ListenerKnowsClients, Ready
<1>4. AppConsistent'
  BY DEF EpollWait, LiveClientsStayReachable, AppKnowsPeers
<1>5. SendsAreSafe'
  BY DEF EpollWait, ThreadNeverFaults, CallbackSendsReachOwner
<1> QED BY <1>1, <1>2, <1>3, <1>4, <1>5

\* The new descriptor was free and the new id is nobody's.
LEMMA AcceptPreserves ==
    ASSUME IndInv, NEW k \in Conn, NEW f \in Fd, NEW i \in Id, Accept(k, f, i)
    PROVE  IndInv'
<1>1. TypeOK'
  <2>1. cur' \in Client
    BY DEF TypeOK, Accept, FreeIds, Client
  <2> QED BY <2>1, ConstantsAssumption DEF TypeOK, Accept
<1>2. DescriptorsAgree'
  <2>1. \A g \in Fd : fdTab'[g] = IF g = f THEN k ELSE fdTab[g]
    BY DEF Accept, TypeOK
  <2>2. /\ m_client_list' = m_client_list \cup {[id |-> i, fd |-> f, conn |-> k]}
        /\ backlog' = backlog \ {k} /\ k \in backlog /\ peer' = peer
        /\ pc = "loop" /\ fdTab[f] = NoConn
    BY DEF Accept
  <2>3. \A c \in m_client_list : c.fd \in Fd \cup {NoFd} /\ c.id # i
    BY DEF TypeOK, Client, Accept, FreeIds
  <2>4. ASSUME NEW c \in m_client_list, c.fd = f PROVE FALSE
    <3>1. c.conn \in Conn \cup {NoPeer}
      BY DEF TypeOK, Client
    <3>2. fdTab[c.fd] = c.conn
      BY <2>2, <2>4, ConstantsAssumption DEF FdsMatchClients
    <3> QED BY <2>2, <2>4, <3>1, <3>2, ConstantsAssumption
  <2>5. \A g \in Fd : fdTab[g] # k
    BY <2>2 DEF FdsMatchClients, ClientsHavePeers
  <2>6. FdsMatchClients'
    <3>1. \A g \in Fd : fdTab'[g] \in Conn =>
            \E c \in m_client_list' : c.fd = g /\ c.conn = fdTab'[g]
      <4>1. [id |-> i, fd |-> f, conn |-> k] \in m_client_list' /\ fdTab'[f] = k
        BY <2>1, <2>2
      <4>2. \A g \in Fd \ {f} : fdTab[g] \in Conn =>
              \E c \in m_client_list' : c.fd = g /\ c.conn = fdTab[g]
        BY <2>2 DEF FdsMatchClients
      <4> QED BY <2>1, <4>1, <4>2
    <3>2. \A c \in m_client_list' : c.fd = NoFd \/ fdTab'[c.fd] = c.conn
      BY <2>1, <2>2, <2>3, <2>4 DEF FdsMatchClients
    <3>3. \A c, d \in m_client_list' : c.fd = d.fd /\ c.fd # NoFd => c = d
      BY <2>2, <2>4 DEF FdsMatchClients
    <3> QED BY <3>1, <3>2, <3>3 DEF FdsMatchClients
  <2>7. UniqueFds'
    BY <2>1, <2>5 DEF UniqueFds
  <2> QED BY <2>2, <2>3, <2>6, <2>7
         DEF ClientsHavePeers, UniqueIds, BacklogHasPeers
<1>3. ThreadConsistent'
  BY ConstantsAssumption DEF Accept, TakenArrived, BatchIsReady, CurIsClient,
         ListenerKnowsClients, FreeIds
<1>4. AppConsistent'
  BY ConstantsAssumption DEF Accept, LiveClientsStayReachable, AppKnowsPeers
<1>5. SendsAreSafe'
  BY DEF Accept, ThreadNeverFaults, CallbackSendsReachOwner
<1> QED BY <1>1, <1>2, <1>3, <1>4, <1>5

\* A client without a descriptor joins the list.
LEMMA AcceptFailsPreserves ==
    ASSUME IndInv, NEW i \in Id, AcceptFails(i)
    PROVE  IndInv'
<1>1. TypeOK'
  <2>1. cur' \in Client
    BY DEF TypeOK, AcceptFails, FreeIds, Client
  <2> QED BY <2>1, ConstantsAssumption DEF TypeOK, AcceptFails
<1>2. DescriptorsAgree'
  BY ConstantsAssumption DEF AcceptFails, FdsMatchClients, ClientsHavePeers,
         UniqueIds, UniqueFds, BacklogHasPeers, FreeIds
<1>3. ThreadConsistent'
  BY DEF AcceptFails, TakenArrived, BatchIsReady, CurIsClient,
         ListenerKnowsClients, FreeIds
<1>4. AppConsistent'
  BY DEF AcceptFails, LiveClientsStayReachable, AppKnowsPeers
<1>5. SendsAreSafe'
  BY DEF AcceptFails, ThreadNeverFaults, CallbackSendsReachOwner
<1> QED BY <1>1, <1>2, <1>3, <1>4, <1>5

\* The listener learns of the client that was listed last.
LEMMA NotifyConnectedPreserves ==
    ASSUME IndInv, NotifyConnected
    PROVE  IndInv'
<1>1. TypeOK'
  <2>1. cur \in Client
    BY DEF TypeOK, CurIsClient, NotifyConnected
  <2>2. /\ view' \in [Id -> Conn \cup {NoConn, NoPeer}]
        /\ got' \in [Id -> Seq(Conn \X Nat)]
    BY <2>1 DEF TypeOK, NotifyConnected, Client
  <2> QED BY <2>2 DEF TypeOK, NotifyConnected, NoClient
<1>2. DescriptorsAgree'
  BY DEF NotifyConnected, FdsMatchClients, ClientsHavePeers, UniqueIds,
         UniqueFds, BacklogHasPeers
<1>3. ThreadConsistent'
  <2>1. cur \in m_client_list /\ cur.id \in Id
    BY DEF NotifyConnected, CurIsClient, TypeOK, Client
  <2>2. pc' = "callback" /\ UNCHANGED <<peer, arrived, taken, fdTab, m_client_list, batch>>
    BY DEF NotifyConnected
  <2>3. \A i \in Id : view'[i] = IF i = cur.id THEN cur.conn ELSE view[i]
    BY <2>1 DEF NotifyConnected, TypeOK
  <2>4. \A c \in m_client_list : c.id \in Id
    BY DEF TypeOK, Client
  <2>5. \A c \in m_client_list : view'[c.id] = c.conn
    BY <2>1, <2>3, <2>4 DEF ListenerKnowsClients, UniqueIds
  <2>6. ListenerKnowsClients'
    BY <2>1, <2>2, <2>3, <2>5 DEF ListenerKnowsClients, NotifyConnected
  <2> QED BY <2>2, <2>6 DEF TakenArrived, BatchIsReady, CurIsClient
<1>4. AppConsistent'
  BY DEF NotifyConnected, LiveClientsStayReachable, AppKnowsPeers
<1>5. SendsAreSafe'
  BY DEF NotifyConnected, ThreadNeverFaults, CallbackSendsReachOwner
<1> QED BY <1>1, <1>2, <1>3, <1>4, <1>5

\* A readable descriptor has a client, and takes only what arrived.
LEMMA ReadPreserves ==
    ASSUME IndInv, NEW f \in Fd, Read(f)
    PROVE  IndInv'
<1>1. TypeOK'
  <2> DEFINE k == fdTab[f]
             n == Readn(f)
             bytes == [j \in 1..n |-> <<k, taken[k] + j>>]
  <2>1. /\ k \in Conn /\ taken[k] \in Nat /\ n \in Nat
        /\ taken[k] + n <= arrived[k] /\ arrived[k] <= MaxSend
    BY ConstantsAssumption DEF TypeOK, TakenArrived, Read, Readn, Smaller
  <2>2. taken' \in [Conn -> 0..MaxSend]
    BY <2>1, ConstantsAssumption DEF TypeOK, Read
  <2>3. bytes \in Seq(Conn \X Nat)
    BY <2>1
  <2>4. got' \in [Id -> Seq(Conn \X Nat)]
    <3>1. CASE got' = got
      BY <3>1 DEF TypeOK
    <3>2. CASE \E c \in FindByFd(f) : got' = [got EXCEPT ![c.id] = @ \o bytes]
      BY <3>2, <2>3 DEF TypeOK, FindByFd, Client
    <3> QED BY <3>1, <3>2 DEF Read
  <2>5. fault' \in {"none", "thread", "app", "sigpipe"} /\ pc' \in {pc, "callback"}
    BY DEF TypeOK, Read
  <2> HIDE DEF k, n, bytes
  <2> QED BY <2>2, <2>4, <2>5 DEF TypeOK, Read
<1>2. DescriptorsAgree'
  BY DEF Read, FdsMatchClients, ClientsHavePeers, UniqueIds, UniqueFds,
         BacklogHasPeers
<1>3. ThreadConsistent'
  <2>1. /\ fdTab[f] \in Conn /\ Readn(f) <= arrived[fdTab[f]] - taken[fdTab[f]]
        /\ arrived[fdTab[f]] \in Nat /\ taken[fdTab[f]] \in Nat /\ Readn(f) \in Int
    BY ConstantsAssumption DEF Read, Readn, Smaller, TypeOK
  <2>2. \A k \in Conn : taken'[k] = IF k = fdTab[f] THEN taken[k] + Readn(f) ELSE taken[k]
    BY DEF Read, TypeOK
  <2>3. TakenArrived'
    BY <2>1, <2>2 DEF TakenArrived, Read
  <2>4. BatchIsReady'
    BY <2>2 DEF BatchIsReady, UniqueFds, Read
  <2> QED BY <2>3, <2>4 DEF CurIsClient, ListenerKnowsClients, Read
<1>4. AppConsistent'
  BY DEF Read, LiveClientsStayReachable, AppKnowsPeers
<1>5. SendsAreSafe'
  BY DEF Read, FdsMatchClients, ThreadNeverFaults, CallbackSendsReachOwner,
         FindByFd
<1> QED BY <1>1, <1>2, <1>3, <1>4, <1>5

\* Only a connection whose peer is gone is closed: this opens the window.
LEMMA ClosePreserves ==
    ASSUME IndInv, NEW f \in Fd, Close(f)
    PROVE  IndInv'
<1>1. TypeOK'
  BY DEF TypeOK, Close, NoClient
<1>2. DescriptorsAgree'
  BY ConstantsAssumption DEF Close, FdsMatchClients, ClientsHavePeers,
         UniqueIds, UniqueFds, BacklogHasPeers
<1>3. ThreadConsistent'
  BY ConstantsAssumption DEF TypeOK, Close, FdsMatchClients, TakenArrived,
         BatchIsReady, CurIsClient, ListenerKnowsClients, Readn, Smaller
<1>4. AppConsistent'
  <2>1. fdTab[f] \in Conn /\ peer[fdTab[f]] = "gone"
    BY ConstantsAssumption DEF TypeOK, Close, BatchIsReady, Readn, Smaller
  <2>2. \A g \in Fd : fdTab'[g] = IF g = f THEN NoConn ELSE fdTab[g]
    BY DEF TypeOK, Close
  <2>3. UNCHANGED <<m_client_list, app, peer>>
    BY DEF Close
  <2>4. ASSUME NEW t \in app.todo, t.conn \in Conn, peer[t.conn] = "up"
        PROVE  \E c \in m_client_list :
                  c.id = t.id /\ c.conn = t.conn /\ fdTab'[c.fd] = t.conn
    <3>1. PICK c \in m_client_list :
             c.id = t.id /\ c.conn = t.conn /\ fdTab[c.fd] = t.conn
      BY <2>4 DEF LiveClientsStayReachable
    <3>2. c.fd \in Fd /\ c.fd # f
      BY <3>1, <2>1, <2>4 DEF ClientsHavePeers
    <3> QED BY <3>1, <3>2, <2>2
  <2>5. ASSUME app.hold.conn \in Conn, peer[app.hold.conn] = "up"
        PROVE  fdTab'[app.hold.fd] = app.hold.conn
    <3>1. fdTab[app.hold.fd] = app.hold.conn /\ app.hold.fd # f
      BY <2>1, <2>5 DEF LiveClientsStayReachable
    <3> QED BY <3>1, <2>2, <2>5, ConstantsAssumption DEF TypeOK, Close, Client, NoClient
  <2> QED BY <2>3, <2>4, <2>5 DEF LiveClientsStayReachable, AppKnowsPeers
<1>5. SendsAreSafe'
  BY DEF Close, ThreadNeverFaults, CallbackSendsReachOwner
<1> QED BY <1>1, <1>2, <1>3, <1>4, <1>5

\* The client that is removed is the one whose descriptor was closed.
LEMMA RemovePreserves ==
    ASSUME IndInv, Remove
    PROVE  IndInv'
<1>1. TypeOK'
  BY DEF TypeOK, Remove, FindByFd, Client
<1>2. DescriptorsAgree'
  BY DEF Remove, FdsMatchClients, ClientsHavePeers, UniqueIds, UniqueFds,
         BacklogHasPeers, CurIsClient, FindByFd
<1>3. ThreadConsistent'
  <2>1. PICK d \in m_client_list : d.fd = cur.fd /\ d.conn = cur.conn
    BY DEF Remove, CurIsClient
  <2>2. PICK c \in FindByFd(cur.fd) : /\ m_client_list' = m_client_list \ {c}
                                      /\ cur' = [cur EXCEPT !.id = c.id]
    BY <2>1 DEF Remove, FindByFd
  <2>3. c = d
    BY <2>1, <2>2, ConstantsAssumption DEF FdsMatchClients, FindByFd, Remove, CurIsClient
  <2>4. cur'.id = c.id /\ cur'.conn = cur.conn /\ c.id \in Id
    BY <2>1, <2>2, <2>3 DEF TypeOK, Client
  <2>5. CurIsClient'
    BY <2>1, <2>2, <2>3, <2>4 DEF Remove, CurIsClient, ListenerKnowsClients, UniqueIds
  <2>6. ListenerKnowsClients'
    BY <2>1, <2>2, <2>3, <2>4 DEF Remove, ListenerKnowsClients
  <2> QED BY <2>5, <2>6 DEF Remove, TakenArrived, BatchIsReady
<1>4. AppConsistent'
  BY DEF Remove, CurIsClient, LiveClientsStayReachable, AppKnowsPeers,
         FindByFd
<1>5. SendsAreSafe'
  BY DEF Remove, ThreadNeverFaults, CallbackSendsReachOwner
<1> QED BY <1>1, <1>2, <1>3, <1>4, <1>5

\* The listener forgets the client that was removed.
LEMMA NotifyDisconnectedPreserves ==
    ASSUME IndInv, NotifyDisconnected
    PROVE  IndInv'
<1>1. TypeOK'
  BY DEF TypeOK, NotifyDisconnected, NoClient
<1>2. DescriptorsAgree'
  BY DEF NotifyDisconnected, FdsMatchClients, ClientsHavePeers, UniqueIds,
         UniqueFds, BacklogHasPeers
<1>3. ThreadConsistent'
  BY DEF TypeOK, NotifyDisconnected, TakenArrived, BatchIsReady, CurIsClient,
         ListenerKnowsClients, Client
<1>4. AppConsistent'
  BY DEF NotifyDisconnected, LiveClientsStayReachable, AppKnowsPeers
<1>5. SendsAreSafe'
  BY DEF NotifyDisconnected, ThreadNeverFaults, CallbackSendsReachOwner
<1> QED BY <1>1, <1>2, <1>3, <1>4, <1>5

\* A client the listener knows is listed, with its own descriptor.
LEMMA CallbackSendPreserves ==
    ASSUME IndInv, NEW i \in Id, CallbackSend(i)
    PROVE  IndInv'
<1>1. TypeOK'
  BY DEF TypeOK, CallbackSend, Write
<1>2. DescriptorsAgree'
  BY DEF CallbackSend, FdsMatchClients, ClientsHavePeers, UniqueIds,
         UniqueFds, BacklogHasPeers
<1>3. ThreadConsistent'
  BY DEF CallbackSend, TakenArrived, BatchIsReady, CurIsClient,
         ListenerKnowsClients
<1>4. AppConsistent'
  BY DEF CallbackSend, LiveClientsStayReachable, AppKnowsPeers
<1>5. SendsAreSafe'
  <2>1. PICK d \in m_client_list : d.id = i /\ d.conn = view[i]
    BY DEF CallbackSend, ListenerKnowsClients
  <2>2. FindById(i) = {d}
    BY <2>1 DEF FindById, UniqueIds
  <2>3. d.fd \in Fd => fdTab[d.fd] = view[i]
    BY <2>1, ConstantsAssumption DEF FdsMatchClients, CallbackSend
  <2>4. Write("callback", d.fd, view[i])
    BY <2>2 DEF CallbackSend
  <2> QED BY <2>3, <2>4 DEF ThreadNeverFaults, CallbackSendsReachOwner, Write
<1> QED BY <1>1, <1>2, <1>3, <1>4, <1>5

\* Queued connections are refused when the listening socket is closed.
LEMMA ThreadExitPreserves ==
    ASSUME IndInv, ThreadExit
    PROVE  IndInv'
<1>1. TypeOK'
  <2>1. backlog' \subseteq Conn /\ listening' \in BOOLEAN
    BY DEF TypeOK, ThreadExit
  <2>2. peer' \in [Conn -> {"absent", "up", "gone", "refused"}]
    BY DEF TypeOK, ThreadExit
  <2> QED BY <2>1, <2>2 DEF TypeOK, ThreadExit
<1>2. DescriptorsAgree'
  BY DEF ThreadExit, FdsMatchClients, ClientsHavePeers, UniqueIds, UniqueFds,
         BacklogHasPeers
<1>3. ThreadConsistent'
  BY DEF ThreadExit, TakenArrived, BatchIsReady, CurIsClient,
         ListenerKnowsClients
<1>4. AppConsistent'
  <2>1. \A k \in Conn : /\ peer'[k] = "up" => peer[k] = "up"
                        /\ peer'[k] = "absent" => peer[k] = "absent"
    BY DEF TypeOK, ThreadExit
  <2>2. UNCHANGED <<fdTab, m_client_list, app>>
    BY DEF ThreadExit
  <2> QED BY <2>1, <2>2 DEF LiveClientsStayReachable, AppKnowsPeers
<1>5. SendsAreSafe'
  BY DEF ThreadExit, ThreadNeverFaults, CallbackSendsReachOwner
<1> QED BY <1>1, <1>2, <1>3, <1>4, <1>5

\* A client the listener knows can be found while its peer is there.
LEMMA AppSendToClientPreserves ==
    ASSUME IndInv, NEW i \in Id, AppSendToClient(i)
    PROVE  IndInv'
<1>1. TypeOK'
  <2>1. view[i] \in Conn \cup {NoPeer}
    BY DEF TypeOK, AppSendToClient
  <2>2. app' = [todo |-> {[id |-> i, conn |-> view[i]]}, refs |-> {}, hold |-> NoClient]
    BY DEF AppSendToClient, IdleApp
  <2>3. app' \in [todo : SUBSET Target, refs : SUBSET Client, hold : Client \cup {NoClient}]
    BY <2>1, <2>2 DEF Target
  <2> QED BY <2>3 DEF TypeOK, AppSendToClient
<1>2. DescriptorsAgree'
  BY DEF AppSendToClient, FdsMatchClients, ClientsHavePeers, UniqueIds,
         UniqueFds, BacklogHasPeers
<1>3. ThreadConsistent'
  BY DEF AppSendToClient, TakenArrived, BatchIsReady, CurIsClient,
         ListenerKnowsClients
<1>4. AppConsistent'
  <2>1. /\ app'.todo = {[id |-> i, conn |-> view[i]]} /\ app'.hold = NoClient
        /\ UNCHANGED <<peer, fdTab, m_client_list>>
    BY DEF AppSendToClient, IdleApp
  <2>2. NoClient.conn \notin Conn
    BY ConstantsAssumption DEF NoClient
  <2>3. ASSUME view[i] \in Conn PROVE peer[view[i]] # "absent"
    BY <2>3 DEF AppSendToClient, ListenerKnowsClients, ClientsHavePeers, CurIsClient
  <2>4. ASSUME view[i] \in Conn, peer[view[i]] = "up"
        PROVE  \E c \in m_client_list :
                  c.id = i /\ c.conn = view[i] /\ fdTab[c.fd] = view[i]
    BY <2>4, LiveClientsHaveFds DEF AppSendToClient, ListenerKnowsClients, CurIsClient
  <2> QED BY <2>1, <2>2, <2>3, <2>4 DEF LiveClientsStayReachable, AppKnowsPeers
<1>5. SendsAreSafe'
  BY DEF AppSendToClient, ThreadNeverFaults, CallbackSendsReachOwner
<1> QED BY <1>1, <1>2, <1>3, <1>4, <1>5

\* So can every client of the copied list.
LEMMA AppSendToServerPreserves ==
    ASSUME IndInv, AppSendToServer
    PROVE  IndInv'
<1>1. TypeOK'
  <2>1. \A c \in m_client_list : [id |-> c.id, conn |-> c.conn] \in Target
    BY DEF TypeOK, Client, Target
  <2>2. app' \in [todo : SUBSET Target, refs : SUBSET Client, hold : Client \cup {NoClient}]
    BY <2>1 DEF TypeOK, AppSendToServer
  <2> QED BY <2>2 DEF TypeOK, AppSendToServer
<1>2. DescriptorsAgree'
  BY DEF AppSendToServer, FdsMatchClients, ClientsHavePeers, UniqueIds,
         UniqueFds, BacklogHasPeers
<1>3. ThreadConsistent'
  BY DEF AppSendToServer, TakenArrived, BatchIsReady, CurIsClient,
         ListenerKnowsClients
<1>4. AppConsistent'
  <2>1. /\ app'.todo = {[id |-> c.id, conn |-> c.conn] : c \in m_client_list}
        /\ app'.hold = NoClient
        /\ UNCHANGED <<peer, fdTab, m_client_list>>
    BY DEF AppSendToServer
  <2>2. NoClient.conn \notin Conn
    BY ConstantsAssumption DEF NoClient
  <2>3. ASSUME NEW t \in app'.todo
        PROVE  \E c \in m_client_list : c.id = t.id /\ c.conn = t.conn
    BY <2>1
  <2> QED BY <2>1, <2>2, <2>3, LiveClientsHaveFds
         DEF LiveClientsStayReachable, AppKnowsPeers, ClientsHavePeers
<1>5. SendsAreSafe'
  BY DEF AppSendToServer, ThreadNeverFaults, CallbackSendsReachOwner
<1> QED BY <1>1, <1>2, <1>3, <1>4, <1>5

\* The entry found under an id is the one that was meant, while its peer is there.
LEMMA AppFindPreserves ==
    ASSUME IndInv, NEW t \in app.todo, AppFind(t)
    PROVE  IndInv'
<1>0. /\ UNCHANGED <<peer, arrived, taken, backlog, listening, fdTab, m_client_list,
                     m_run_thread, pc, batch, cur, ghosts, view, got, unknown, stray>>
      /\ fault' \in {fault, "app"}
  BY DEF AppFind
<1>a. \/ app' = app
      \/ \E c \in m_client_list :
           /\ c.id = t.id
           /\ app' = [app EXCEPT !.todo = @ \ {t}, !.hold = [c EXCEPT !.conn = t.conn]]
  BY DEF AppFind, FindById
<1>1. TypeOK'
  <2>1. ASSUME NEW c \in m_client_list PROVE [c EXCEPT !.conn = t.conn] \in Client
    BY DEF TypeOK, Client, Target
  <2>2. app' \in [todo : SUBSET Target, refs : SUBSET Client, hold : Client \cup {NoClient}]
    <3>1. CASE app' = app
      BY <3>1 DEF TypeOK
    <3>2. ASSUME NEW c \in m_client_list,
                 app' = [app EXCEPT !.todo = @ \ {t}, !.hold = [c EXCEPT !.conn = t.conn]]
          PROVE  app' \in [todo : SUBSET Target, refs : SUBSET Client,
                           hold : Client \cup {NoClient}]
      BY <3>2, <2>1 DEF TypeOK
    <3> QED BY <1>a, <3>1, <3>2
  <2> QED BY <1>0, <2>2 DEF TypeOK
<1>2. DescriptorsAgree'
  BY <1>0 DEF FdsMatchClients, ClientsHavePeers, UniqueIds, UniqueFds, BacklogHasPeers
<1>3. ThreadConsistent'
  BY <1>0 DEF TakenArrived, BatchIsReady, CurIsClient, ListenerKnowsClients
<1>4. AppConsistent'
  <2>1. CASE app' = app
    BY <1>0, <2>1 DEF LiveClientsStayReachable, AppKnowsPeers
  <2>2. ASSUME NEW c \in m_client_list, c.id = t.id,
               app' = [app EXCEPT !.todo = @ \ {t}, !.hold = [c EXCEPT !.conn = t.conn]]
        PROVE  AppConsistent'
    <3>1. /\ app'.todo = app.todo \ {t}
          /\ app'.hold.conn = t.conn /\ app'.hold.fd = c.fd
      BY <2>2 DEF TypeOK, Client
    <3>2. t.conn \in Conn => peer[t.conn] # "absent"
      BY DEF AppKnowsPeers
    <3>3. t.conn \in Conn /\ peer[t.conn] = "up" => fdTab[c.fd] = t.conn
      BY <2>2 DEF LiveClientsStayReachable, UniqueIds
    <3> QED BY <1>0, <3>1, <3>2, <3>3 DEF LiveClientsStayReachable, AppKnowsPeers
  <2> QED BY <1>a, <2>1, <2>2
<1>5. SendsAreSafe'
  BY <1>0 DEF ThreadNeverFaults, CallbackSendsReachOwner
<1> QED BY <1>1, <1>2, <1>3, <1>4, <1>5

\* The application's write touches nothing the thread relies on.
LEMMA AppWritePreserves ==
    ASSUME IndInv, AppWrite
    PROVE  IndInv'
<1>1. TypeOK'
  <2>1. app.hold \in Client
    BY DEF TypeOK, AppWrite
  <2>2. /\ stray' \subseteq {"callback", "app"} \X (Conn \cup {NoPeer})
        /\ fault' \in {"none", "thread", "app", "sigpipe"}
    BY <2>1 DEF TypeOK, AppWrite, Write, Client
  <2>3. app' \in [todo : SUBSET Target, refs : SUBSET Client, hold : Client \cup {NoClient}]
    BY DEF TypeOK, AppWrite, IdleApp
  <2> QED BY <2>2, <2>3 DEF TypeOK, AppWrite
<1>2. DescriptorsAgree'
  BY DEF AppWrite, FdsMatchClients, ClientsHavePeers, UniqueIds, UniqueFds,
         BacklogHasPeers
<1>3. ThreadConsistent'
  BY DEF AppWrite, TakenArrived, BatchIsReady, CurIsClient,
         ListenerKnowsClients
<1>4. AppConsistent'
  BY ConstantsAssumption DEF AppWrite, LiveClientsStayReachable,
         AppKnowsPeers, NoClient, IdleApp
<1>5. SendsAreSafe'
  BY DEF AppWrite, ThreadNeverFaults, CallbackSendsReachOwner, Write
<1> QED BY <1>1, <1>2, <1>3, <1>4, <1>5

\* The initial states satisfy the invariant.
LEMMA InitEstablishes == Init => IndInv
<1> SUFFICES ASSUME Init PROVE IndInv
  OBVIOUS
<1>1. TypeOK
  <2>1. arrived \in [Conn -> 0..MaxSend] /\ taken \in [Conn -> 0..MaxSend]
        /\ ghosts \in 0..MaxGhosts
    BY ConstantsAssumption DEF Init
  <2>2. got \in [Id -> Seq(Conn \X Nat)]
    BY DEF Init
  <2>3. app \in [todo : SUBSET Target, refs : SUBSET Client, hold : Client \cup {NoClient}]
    BY DEF Init, IdleApp
  <2> QED BY <2>1, <2>2, <2>3 DEF Init, TypeOK, NoClient
<1>2. DescriptorsAgree
  BY ConstantsAssumption DEF Init, FdsMatchClients, ClientsHavePeers, UniqueIds,
         UniqueFds, BacklogHasPeers
<1>3. ThreadConsistent
  BY DEF Init, TakenArrived, BatchIsReady, CurIsClient, ListenerKnowsClients
<1>4. AppConsistent
  BY ConstantsAssumption DEF Init, LiveClientsStayReachable, AppKnowsPeers, IdleApp,
         NoClient
<1>5. SendsAreSafe
  BY DEF Init, ThreadNeverFaults, CallbackSendsReachOwner
<1> QED BY <1>1, <1>2, <1>3, <1>4, <1>5

\* Every step preserves the invariant.
LEMMA NextPreserves == IndInv /\ [Next]_vars => IndInv'
<1> SUFFICES ASSUME IndInv, [Next]_vars PROVE IndInv'
  OBVIOUS
<1> USE DEF vars
<1> HIDE DEF IndInv
<1>1. CASE EnvironmentStep
  BY <1>1, ConnectPreserves, PeerWritePreserves, HangupPreserves, ResetPreserves,
     ForeignOpenPreserves, ForeignClosePreserves DEF EnvironmentStep
<1>2. CASE ThreadStep
  BY <1>2, ControlPreserves, EpollWaitPreserves, ThreadExitPreserves, AcceptPreserves,
     AcceptFailsPreserves, NotifyConnectedPreserves, ReadPreserves, ClosePreserves,
     RemovePreserves, NotifyDisconnectedPreserves DEF ThreadStep
<1>3. CASE EpollInterrupted
  BY <1>3, ControlPreserves
<1>4. CASE \E i \in Id : CallbackSend(i)
  BY <1>4, CallbackSendPreserves
<1>5. CASE AppStep
  BY <1>5, ControlPreserves, AppSendToClientPreserves, AppSendToServerPreserves,
     AppFindPreserves, AppWritePreserves DEF AppStep
<1>6. CASE UNCHANGED vars
  <2>1. TypeOK'
    BY <1>6 DEF IndInv, TypeOK
  <2>2. DescriptorsAgree'
    BY <1>6 DEF IndInv, FdsMatchClients, ClientsHavePeers, UniqueIds, UniqueFds,
           BacklogHasPeers
  <2>3. ThreadConsistent'
    BY <1>6 DEF IndInv, TakenArrived, BatchIsReady, CurIsClient, ListenerKnowsClients
  <2>4. AppConsistent'
    BY <1>6 DEF IndInv, LiveClientsStayReachable, AppKnowsPeers
  <2>5. SendsAreSafe'
    BY <1>6 DEF IndInv, ThreadNeverFaults, CallbackSendsReachOwner
  <2> QED BY <2>1, <2>2, <2>3, <2>4, <2>5 DEF IndInv
<1> QED BY <1>1, <1>2, <1>3, <1>4, <1>5, <1>6 DEF Next

\* IndInv holds in every reachable state.
THEOREM InvariantHolds == Spec => []IndInv
<1> HIDE DEF IndInv
<1> QED BY InitEstablishes, NextPreserves, PTL DEF Spec

\* The epoll thread, the application thread and the peers keep every variable of
\* the stream servers within its type.
THEOREM TypeCorrect == Spec => []TypeOK
<1>1. IndInv => TypeOK
  OBVIOUS
<1> HIDE DEF IndInv
<1> QED BY <1>1, InvariantHolds, PTL

\* Outside the window between close(fd) and removeClientInfo(fd), the client list
\* and the open descriptors name the same connections, whoever reuses a number.
THEOREM DescriptorsMatchClients == Spec => []FdsMatchClients
<1>1. IndInv => FdsMatchClients
  OBVIOUS
<1> HIDE DEF IndInv
<1> QED BY <1>1, InvariantHolds, PTL

\* findClientInfo never returns nullptr to the epoll thread, neither for an event
\* of a batch nor for an answer sent from a callback.
THEOREM EpollThreadNeverFaults == Spec => []ThreadNeverFaults
<1>1. IndInv => ThreadNeverFaults
  OBVIOUS
<1> HIDE DEF IndInv
<1> QED BY <1>1, InvariantHolds, PTL

\* removeClientInfo never returns 0 to the epoll thread: what is announced as
\* disconnected was announced as connected.
THEOREM DisconnectsNameClients == Spec => []DisconnectNamesClient
<1>1. IndInv => DisconnectNamesClient
  BY DEF CurIsClient, DisconnectNamesClient
<1> HIDE DEF IndInv
<1> QED BY <1>1, InvariantHolds, PTL

\* An answer sent from a callback is written to the connection it is meant for.
THEOREM CallbackSendsAreDelivered == Spec => []CallbackSendsReachOwner
<1>1. IndInv => CallbackSendsReachOwner
  OBVIOUS
<1> HIDE DEF IndInv
<1> QED BY <1>1, InvariantHolds, PTL

\* A concurrent sendToClient or sendToServer finds a client whose peer is still
\* connected, and its descriptor is that connection's.
THEOREM LiveClientsAreReachable == Spec => []LiveClientsStayReachable
<1>1. IndInv => LiveClientsStayReachable
  OBVIOUS
<1> HIDE DEF IndInv
<1> QED BY <1>1, InvariantHolds, PTL

=============================================================================
