----------------------------- MODULE TcpServer ------------------------------
(***************************************************************************)
(* The stream servers of anyserver: InetDomainSocketTcpServer and          *)
(* UnixDomainSocketTcpServer, with the client list of BaseServerImpl.      *)
(*                                                                         *)
(* One epoll thread owns the listening socket and the accepted sockets; it *)
(* keeps m_client_list and runs the listener's callbacks.  Another thread  *)
(* of the process (the application's) may be inside sendToClient or        *)
(* sendToServer at the same time: nothing in the code takes a lock.        *)
(* Descriptors belong to the process, so a number this thread closes may   *)
(* at once be given to another server or to the log file (Foreign).        *)
(***************************************************************************)
EXTENDS Integers, Sequences, FiniteSets

CONSTANTS
    Conn,          \* the connections peers may make
    Fd,            \* descriptor numbers the process has for them
    Id,            \* client ids: hash of the ClientInfo's own heap address
    NoConn,        \* a free descriptor, an id the listener does not know
    NoPeer,        \* the connection of a client whose accept() failed
    Foreign,       \* a descriptor held by another part of the process
    NoFd,          \* the descriptor -1
    NoId,          \* the id 0 that removeClientInfo returns when it finds nothing
    ServerFd,      \* m_server_fd
    Domain,        \* "inet" or "unix": which of the two servers
    EpollSize,     \* EPOLL_SIZE
    BufferLength,  \* BUFFER_LENGTH
    AppSends,      \* the application also sends from a thread of its own
    MaxSend,       \* bound: bytes a peer sends over one connection
    MaxGhosts,     \* bound: failed accept() calls that are followed
    MaxForeign     \* bound: descriptors the rest of the process holds at a time

ASSUME ConstantsAssumption ==
    /\ NoConn \notin Conn \cup {NoPeer, Foreign}
    /\ NoPeer \notin Conn \cup {Foreign}
    /\ Foreign \notin Conn
    /\ NoFd \notin Fd \cup {ServerFd} /\ ServerFd \notin Fd
    /\ NoId \notin Id
    /\ Domain \in {"inet", "unix"} /\ AppSends \in BOOLEAN
    /\ EpollSize \in Nat \ {0} /\ BufferLength \in Nat \ {0}
    /\ MaxSend \in Nat /\ MaxGhosts \in Nat /\ MaxForeign \in Nat

VARIABLES
    peer,          \* peer[k]: "absent", "up", "gone" (closed or reset), "refused"
    arrived,       \* arrived[k]: bytes that reached the server's socket
    taken,         \* taken[k]: bytes the thread has read
    backlog,       \* connections waiting in the listening socket's queue
    listening,     \* m_server_fd is open
    fdTab,         \* what each descriptor number refers to
    m_client_list, \* BaseServer::m_client_list, records [id, fd, conn]
    m_run_thread,  \* BaseServerImpl::m_run_thread
    pc,            \* where the epoll thread stands
    batch,         \* events[i..trigger_count-1]: descriptors still to handle
    cur,           \* the client being added or removed, [id, fd, conn]
    ghosts,        \* failed accept() calls so far
    view,          \* the listener's knowledge: connection behind each id
    got,           \* the bytes the listener received under each id
    unknown,       \* unknown[k]: disconnections of k announced with an id of no session
    app,           \* the application thread's call: [todo, refs, hold]
    stray,         \* sends that reached somebody else: <<sender, connection meant>>
    fault          \* "none", or what brought the process down

peerVars == <<peer, arrived>>
threadVars == <<m_run_thread, pc, batch, cur, ghosts>>
listenerVars == <<view, got, unknown>>
appVars == <<app, stray>>
vars == <<peer, arrived, taken, backlog, listening, fdTab, m_client_list,
          m_run_thread, pc, batch, cur, ghosts, view, got, unknown, app,
          stray, fault>>

Client == [id : Id, fd : Fd \cup {NoFd}, conn : Conn \cup {NoPeer}]
Target == [id : Id, conn : Conn \cup {NoPeer}]
NoClient == [id |-> NoId, fd |-> NoFd, conn |-> NoConn]
IdleApp == [todo |-> {}, refs |-> {}, hold |-> NoClient]

Smaller(m, n) == IF m <= n THEN m ELSE n

-----------------------------------------------------------------------------
(* BaseServerImpl: the list of clients.                                    *)

\* findClientInfo(client_id) and findClientInfo(fd); nullptr is the empty set.
FindById(i) == {c \in m_client_list : c.id = i}
FindByFd(f) == {c \in m_client_list : c.fd = f}

\* Mutant: ids drawn without regard to the living ones.
AnyId == Id

\* A new ClientInfo lives at an address no living one has: the listed ones and
\* those the application thread still holds a shared_ptr to.
FreeIds == Id \ ({c.id : c \in m_client_list \cup app.refs} \cup {app.hold.id})

\* A fault ends the process.
Alive == fault = "none"

-----------------------------------------------------------------------------
Init ==
    /\ peer = [k \in Conn |-> "absent"]
    /\ arrived = [k \in Conn |-> 0]
    /\ taken = [k \in Conn |-> 0]
    /\ backlog = {}
    /\ listening = TRUE
    /\ fdTab = [f \in Fd |-> NoConn]
    /\ m_client_list = {}
    /\ m_run_thread = FALSE
    /\ pc = "created"
    /\ batch = {}
    /\ cur = NoClient
    /\ ghosts = 0
    /\ view = [i \in Id |-> NoConn]
    /\ got = [i \in Id |-> <<>>]
    /\ unknown = [k \in Conn |-> 0]
    /\ app = IdleApp
    /\ stray = {}
    /\ fault = "none"

-----------------------------------------------------------------------------
(* The peers and the rest of the process (environment).                    *)

Connect(k) ==
    /\ Alive
    /\ peer[k] = "absent"
    /\ peer' = [peer EXCEPT ![k] = IF listening THEN "up" ELSE "refused"]
    /\ backlog' = IF listening THEN backlog \cup {k} ELSE backlog
    /\ UNCHANGED <<arrived, taken, listening, fdTab, m_client_list, threadVars,
                   listenerVars, appVars, fault>>

PeerWrite(k) ==
    /\ Alive
    /\ peer[k] = "up"
    /\ arrived[k] < MaxSend
    /\ arrived' = [arrived EXCEPT ![k] = @ + 1]
    /\ UNCHANGED <<peer, taken, backlog, listening, fdTab, m_client_list,
                   threadVars, listenerVars, appVars, fault>>

\* An orderly close: what was sent can still be read.
Hangup(k) ==
    /\ Alive
    /\ peer[k] = "up"
    /\ peer' = [peer EXCEPT ![k] = "gone"]
    /\ UNCHANGED <<arrived, taken, backlog, listening, fdTab, m_client_list,
                   threadVars, listenerVars, appVars, fault>>

\* A reset: what was not read yet is lost and read() fails.
Reset(k) ==
    /\ Alive
    /\ peer[k] = "up"
    /\ peer' = [peer EXCEPT ![k] = "gone"]
    /\ arrived' = [arrived EXCEPT ![k] = taken[k]]
    /\ UNCHANGED <<taken, backlog, listening, fdTab, m_client_list,
                   threadVars, listenerVars, appVars, fault>>

ForeignOpen(f) ==
    /\ Alive
    /\ fdTab[f] = NoConn
    /\ Cardinality({g \in Fd : fdTab[g] = Foreign}) < MaxForeign
    /\ fdTab' = [fdTab EXCEPT ![f] = Foreign]
    /\ UNCHANGED <<peerVars, taken, backlog, listening, m_client_list,
                   threadVars, listenerVars, appVars, fault>>

ForeignClose(f) ==
    /\ Alive
    /\ fdTab[f] = Foreign
    /\ fdTab' = [fdTab EXCEPT ![f] = NoConn]
    /\ UNCHANGED <<peerVars, taken, backlog, listening, m_client_list,
                   threadVars, listenerVars, appVars, fault>>

-----------------------------------------------------------------------------
(* The epoll thread.                                                       *)

\* Mutant: EPOLLIN asked for, hang-ups not.
ReadyDataOnly ==
    {f \in Fd : fdTab[f] \in Conn /\ arrived[fdTab[f]] > taken[fdTab[f]]}
    \cup (IF listening /\ backlog # {} THEN {ServerFd} ELSE {})

\* Mutant: the listening socket reports once, to the first client only.
ReadyAcceptOnce ==
    {f \in Fd : /\ fdTab[f] \in Conn
                /\ \/ arrived[fdTab[f]] > taken[fdTab[f]]
                   \/ peer[fdTab[f]] = "gone"}
    \cup (IF backlog # {} /\ m_client_list = {} THEN {ServerFd} ELSE {})

\* What the kernel reports as readable.
Ready ==
    {f \in Fd : /\ fdTab[f] \in Conn
                /\ \/ arrived[fdTab[f]] > taken[fdTab[f]]
                   \/ peer[fdTab[f]] = "gone"}
    \cup (IF listening /\ backlog # {} THEN {ServerFd} ELSE {})

\* The thread itself raises the flag that stop() lowers.
ThreadStart ==
    /\ Alive
    /\ pc = "created"
    /\ m_run_thread' = TRUE
    /\ pc' = "loop"
    /\ UNCHANGED <<peerVars, taken, backlog, listening, fdTab, m_client_list,
                   batch, cur, ghosts, listenerVars, appVars, fault>>

\* while ( server->m_run_thread ): the flag is read between two batches only.
LoopTest ==
    /\ Alive
    /\ pc = "loop" /\ batch = {} /\ m_run_thread
    /\ pc' = "wait"
    /\ UNCHANGED <<peerVars, taken, backlog, listening, fdTab, m_client_list,
                   m_run_thread, batch, cur, ghosts, listenerVars, appVars, fault>>

\* epoll_wait without a timeout: at most EPOLL_SIZE of the ready descriptors.
EpollWait ==
    /\ Alive
    /\ pc = "wait"
    /\ Ready # {}
    /\ batch' \in {B \in SUBSET Ready :
                     Cardinality(B) = Smaller(Cardinality(Ready), EpollSize)}
    /\ pc' = "loop"
    /\ UNCHANGED <<peerVars, taken, backlog, listening, fdTab, m_client_list,
                   m_run_thread, cur, ghosts, listenerVars, appVars, fault>>

\* A signal handled on this thread: epoll_wait returns -1 when nothing is ready.
EpollInterrupted ==
    /\ Alive
    /\ pc = "wait"
    /\ Ready = {}
    /\ pc' = "loop"
    /\ UNCHANGED <<peerVars, taken, backlog, listening, fdTab, m_client_list,
                   m_run_thread, batch, cur, ghosts, listenerVars, appVars, fault>>

\* accept, epoll_ctl(ADD) and addClientInfo.
Accept(k, f, i) ==
    /\ Alive
    /\ pc = "loop" /\ ServerFd \in batch
    /\ k \in backlog /\ fdTab[f] = NoConn /\ i \in FreeIds
    /\ backlog' = backlog \ {k}
    /\ fdTab' = [fdTab EXCEPT ![f] = k]
    /\ cur' = [id |-> i, fd |-> f, conn |-> k]
    /\ m_client_list' = m_client_list \cup {cur'}
    /\ batch' = batch \ {ServerFd}
    /\ pc' = "added"
    /\ UNCHANGED <<peerVars, taken, listening, m_run_thread, ghosts,
                   listenerVars, appVars, fault>>

\* accept fails for want of a descriptor; its result is not examined and a
\* client with descriptor -1 is listed all the same.
AcceptFails(i) ==
    /\ Alive
    /\ pc = "loop" /\ ServerFd \in batch
    /\ \A f \in Fd : fdTab[f] # NoConn
    /\ ghosts < MaxGhosts /\ i \in FreeIds
    /\ ghosts' = ghosts + 1
    /\ cur' = [id |-> i, fd |-> NoFd, conn |-> NoPeer]
    /\ m_client_list' = m_client_list \cup {cur'}
    /\ batch' = batch \ {ServerFd}
    /\ pc' = "added"
    /\ UNCHANGED <<peerVars, taken, backlog, listening, fdTab, m_run_thread,
                   listenerVars, appVars, fault>>

\* NOTIFY_CLIENT_CONNECTED, up to the listener's callback.
NotifyConnected ==
    /\ Alive
    /\ pc = "added"
    /\ view' = [view EXCEPT ![cur.id] = cur.conn]
    /\ got' = [got EXCEPT ![cur.id] = <<>>]
    /\ cur' = NoClient
    /\ pc' = "callback"
    /\ UNCHANGED <<peerVars, taken, backlog, listening, fdTab, m_client_list,
                   m_run_thread, batch, ghosts, unknown, appVars, fault>>

\* Mutant: the length of the buffer is taken for the length of the data.
ReadnFull(f) == BufferLength

\* Mutant: a hang-up discards what was not read yet.
ReadnHangupFirst(f) ==
    IF peer[fdTab[f]] = "gone" THEN 0
    ELSE Smaller(arrived[fdTab[f]] - taken[fdTab[f]], BufferLength)

\* How many bytes read() returns; none means that the peer is gone.
Readn(f) == Smaller(arrived[fdTab[f]] - taken[fdTab[f]], BufferLength)

\* read returned data: findClientInfo(fd), its id, and the onReceive callback.
Read(f) ==
    /\ Alive
    /\ pc = "loop" /\ f \in batch \ {ServerFd}
    /\ fdTab[f] \in Conn /\ Readn(f) > 0
    /\ LET k == fdTab[f] n == Readn(f) IN
         /\ taken' = [taken EXCEPT ![k] = @ + n]
         /\ \/ /\ FindByFd(f) = {}
               /\ fault' = "thread"
               /\ UNCHANGED <<pc, got>>
            \/ \E c \in FindByFd(f) :
                 /\ got' = [got EXCEPT ![c.id] =
                              @ \o [j \in 1..n |-> <<k, taken[k] + j>>]]
                 /\ pc' = "callback"
                 /\ UNCHANGED fault
    /\ batch' = batch \ {f}
    /\ UNCHANGED <<peerVars, backlog, listening, fdTab, m_client_list,
                   m_run_thread, cur, ghosts, view, unknown, appVars>>

\* Mutant: the descriptor is taken out of epoll and not closed.
CloseForgotten(f) ==
    /\ Alive
    /\ pc = "loop" /\ f \in batch \ {ServerFd}
    /\ fdTab[f] \in Conn /\ Readn(f) = 0
    /\ cur' = [NoClient EXCEPT !.fd = f, !.conn = fdTab[f]]
    /\ batch' = batch \ {f}
    /\ pc' = "closed"
    /\ UNCHANGED <<peerVars, taken, backlog, listening, fdTab, m_client_list,
                   m_run_thread, ghosts, listenerVars, appVars, fault>>

\* read returned 0 or failed: epoll_ctl(DEL) and close.
Close(f) ==
    /\ Alive
    /\ pc = "loop" /\ f \in batch \ {ServerFd}
    /\ fdTab[f] \in Conn /\ Readn(f) = 0
    /\ fdTab' = [fdTab EXCEPT ![f] = NoConn]
    /\ cur' = [NoClient EXCEPT !.fd = f, !.conn = fdTab[f]]
    /\ batch' = batch \ {f}
    /\ pc' = "closed"
    /\ UNCHANGED <<peerVars, taken, backlog, listening, m_client_list,
                   m_run_thread, ghosts, listenerVars, appVars, fault>>

\* Mutant: the comparison of the descriptors is lost.
RemoveAny ==
    /\ Alive
    /\ pc = "closed"
    /\ \E c \in m_client_list :
         /\ m_client_list' = m_client_list \ {c}
         /\ cur' = [cur EXCEPT !.id = c.id]
    /\ pc' = "removed"
    /\ UNCHANGED <<peerVars, taken, backlog, listening, fdTab, m_run_thread,
                   batch, ghosts, listenerVars, appVars, fault>>

\* Mutant: the descriptor is overwritten with -1 before the list is searched.
RemoveAfterReset ==
    /\ Alive
    /\ pc = "closed"
    /\ \/ /\ FindByFd(NoFd) = {}
          /\ UNCHANGED <<m_client_list, cur>>
       \/ \E c \in FindByFd(NoFd) :
            /\ m_client_list' = m_client_list \ {c}
            /\ cur' = [cur EXCEPT !.id = c.id]
    /\ pc' = "removed"
    /\ UNCHANGED <<peerVars, taken, backlog, listening, fdTab, m_run_thread,
                   batch, ghosts, listenerVars, appVars, fault>>

\* removeClientInfo(fd): only now does the client leave the list.
Remove ==
    /\ Alive
    /\ pc = "closed"
    /\ \/ /\ FindByFd(cur.fd) = {}
          /\ UNCHANGED <<m_client_list, cur>>
       \/ \E c \in FindByFd(cur.fd) :
            /\ m_client_list' = m_client_list \ {c}
            /\ cur' = [cur EXCEPT !.id = c.id]
    /\ pc' = "removed"
    /\ UNCHANGED <<peerVars, taken, backlog, listening, fdTab, m_run_thread,
                   batch, ghosts, listenerVars, appVars, fault>>

\* Mutant: the listener is not told.
DisconnectNotNotified ==
    /\ Alive
    /\ pc = "removed"
    /\ cur' = NoClient
    /\ pc' = "callback"
    /\ UNCHANGED <<peerVars, taken, backlog, listening, fdTab, m_client_list,
                   m_run_thread, batch, ghosts, listenerVars, appVars, fault>>

\* NOTIFY_CLIENT_DISCONNECTED, up to the listener's callback.
NotifyDisconnected ==
    /\ Alive
    /\ pc = "removed"
    /\ view' = [i \in Id |-> IF i = cur.id THEN NoConn ELSE view[i]]
    /\ unknown' = [k \in Conn |->
                      IF k = cur.conn /\ ~(cur.id \in Id /\ view[cur.id] = k)
                        THEN unknown[k] + 1 ELSE unknown[k]]
    /\ cur' = NoClient
    /\ pc' = "callback"
    /\ UNCHANGED <<peerVars, taken, backlog, listening, fdTab, m_client_list,
                   m_run_thread, batch, ghosts, got, appVars, fault>>

\* The effect of write(fd) by a sender who means connection k: EBADF when the
\* descriptor is closed, SIGPIPE (not intercepted) when the peer is gone, the
\* wrong peer when the number has a new owner.
Write(sender, f, k) ==
    \/ /\ f \in Fd /\ fdTab[f] \in Conn /\ peer[fdTab[f]] = "gone"
       /\ fault' = "sigpipe"
       /\ UNCHANGED stray
    \/ /\ stray' = IF f \in Fd /\ fdTab[f] \notin {k, NoConn}
                   THEN stray \cup {<<sender, k>>} ELSE stray
       /\ UNCHANGED fault

\* The listener, inside a callback, answers any client it knows (sendToClient).
CallbackSend(i) ==
    /\ Alive
    /\ pc = "callback"
    /\ view[i] # NoConn
    /\ \/ /\ FindById(i) = {}
          /\ fault' = "thread"
          /\ UNCHANGED stray
       \/ \E c \in FindById(i) : Write("callback", c.fd, view[i])
    /\ UNCHANGED <<peerVars, taken, backlog, listening, fdTab, m_client_list,
                   threadVars, listenerVars, app>>

CallbackReturn ==
    /\ Alive
    /\ pc = "callback"
    /\ pc' = "loop"
    /\ UNCHANGED <<peerVars, taken, backlog, listening, fdTab, m_client_list,
                   m_run_thread, batch, cur, ghosts, listenerVars, appVars, fault>>

\* The end of the thread: the inet server closes the listening socket, which
\* refuses the connections still queued; the unix server leaves it open.
ThreadExit ==
    /\ Alive
    /\ pc = "loop" /\ batch = {} /\ ~m_run_thread
    /\ pc' = "exited"
    /\ IF Domain = "inet"
         THEN /\ listening' = FALSE
              /\ backlog' = {}
              /\ peer' = [k \in Conn |-> IF k \in backlog THEN "refused" ELSE peer[k]]
         ELSE UNCHANGED <<listening, backlog, peer>>
    /\ UNCHANGED <<arrived, taken, fdTab, m_client_list, m_run_thread, batch, cur,
                   ghosts, listenerVars, appVars, fault>>

-----------------------------------------------------------------------------
(* The application's threads.                                              *)

\* stop(): the flag and nothing else.
Stop ==
    /\ Alive
    /\ m_run_thread' = FALSE
    /\ UNCHANGED <<peerVars, taken, backlog, listening, fdTab, m_client_list, pc,
                   batch, cur, ghosts, listenerVars, appVars, fault>>

\* sendToClient(i) for a client whose connection was announced and whose
\* disconnection was not.
AppSendToClient(i) ==
    /\ Alive
    /\ AppSends /\ app = IdleApp
    /\ view[i] # NoConn
    /\ app' = [IdleApp EXCEPT !.todo = {[id |-> i, conn |-> view[i]]}]
    /\ UNCHANGED <<peerVars, taken, backlog, listening, fdTab, m_client_list,
                   threadVars, listenerVars, stray, fault>>

\* sendToServer: a copy of the list (its shared_ptrs keep the ids alive), then
\* one sendToClient for each entry of the copy.
AppSendToServer ==
    /\ Alive
    /\ AppSends /\ app = IdleApp
    /\ m_client_list # {}
    /\ app' = [todo |-> {[id |-> c.id, conn |-> c.conn] : c \in m_client_list},
               refs |-> m_client_list, hold |-> NoClient]
    /\ UNCHANGED <<peerVars, taken, backlog, listening, fdTab, m_client_list,
                   threadVars, listenerVars, stray, fault>>

\* findClientInfo(id) in sendToClient; its result is dereferenced unchecked.
AppFind(t) ==
    /\ Alive
    /\ t \in app.todo /\ app.hold = NoClient
    /\ \/ /\ FindById(t.id) = {}
          /\ fault' = "app"
          /\ UNCHANGED app
       \/ \E c \in FindById(t.id) :
            /\ app' = [app EXCEPT !.todo = @ \ {t},
                                  !.hold = [c EXCEPT !.conn = t.conn]]
            /\ UNCHANGED fault
    /\ UNCHANGED <<peerVars, taken, backlog, listening, fdTab, m_client_list,
                   threadVars, listenerVars, stray>>

\* A traversal, by findClientInfo or for sendToServer's copy, meets the node that
\* the epoll thread is erasing.
AppFindRaces ==
    /\ Alive
    /\ AppSends /\ app.hold = NoClient
    /\ pc = "closed" /\ FindByFd(cur.fd) # {}
    /\ fault' = "app"
    /\ UNCHANGED <<peerVars, taken, backlog, listening, fdTab, m_client_list,
                   threadVars, listenerVars, appVars>>

\* write(client->getFd()), and the return when it was the last client.
AppWrite ==
    /\ Alive
    /\ app.hold # NoClient
    /\ Write("app", app.hold.fd, app.hold.conn)
    /\ app' = IF app.todo = {} THEN IdleApp ELSE [app EXCEPT !.hold = NoClient]
    /\ UNCHANGED <<peerVars, taken, backlog, listening, fdTab, m_client_list,
                   threadVars, listenerVars>>

-----------------------------------------------------------------------------
EnvironmentStep ==
    \/ \E k \in Conn : Connect(k) \/ PeerWrite(k) \/ Hangup(k) \/ Reset(k)
    \/ \E f \in Fd : ForeignOpen(f) \/ ForeignClose(f)

ThreadStep ==
    \/ ThreadStart \/ LoopTest \/ EpollWait \/ ThreadExit
    \/ \E k \in Conn, f \in Fd, i \in Id : Accept(k, f, i)
    \/ \E i \in Id : AcceptFails(i)
    \/ NotifyConnected
    \/ \E f \in Fd : Read(f) \/ Close(f)
    \/ Remove \/ NotifyDisconnected \/ CallbackReturn

AppStep ==
    \/ Stop
    \/ \E i \in Id : AppSendToClient(i)
    \/ AppSendToServer
    \/ \E t \in app.todo : AppFind(t)
    \/ AppFindRaces \/ AppWrite

Next ==
    \/ EnvironmentStep
    \/ ThreadStep
    \/ EpollInterrupted
    \/ \E i \in Id : CallbackSend(i)
    \/ AppStep

Spec == Init /\ [][Next]_vars

\* The thread is scheduled; the kernel's ready list is a queue, so a descriptor
\* that stays ready is not passed over forever.
Fairness ==
    /\ WF_vars(ThreadStep)
    /\ \A f \in Fd \cup {ServerFd} : SF_vars(EpollWait /\ f \in batch')

FairSpec == Spec /\ Fairness

-----------------------------------------------------------------------------
(* Properties.                                                             *)

\* Every variable keeps its type: the thread's control, the client list and
\* the listener's view stay within what the code can represent.
TypeOK ==
    /\ peer \in [Conn -> {"absent", "up", "gone", "refused"}]
    /\ arrived \in [Conn -> 0..MaxSend]
    /\ taken \in [Conn -> 0..MaxSend]
    /\ backlog \subseteq Conn
    /\ listening \in BOOLEAN
    /\ fdTab \in [Fd -> Conn \cup {NoConn, Foreign}]
    /\ m_client_list \subseteq Client
    /\ m_run_thread \in BOOLEAN
    /\ pc \in {"created", "loop", "wait", "added", "callback", "closed",
               "removed", "exited"}
    /\ batch \subseteq Fd \cup {ServerFd}
    /\ cur \in [id : Id \cup {NoId}, fd : Fd \cup {NoFd},
                conn : Conn \cup {NoConn, NoPeer}]
    /\ ghosts \in 0..MaxGhosts
    /\ view \in [Id -> Conn \cup {NoConn, NoPeer}]
    /\ got \in [Id -> Seq(Conn \X Nat)]
    /\ unknown \in [Conn -> Nat]
    /\ app \in [todo : SUBSET Target, refs : SUBSET Client,
                hold : Client \cup {NoClient}]
    /\ stray \subseteq {"callback", "app"} \X (Conn \cup {NoPeer})
    /\ fault \in {"none", "thread", "app", "sigpipe"}

\* close(fd) comes before removeClientInfo(fd): outside that window the client
\* list and the descriptor table describe the same set of connections, however
\* descriptor numbers are reused, and no two clients share a descriptor.
FdsMatchClients ==
    /\ \A f \in Fd : fdTab[f] \in Conn =>
         \E c \in m_client_list : c.fd = f /\ c.conn = fdTab[f]
    /\ \A c \in m_client_list :
         \/ c.fd = NoFd
         \/ fdTab[c.fd] = c.conn
         \/ pc = "closed" /\ cur.fd = c.fd
    /\ \A c, d \in m_client_list : c.fd = d.fd /\ c.fd # NoFd => c = d

\* The epoll thread dereferences findClientInfo's result unchecked, for events
\* that may be stale and for answers sent from a callback: it never meets
\* nullptr.
ThreadNeverFaults == fault # "thread"

\* onClientDisconnected is given the id of a client that was announced, never
\* the id 0 that removeClientInfo returns when it finds nothing.
DisconnectNamesClient ==
    pc = "removed" => cur.id \in Id /\ view[cur.id] = cur.conn

\* An answer sent from inside a callback reaches the connection of the client
\* it names: the descriptor in the ClientInfo was not reused.
CallbackSendsReachOwner == \A k \in Conn \cup {NoPeer} : <<"callback", k>> \notin stray

\* While its peer is connected, a client that another thread is about to send
\* to can be found under its id, and its descriptor is still its own.
LiveClientsStayReachable ==
    /\ \A t \in app.todo : t.conn \in Conn /\ peer[t.conn] = "up" =>
         \E c \in m_client_list :
             c.id = t.id /\ c.conn = t.conn /\ fdTab[c.fd] = t.conn
    /\ app.hold.conn \in Conn /\ peer[app.hold.conn] = "up" =>
         fdTab[app.hold.fd] = app.hold.conn

\* The connections the listener has been told of.
Announced ==
    {k \in Conn : /\ peer[k] \in {"up", "gone"}
                  /\ k \notin backlog
                  /\ ~(pc = "added" /\ cur.conn = k)}

Sessions == INSTANCE ClientSessions
                WITH opened <- Announced, ChunkLimit <- BufferLength, UnknownLimit <- 0

\* What the listener is told is a ClientSessions behaviour: ids name one session
\* at a time, bytes come in order and without gaps under the id of the client
\* that sent them, and every disconnection names the session it ends.
SessionsSpec == Sessions!Spec

\* Bytes that reached the socket are handed to the listener, whatever the other
\* clients do, unless the peer resets the connection, the server is stopped, or the
\* process ends (SIGPIPE of a send to a peer that is gone, the application thread's
\* unlocked use of the client list).
BytesAreDelivered ==
    \A k \in Conn : \A n \in 1..MaxSend :
        (arrived[k] >= n /\ k \notin backlog)
            ~> (taken[k] >= n \/ arrived[k] < n \/ ~m_run_thread \/ ~Alive)

\* A peer that hangs up is announced as disconnected, and its descriptor and its
\* list entry are released.
HangupsAreAnnounced ==
    \A k \in Conn :
        (peer[k] = "gone" /\ k \in Announced)
            ~> (\/ /\ \A i \in Id : view[i] # k
                   /\ \A f \in Fd : fdTab[f] # k
                   /\ \A c \in m_client_list : c.conn # k
                \/ ~m_run_thread \/ ~Alive)

\* A connection in the listening socket's queue is accepted and announced.
ConnectionsAreAnnounced ==
    \A k \in Conn :
        (k \in backlog) ~> (k \in Announced \/ ~m_run_thread \/ ~Alive)
=============================================================================
