----------------------------- MODULE UdpServer ------------------------------
(***************************************************************************)
(* The datagram servers of anyserver: InetDomainSocketUdpServer and        *)
(* UnixDomainSocketUdpServer.                                              *)
(*                                                                         *)
(* One thread receives datagrams.  Each datagram is a client of its own:   *)
(* it is listed, announced, handed to the listener, removed and announced  *)
(* as gone before the next one is received.  The sender's address is left  *)
(* by recvfrom in clientaddr; clientlen is its value-result argument, set  *)
(* once before the loop.  An answer goes to the address that was copied    *)
(* from clientaddr into the client's entry.                                *)
(***************************************************************************)
EXTENDS Integers, Sequences, FiniteSets

CONSTANTS
    Sender,       \* the processes that send datagrams
    Cell,         \* what one cell of an address can hold
    AddrOf,       \* AddrOf[s]: the address of s; <<>> for an unbound unix socket
    AddrSize,     \* sizeof(clientaddr)
    Junk,         \* an uninitialised cell
    Nobody,       \* the destination of an address nobody has
    NoGram,       \* no datagram: what a failed recvfrom returns
    NoSession,    \* an id the listener does not know
    Id,           \* client ids
    NoId,         \* the id 0
    Lossy,        \* the network may drop datagrams (inet)
    RecvMayFail,  \* recvfrom may return -1
    DebugBuild,   \* LOG_DEBUG is compiled in (CONFIG_DEBUG) and evaluates its arguments
    LookupMayFail,\* gethostbyaddr may return NULL (inet)
    MaxSend       \* bound: datagrams one sender sends

ASSUME ConstantsAssumption ==
    /\ AddrSize \in Nat \ {0}
    /\ AddrOf \in [Sender -> Seq(Cell)]
    /\ \A s \in Sender : Len(AddrOf[s]) <= AddrSize
    /\ \A s, r \in Sender : s # r /\ AddrOf[s] # <<>> /\ AddrOf[r] # <<>> =>
         \E p \in 1..Len(AddrOf[s]) : p <= Len(AddrOf[r]) /\ AddrOf[s][p] # AddrOf[r][p]
    /\ Junk \notin Cell /\ Nobody \notin Sender /\ NoId \notin Id
    /\ NoGram \notin [from : Sender, n : 1..MaxSend]
    /\ NoSession \notin [from : Sender, n : 1..MaxSend] \cup {NoGram}
    /\ {Lossy, RecvMayFail, DebugBuild, LookupMayFail} \subseteq BOOLEAN
    /\ MaxSend \in Nat

VARIABLES
    sent,          \* sent[s]: datagrams s has sent
    pending,       \* datagrams in the server's socket
    m_run_thread,  \* BaseServerImpl::m_run_thread
    pc,            \* where the receiving thread stands
    clientaddr,    \* the thread's address buffer
    clientlen,     \* the thread's value-result length
    gram,          \* the datagram in the thread's buffer
    cid,           \* the thread's client_id
    m_client_list, \* BaseServer::m_client_list, records [id, addr, gram]
    view,          \* the listener's knowledge: datagram behind each id
    heard,         \* datagrams handed to onReceive
    app,           \* the application thread's call: [id, meant, addr, at]
    stray,         \* answers that went elsewhere: <<sending thread, datagram answered>>
    fault          \* "none", or which lookup's nullptr was dereferenced

vars == <<sent, pending, m_run_thread, pc, clientaddr, clientlen, gram, cid,
          m_client_list, view, heard, app, stray, fault>>
netVars == <<sent, pending>>
bufferVars == <<clientaddr, clientlen, gram>>
listenerVars == <<view, heard>>

Gram == [from : Sender, n : 1..MaxSend]
Addr == [1..AddrSize -> Cell \cup {Junk}]
Client == [id : Id, addr : Addr, gram : Gram \cup {NoGram}]
IdleApp == [at |-> "idle", id |-> NoId, meant |-> NoGram, addr |-> <<>>]

\* The process that an address buffer names: the sendto() of the kernel reads
\* it as far as the address goes.
Resolve(a) ==
    LET named == {s \in Sender : /\ AddrOf[s] # <<>>
                                 /\ \A p \in 1..Len(AddrOf[s]) : a[p] = AddrOf[s][p]}
    IN  IF named = {} THEN Nobody ELSE CHOOSE s \in named : TRUE

\* Mutant: the last cell of the address is not copied.
OverlayShort(buffer, room, a) ==
    [p \in 1..AddrSize |-> IF p < room /\ p <= Len(a) THEN a[p] ELSE buffer[p]]

\* What recvfrom leaves in the buffer: at most clientlen cells of the address.
Overlay(buffer, room, a) ==
    [p \in 1..AddrSize |-> IF p <= room /\ p <= Len(a) THEN a[p] ELSE buffer[p]]

\* sendto with what was received, by a thread that means the sender of g.  The
\* length of a failed receive is too long for any datagram and nothing is sent;
\* a sender without an address cannot be answered.
Answered(thread, g, a) ==
    IF g = NoGram \/ Resolve(a) = (IF AddrOf[g.from] = <<>> THEN Nobody ELSE g.from)
      THEN stray ELSE stray \cup {<<thread, g>>}

FindById(i) == {c \in m_client_list : c.id = i}

\* The heap address of a new UdpClientInfo; the application may hold an old one.
FreeIds == Id \ ({c.id : c \in m_client_list}
                 \cup (IF app.at = "send" THEN {app.id} ELSE {}))

Alive == fault = "none"

Init ==
    /\ sent = [s \in Sender |-> 0]
    /\ pending = {}
    /\ m_run_thread = FALSE
    /\ pc = "created"
    /\ clientaddr = [p \in 1..AddrSize |-> Junk]
    /\ clientlen = AddrSize
    /\ gram = NoGram
    /\ cid = NoId
    /\ m_client_list = {}
    /\ view = [i \in Id |-> NoSession]
    /\ heard = {}
    /\ app = IdleApp
    /\ stray = {}
    /\ fault = "none"

-----------------------------------------------------------------------------
(* The senders and the network (environment).                              *)

\* The datagram may be lost on its way, and it is when the socket is closed.
Send(s) ==
    /\ Alive
    /\ sent[s] < MaxSend
    /\ sent' = [sent EXCEPT ![s] = @ + 1]
    /\ \/ pc # "exited" /\ pending' = pending \cup {[from |-> s, n |-> sent[s] + 1]}
       \/ (pc = "exited" \/ Lossy) /\ UNCHANGED pending
    /\ UNCHANGED <<m_run_thread, pc, bufferVars, cid, m_client_list,
                   listenerVars, app, stray, fault>>

-----------------------------------------------------------------------------
(* The communication thread.                                               *)

ThreadStart ==
    /\ Alive
    /\ pc = "created"
    /\ m_run_thread' = TRUE
    /\ pc' = "loop"
    /\ UNCHANGED <<netVars, bufferVars, cid, m_client_list, listenerVars, app,
                   stray, fault>>

\* while ( server->m_run_thread )
LoopTest ==
    /\ Alive
    /\ pc = "loop" /\ m_run_thread
    /\ pc' = "recvfrom"
    /\ UNCHANGED <<netVars, m_run_thread, bufferVars, cid, m_client_list,
                   listenerVars, app, stray, fault>>

\* The end of the loop: close(server_fd), with what was not received.
ThreadExit ==
    /\ Alive
    /\ pc = "loop" /\ ~m_run_thread
    /\ pending' = {}
    /\ pc' = "exited"
    /\ UNCHANGED <<sent, m_run_thread, bufferVars, cid, m_client_list,
                   listenerVars, app, stray, fault>>

\* Mutant: the terminating 0 of an address is counted twice.
RecvfromLong(g) ==
    /\ Alive
    /\ pc = "recvfrom" /\ g \in pending
    /\ pending' = pending \ {g}
    /\ gram' = g
    /\ clientaddr' = Overlay(clientaddr, clientlen, AddrOf[g.from])
    /\ clientlen' = Len(AddrOf[g.from]) + 1
    /\ pc' = "received"
    /\ UNCHANGED <<sent, m_run_thread, cid, m_client_list, listenerVars, app,
                   stray, fault>>

\* recvfrom: the datagram, as much of its address as clientlen allows, and the
\* address's real length into clientlen.
Recvfrom(g) ==
    /\ Alive
    /\ pc = "recvfrom" /\ g \in pending
    /\ pending' = pending \ {g}
    /\ gram' = g
    /\ clientaddr' = Overlay(clientaddr, clientlen, AddrOf[g.from])
    /\ clientlen' = Len(AddrOf[g.from])
    /\ pc' = "received"
    /\ UNCHANGED <<sent, m_run_thread, cid, m_client_list, listenerVars, app,
                   stray, fault>>

\* Mutant: the loop is left when recvfrom fails.
RecvfromBreaks ==
    /\ Alive
    /\ pc = "recvfrom" /\ RecvMayFail
    /\ pc' = "exited"
    /\ UNCHANGED <<netVars, m_run_thread, bufferVars, cid, m_client_list,
                   listenerVars, app, stray, fault>>

\* recvfrom fails: the error is printed and the iteration goes on.
RecvfromFails ==
    /\ Alive
    /\ pc = "recvfrom" /\ RecvMayFail
    /\ gram' = NoGram
    /\ pc' = "received"
    /\ UNCHANGED <<netVars, m_run_thread, clientaddr, clientlen, cid,
                   m_client_list, listenerVars, app, stray, fault>>

\* Mutant: the client is created and not listed.
AddClientUnlisted(i) ==
    /\ Alive
    /\ pc = "received" /\ i \in FreeIds
    /\ cid' = i
    /\ pc' = "added"
    /\ UNCHANGED <<netVars, m_run_thread, bufferVars, m_client_list, listenerVars,
                   app, stray, fault>>

\* addClientInfo(new UdpClientInfo(&clientaddr)): a copy of the whole buffer.
AddClient(i) ==
    /\ Alive
    /\ pc = "received" /\ i \in FreeIds
    /\ m_client_list' = m_client_list
                        \cup {[id |-> i, addr |-> clientaddr, gram |-> gram]}
    /\ cid' = i
    /\ pc' = "added"
    /\ UNCHANGED <<netVars, m_run_thread, bufferVars, listenerVars, app, stray,
                   fault>>

NotifyConnected ==
    /\ Alive
    /\ pc = "added"
    /\ view' = [view EXCEPT ![cid] = gram]
    /\ pc' = "connected"
    /\ UNCHANGED <<netVars, m_run_thread, bufferVars, cid, m_client_list, heard,
                   app, stray, fault>>

\* The debug build logs hostp->h_name before the listener is called.
LogHostName ==
    /\ Alive
    /\ pc = "connected"
    /\ DebugBuild /\ LookupMayFail
    /\ fault' = "lookup"
    /\ UNCHANGED <<netVars, m_run_thread, pc, bufferVars, cid, m_client_list,
                   listenerVars, app, stray>>

\* NOTIFY_SERVER_RECEIVED(buffer, readn), also when readn is -1.
NotifyReceived ==
    /\ Alive
    /\ pc = "connected"
    /\ heard' = IF gram \in Gram THEN heard \cup {gram} ELSE heard
    /\ pc' = "callback"
    /\ UNCHANGED <<netVars, m_run_thread, bufferVars, cid, m_client_list, view,
                   app, stray, fault>>

\* The listener answers from inside onClientConnected or onReceive, the
\* factory's echo test from inside onReceive.
CallbackSend ==
    /\ Alive
    /\ pc \in {"connected", "callback"}
    /\ \/ /\ FindById(cid) = {}
          /\ fault' = "thread"
          /\ UNCHANGED stray
       \/ \E c \in FindById(cid) :
            /\ stray' = Answered("callback", view[cid], c.addr)
            /\ UNCHANGED fault
    /\ UNCHANGED <<netVars, m_run_thread, pc, bufferVars, cid, m_client_list,
                   listenerVars, app>>

\* Mutant: removeClientInfo returns 0 although it found the client.
RemoveNamesNobody ==
    /\ Alive
    /\ pc = "callback"
    /\ cid' = NoId
    /\ m_client_list' = m_client_list \ FindById(cid)
    /\ pc' = "removed"
    /\ UNCHANGED <<netVars, m_run_thread, bufferVars, listenerVars, app, stray,
                   fault>>

\* removeClientInfo(client_id), whose result is the id that is announced.
Remove ==
    /\ Alive
    /\ pc = "callback"
    /\ cid' = IF FindById(cid) = {} THEN NoId ELSE cid
    /\ m_client_list' = m_client_list \ FindById(cid)
    /\ pc' = "removed"
    /\ UNCHANGED <<netVars, m_run_thread, bufferVars, listenerVars, app, stray,
                   fault>>

NotifyDisconnected ==
    /\ Alive
    /\ pc = "removed"
    /\ view' = [i \in Id |-> IF i = cid THEN NoSession ELSE view[i]]
    /\ cid' = NoId
    /\ pc' = "loop"
    /\ UNCHANGED <<netVars, m_run_thread, bufferVars, m_client_list, heard,
                   app, stray, fault>>

-----------------------------------------------------------------------------
(* The application's threads.                                              *)

Stop ==
    /\ Alive
    /\ m_run_thread' = FALSE
    /\ UNCHANGED <<netVars, pc, bufferVars, cid, m_client_list, listenerVars, app,
                   stray, fault>>

\* sendToClient(i) from another thread, for a client announced and not yet gone.
AppSendToClient(i) ==
    /\ Alive
    /\ app.at = "idle" /\ view[i] # NoSession
    /\ app' = [IdleApp EXCEPT !.at = "find", !.id = i, !.meant = view[i]]
    /\ UNCHANGED <<netVars, m_run_thread, pc, bufferVars, cid, m_client_list,
                   listenerVars, stray, fault>>

\* findClientInfo(id), unchecked.
AppFind ==
    /\ Alive
    /\ app.at = "find"
    /\ \/ /\ FindById(app.id) = {}
          /\ fault' = "app"
          /\ UNCHANGED app
       \/ \E c \in FindById(app.id) :
            /\ app' = [app EXCEPT !.at = "send", !.addr = c.addr]
            /\ UNCHANGED fault
    /\ UNCHANGED <<netVars, m_run_thread, pc, bufferVars, cid, m_client_list,
                   listenerVars, stray>>

\* The traversal meets the node that the receiving thread is erasing.
AppFindRaces ==
    /\ Alive
    /\ app.at = "find" /\ pc = "callback"
    /\ fault' = "app"
    /\ UNCHANGED <<netVars, m_run_thread, pc, bufferVars, cid, m_client_list,
                   listenerVars, app, stray>>

\* sendto to the address the entry holds; EBADF when the thread has closed the
\* socket.
AppSendto ==
    /\ Alive
    /\ app.at = "send"
    /\ stray' = IF pc = "exited" THEN stray
                  ELSE Answered("app", app.meant, app.addr)
    /\ app' = IdleApp
    /\ UNCHANGED <<netVars, m_run_thread, pc, bufferVars, cid, m_client_list,
                   listenerVars, fault>>

-----------------------------------------------------------------------------
ThreadStep ==
    \/ ThreadStart \/ LoopTest \/ ThreadExit
    \/ \E g \in Gram : Recvfrom(g)
    \/ RecvfromFails
    \/ \E i \in Id : AddClient(i)
    \/ NotifyConnected \/ NotifyReceived \/ Remove \/ NotifyDisconnected

Next ==
    \/ \E s \in Sender : Send(s)
    \/ ThreadStep
    \/ LogHostName
    \/ CallbackSend
    \/ Stop
    \/ \E i \in Id : AppSendToClient(i)
    \/ AppFind \/ AppFindRaces \/ AppSendto

Spec == Init /\ [][Next]_vars

\* The thread is scheduled, and the socket's queue is first in, first out.
Fairness ==
    /\ WF_vars(ThreadStep)
    /\ \A g \in Gram : SF_vars(Recvfrom(g))

FairSpec == Spec /\ Fairness

-----------------------------------------------------------------------------
(* Properties.                                                             *)

\* Every variable keeps its type: the address buffer holds address cells or what
\* was on the stack, and the listed clients are copies of it.
TypeOK ==
    /\ sent \in [Sender -> 0..MaxSend]
    /\ pending \subseteq Gram
    /\ m_run_thread \in BOOLEAN
    /\ pc \in {"created", "loop", "recvfrom", "received", "added", "connected",
               "callback", "removed", "exited"}
    /\ clientaddr \in Addr
    /\ clientlen \in 0..AddrSize
    /\ gram \in Gram \cup {NoGram}
    /\ cid \in Id \cup {NoId}
    /\ m_client_list \subseteq Client
    /\ view \in [Id -> Gram \cup {NoGram, NoSession}]
    /\ heard \subseteq Gram
    /\ app \in [at : {"idle", "find", "send"}, id : Id \cup {NoId},
                meant : Gram \cup {NoGram}, addr : Addr \cup {<<>>}]
    /\ stray \subseteq {"callback", "app"} \X Gram
    /\ fault \in {"none", "thread", "app", "lookup"}

\* An answer sent while the datagram is being handled (the echo test of
\* ServerFactory::onReceive, the sendToClient of the echo example) goes to the
\* process that sent the datagram.  A sender without an address gets none.
AnswersReachSender == \A s \in stray : s[1] # "callback"

\* The listener knows at most the client of the datagram in the thread's buffer,
\* and the disconnection that follows names that client.
SessionsDoNotOverlap ==
    /\ \A i \in Id : view[i] # NoSession => i = cid /\ view[i] = gram
    /\ pc = "removed" => cid \in Id /\ view[cid] = gram

\* The client that the receiving thread looks up, unchecked, to answer from a
\* callback is always found, whatever other threads do.
ThreadNeverFaults == fault # "thread"

\* A datagram that reached the socket is handed to the listener, whatever comes
\* before it and however often recvfrom fails.  Three things only keep it from that:
\* stop(); an application thread that raced with the removal of a client; and, in a
\* debug build, a sender whose address has no name.  The code logs the failed lookup
\* as a warning and then crashes on it (LogHostName): that is a defect, and in a
\* release build this property allows no such end.
DatagramsAreHeard ==
    \A g \in Gram :
        (g \in pending) ~> \/ g \in heard
                           \/ ~m_run_thread
                           \/ fault = "app"
                           \/ DebugBuild /\ fault = "lookup"
=============================================================================
