-------------------------- MODULE UdpServerProofs ---------------------------
(***************************************************************************)
(* Proofs about UdpServer, for every number of senders, ids and datagrams  *)
(* and for every length of addresses.                                      *)
(*                                                                         *)
(* The argument: the client list and the listener's knowledge are a        *)
(* function of the place of the receiving thread, whatever the other       *)
(* threads do.  From the list to the removal there is one client, a copy   *)
(* of the address buffer; the buffer names the sender of the datagram when *)
(* recvfrom was given enough room for its address.                         *)
(***************************************************************************)
EXTENDS UdpServer, TLAPS

\* The thread is between two datagrams, or has received one it has not yet listed.
Between == pc \in {"created", "loop", "recvfrom", "received", "exited"}

\* The client that is listed for the datagram in the thread's buffer.
Current == [id |-> cid, addr |-> clientaddr, gram |-> gram]

\* One client is listed while a datagram is handled, and none otherwise.
ListFollowsThread ==
    /\ ~Between => cid \in Id
    /\ m_client_list = IF pc \in {"added", "connected", "callback"} THEN {Current} ELSE {}

\* The listener knows the client from its connection to its disconnection.
ViewFollowsThread ==
    \A i \in Id : view[i] = IF pc \in {"connected", "callback", "removed"} /\ i = cid
                              THEN gram ELSE NoSession

\* A call of the application is about a client that was announced.
CallsHaveIds == app.at # "idle" => app.id \in Id

IndInv ==
    /\ TypeOK
    /\ ListFollowsThread
    /\ ViewFollowsThread
    /\ CallsHaveIds
    /\ ThreadNeverFaults

\* The addresses of the senders are all of one length.  Those of the inet server
\* are: each is a struct sockaddr_in.
AddressesAlike == \A s, r \in Sender : AddrOf[s] # <<>> /\ Len(AddrOf[s]) = Len(AddrOf[r])

\* recvfrom has room for an address, and has left the sender's in the buffer.
BufferNamesSender ==
    /\ \A s \in Sender : clientlen >= Len(AddrOf[s])
    /\ pc \in {"received", "added", "connected", "callback"} /\ gram # NoGram =>
           \A p \in 1..Len(AddrOf[gram.from]) : clientaddr[p] = AddrOf[gram.from][p]

AnswerInv == BufferNamesSender /\ AnswersReachSender

-----------------------------------------------------------------------------
(* The inductive invariant.                                                *)

\* The senders, main() and the control of the thread between two datagrams.
LEMMA ControlPreserves ==
    ASSUME IndInv,
           \/ \E s \in Sender : Send(s)
           \/ ThreadStart \/ LoopTest \/ ThreadExit \/ Stop \/ LogHostName \/ NotifyReceived
           \/ UNCHANGED vars
    PROVE  IndInv'
<1> USE DEF netVars, bufferVars, listenerVars
<1>1. UNCHANGED <<clientaddr, clientlen, gram, cid, m_client_list, view, app, stray>>
  BY DEF Send, ThreadStart, LoopTest, ThreadExit, Stop, LogHostName, NotifyReceived, vars
<1>2. \/ pc' = pc
      \/ pc \in {"created", "loop"} /\ pc' \in {"loop", "recvfrom", "exited"}
      \/ pc = "connected" /\ pc' = "callback"
  BY DEF Send, ThreadStart, LoopTest, ThreadExit, Stop, LogHostName, NotifyReceived, vars
<1>3. TypeOK'
  <2>1. sent \in [Sender -> 0..MaxSend] /\ pending \subseteq Gram /\ heard \subseteq Gram
        /\ m_run_thread \in BOOLEAN /\ fault \in {"none", "thread", "app", "lookup"}
    BY DEF IndInv, TypeOK
  <2>2. sent' \in [Sender -> 0..MaxSend] /\ pending' \subseteq Gram
    <3>1. ASSUME NEW s \in Sender, Send(s)
          PROVE  sent' \in [Sender -> 0..MaxSend] /\ pending' \subseteq Gram
      <4>1. sent[s] + 1 \in 1..MaxSend
        BY <2>1, <3>1, ConstantsAssumption DEF Send
      <4>2. [from |-> s, n |-> sent[s] + 1] \in Gram
        BY <4>1 DEF Gram
      <4> QED
        BY <2>1, <3>1, <4>1, <4>2, ConstantsAssumption DEF Send
    <3>2. CASE \/ ThreadStart \/ LoopTest \/ ThreadExit \/ Stop \/ LogHostName
               \/ NotifyReceived \/ UNCHANGED vars
      BY <2>1, <3>2 DEF ThreadStart, LoopTest, ThreadExit, Stop, LogHostName,
                        NotifyReceived, vars
    <3> QED
      BY <3>1, <3>2
  <2>3. heard' \subseteq Gram /\ m_run_thread' \in BOOLEAN
        /\ fault' \in {"none", "thread", "app", "lookup"}
    BY <2>1 DEF Send, ThreadStart, LoopTest, ThreadExit, Stop, LogHostName,
                NotifyReceived, vars
  <2> QED
    BY <1>1, <1>2, <2>2, <2>3 DEF IndInv, TypeOK
<1>4. ListFollowsThread' /\ ViewFollowsThread' /\ CallsHaveIds'
  BY <1>1, <1>2 DEF IndInv, ListFollowsThread, ViewFollowsThread, CallsHaveIds, Between, Current
<1>5. ThreadNeverFaults'
  BY DEF IndInv, ThreadNeverFaults, Send, ThreadStart, LoopTest, ThreadExit, Stop, LogHostName,
         NotifyReceived, vars
<1> QED
  BY <1>3, <1>4, <1>5 DEF IndInv

\* recvfrom leaves an address buffer, whatever room and address it had.
LEMMA OverlayType ==
    ASSUME NEW buffer \in Addr, NEW room, NEW s \in Sender
    PROVE  Overlay(buffer, room, AddrOf[s]) \in Addr
  BY ConstantsAssumption DEF Overlay, Addr

\* The thread receives, or fails to: nobody is listed.
LEMMA RecvfromPreserves ==
    ASSUME IndInv, (\E g \in Gram : Recvfrom(g)) \/ RecvfromFails
    PROVE  IndInv'
<1> USE DEF netVars, listenerVars
<1>1. /\ pc = "recvfrom" /\ pc' = "received"
      /\ UNCHANGED <<sent, m_run_thread, cid, m_client_list, view, heard, app, stray, fault>>
  BY DEF Recvfrom, RecvfromFails
<1>2. /\ pending' \subseteq Gram /\ clientaddr' \in Addr /\ clientlen' \in 0..AddrSize
      /\ gram' \in Gram \cup {NoGram}
  <2>1. pending \subseteq Gram /\ clientaddr \in Addr /\ clientlen \in 0..AddrSize
    BY DEF IndInv, TypeOK
  <2>2. ASSUME NEW g \in Gram, Recvfrom(g)
        PROVE  /\ pending' \subseteq Gram /\ clientaddr' \in Addr /\ clientlen' \in 0..AddrSize
               /\ gram' \in Gram
    <3>1. g.from \in Sender
      BY DEF Gram
    <3>2. Len(AddrOf[g.from]) \in 0..AddrSize
      BY <3>1, ConstantsAssumption
    <3> QED
      BY <2>1, <2>2, <3>1, <3>2, OverlayType DEF Recvfrom
  <2>3. CASE RecvfromFails
    BY <2>1, <2>3 DEF RecvfromFails
  <2> QED
    BY <2>2, <2>3
<1>3. TypeOK'
  BY <1>1, <1>2 DEF IndInv, TypeOK
<1> QED
  BY <1>1, <1>3 DEF IndInv, ListFollowsThread, ViewFollowsThread, CallsHaveIds, Between,
     ThreadNeverFaults

\* The client is listed: the only one.
LEMMA AddClientPreserves ==
    ASSUME IndInv, NEW i \in Id, AddClient(i)
    PROVE  IndInv'
<1>1. /\ pc = "received" /\ pc' = "added" /\ cid' = i
      /\ m_client_list' = m_client_list \cup {[id |-> i, addr |-> clientaddr, gram |-> gram]}
      /\ UNCHANGED <<sent, pending, m_run_thread, clientaddr, clientlen, gram, view, heard,
                     app, stray, fault>>
  BY DEF AddClient, netVars, bufferVars, listenerVars
<1>2. m_client_list = {}
  BY <1>1 DEF IndInv, ListFollowsThread
<1>3. m_client_list' = {Current'} /\ Current' = [id |-> i, addr |-> clientaddr, gram |-> gram]
  BY <1>1, <1>2 DEF Current
<1>4. [id |-> i, addr |-> clientaddr, gram |-> gram] \in Client
  BY DEF IndInv, TypeOK, Client
<1>5. TypeOK'
  BY <1>1, <1>3, <1>4 DEF IndInv, TypeOK
<1>6. ListFollowsThread'
  BY <1>1, <1>3 DEF ListFollowsThread
<1> QED
  BY <1>1, <1>5, <1>6 DEF IndInv, ViewFollowsThread, CallsHaveIds, ThreadNeverFaults

\* The listener is told of the client that is listed.
LEMMA NotifyConnectedPreserves ==
    ASSUME IndInv, NotifyConnected
    PROVE  IndInv'
<1>1. /\ pc = "added" /\ pc' = "connected" /\ view' = [view EXCEPT ![cid] = gram]
      /\ UNCHANGED <<sent, pending, m_run_thread, clientaddr, clientlen, gram, cid,
                     m_client_list, heard, app, stray, fault>>
  BY DEF NotifyConnected, netVars, bufferVars
<1>2. cid \in Id /\ view \in [Id -> Gram \cup {NoGram, NoSession}] /\ gram \in Gram \cup {NoGram}
  BY <1>1 DEF IndInv, TypeOK, ListFollowsThread, Between
<1>3. TypeOK'
  BY <1>1, <1>2 DEF IndInv, TypeOK
<1>4. ListFollowsThread'
  BY <1>1 DEF IndInv, ListFollowsThread, Between, Current
<1>5. ViewFollowsThread'
  BY <1>1, <1>2 DEF IndInv, ViewFollowsThread
<1> QED
  BY <1>1, <1>3, <1>4, <1>5 DEF IndInv, CallsHaveIds, ThreadNeverFaults

\* The thread finds the client it answers, and the answer is about its datagram.
LEMMA CallbackFinds ==
    ASSUME IndInv, CallbackSend
    PROVE  /\ UNCHANGED <<sent, pending, m_run_thread, pc, clientaddr, clientlen, gram, cid,
                          m_client_list, view, heard, app, fault>>
           /\ stray' = Answered("callback", gram, clientaddr)
<1>1. /\ pc \in {"connected", "callback"}
      /\ UNCHANGED <<sent, pending, m_run_thread, pc, clientaddr, clientlen, gram, cid,
                     m_client_list, view, heard, app>>
  BY DEF CallbackSend, netVars, bufferVars, listenerVars
<1>2. m_client_list = {Current} /\ cid \in Id /\ view[cid] = gram
  BY <1>1 DEF IndInv, ListFollowsThread, ViewFollowsThread, Between
<1>3. Current.id = cid /\ Current.addr = clientaddr
  BY DEF Current
<1>4. FindById(cid) = {Current}
  BY <1>2, <1>3 DEF FindById
<1> QED
  BY <1>1, <1>2, <1>3, <1>4 DEF CallbackSend

\* An answer adds at most one entry to the strays.
LEMMA AnsweredType ==
    ASSUME NEW thread \in {"callback", "app"}, NEW g \in Gram \cup {NoGram}, NEW a,
           stray \subseteq {"callback", "app"} \X Gram
    PROVE  /\ Answered(thread, g, a) \subseteq {"callback", "app"} \X Gram
           /\ \A e \in Answered(thread, g, a) : e \in stray \/ e = <<thread, g>>
  BY DEF Answered

\* An answer from a callback.
LEMMA CallbackSendPreserves ==
    ASSUME IndInv, CallbackSend
    PROVE  IndInv'
<1>1. stray' \subseteq {"callback", "app"} \X Gram
  BY CallbackFinds, AnsweredType DEF IndInv, TypeOK
<1>2. TypeOK'
  BY <1>1, CallbackFinds DEF IndInv, TypeOK
<1> QED
  BY <1>2, CallbackFinds DEF IndInv, ListFollowsThread, ViewFollowsThread, CallsHaveIds,
     Between, Current, ThreadNeverFaults

\* removeClientInfo finds the client, so the disconnection will name it.
LEMMA RemovePreserves ==
    ASSUME IndInv, Remove
    PROVE  IndInv'
<1>1. /\ pc = "callback" /\ pc' = "removed"
      /\ UNCHANGED <<sent, pending, m_run_thread, clientaddr, clientlen, gram, view, heard,
                     app, stray, fault>>
  BY DEF Remove, netVars, bufferVars, listenerVars
<1>2. m_client_list = {Current} /\ cid \in Id
  BY <1>1 DEF IndInv, ListFollowsThread, Between
<1>3. Current.id = cid
  BY DEF Current
<1>4. FindById(cid) = {Current}
  BY <1>2, <1>3 DEF FindById
<1>5. cid' = cid /\ m_client_list' = {}
  BY <1>2, <1>4 DEF Remove
<1>6. TypeOK'
  BY <1>1, <1>5 DEF IndInv, TypeOK
<1> QED
  BY <1>1, <1>2, <1>5, <1>6 DEF IndInv, ListFollowsThread, ViewFollowsThread, CallsHaveIds,
     ThreadNeverFaults

\* After the disconnection the listener knows nobody.
LEMMA NotifyDisconnectedPreserves ==
    ASSUME IndInv, NotifyDisconnected
    PROVE  IndInv'
<1>1. /\ pc = "removed" /\ pc' = "loop" /\ cid' = NoId
      /\ view' = [i \in Id |-> IF i = cid THEN NoSession ELSE view[i]]
      /\ UNCHANGED <<sent, pending, m_run_thread, clientaddr, clientlen, gram, m_client_list,
                     heard, app, stray, fault>>
  BY DEF NotifyDisconnected, netVars, bufferVars
<1>2. view \in [Id -> Gram \cup {NoGram, NoSession}]
  BY DEF IndInv, TypeOK
<1>3. TypeOK'
  BY <1>1, <1>2 DEF IndInv, TypeOK
<1>4. ViewFollowsThread'
  BY <1>1 DEF IndInv, ViewFollowsThread
<1> QED
  BY <1>1, <1>3, <1>4 DEF IndInv, ListFollowsThread, Between, CallsHaveIds, ThreadNeverFaults

\* The application's call leaves the thread alone; it may end the process.
LEMMA AppPreserves ==
    ASSUME IndInv, (\E i \in Id : AppSendToClient(i)) \/ AppFind \/ AppFindRaces \/ AppSendto
    PROVE  IndInv'
<1> USE DEF netVars, bufferVars, listenerVars
<1> DEFINE AppType == [at : {"idle", "find", "send"}, id : Id \cup {NoId},
                       meant : Gram \cup {NoGram}, addr : Addr \cup {<<>>}]
<1>1. /\ UNCHANGED <<sent, pending, m_run_thread, pc, clientaddr, clientlen, gram, cid,
                     m_client_list, view, heard>>
      /\ (fault' = fault \/ fault' = "app")
  BY DEF AppSendToClient, AppFind, AppFindRaces, AppSendto
<1>2. /\ app \in AppType /\ view \in [Id -> Gram \cup {NoGram, NoSession}]
      /\ m_client_list \subseteq Client /\ stray \subseteq {"callback", "app"} \X Gram
  BY DEF IndInv, TypeOK
<1>3. IdleApp \in AppType
  BY DEF IdleApp
<1>4. app' \in AppType /\ CallsHaveIds' /\ stray' \subseteq {"callback", "app"} \X Gram
  <2>1. ASSUME NEW i \in Id, AppSendToClient(i)
        PROVE  app' \in AppType /\ CallsHaveIds' /\ stray' = stray
    <3>1. view[i] \in Gram \cup {NoGram}
      BY <1>2, <2>1 DEF AppSendToClient
    <3> QED
      BY <1>3, <2>1, <3>1 DEF AppSendToClient, CallsHaveIds, IdleApp
  <2>2. ASSUME AppFind
        PROVE  app' \in AppType /\ CallsHaveIds' /\ stray' = stray
    <3>1. \A c \in FindById(app.id) : c.addr \in Addr
      BY <1>2 DEF FindById, Client
    <3>2. app' = app \/ \E c \in FindById(app.id) :
              app' = [app EXCEPT !.at = "send", !.addr = c.addr]
      BY <2>2 DEF AppFind
    <3>3. app.at = "find" /\ stray' = stray
      BY <2>2 DEF AppFind
    <3> QED
      BY <1>2, <3>1, <3>2, <3>3 DEF IndInv, CallsHaveIds
  <2>3. CASE AppFindRaces
    BY <1>2, <2>3 DEF AppFindRaces, CallsHaveIds, IndInv
  <2>4. ASSUME AppSendto
        PROVE  app' \in AppType /\ CallsHaveIds' /\ stray' \subseteq {"callback", "app"} \X Gram
    <3>1. app' = IdleApp
          /\ stray' = IF pc = "exited" THEN stray ELSE Answered("app", app.meant, app.addr)
      BY <2>4 DEF AppSendto
    <3>2. app.meant \in Gram \cup {NoGram}
      BY <1>2
    <3>3. Answered("app", app.meant, app.addr) \subseteq {"callback", "app"} \X Gram
      BY <1>2, <3>2, AnsweredType
    <3> QED
      BY <1>2, <1>3, <3>1, <3>3 DEF CallsHaveIds, IdleApp
  <2> QED
    BY <1>2, <2>1, <2>2, <2>3, <2>4
<1>5. TypeOK'
  BY <1>1, <1>4 DEF IndInv, TypeOK
<1> QED
  BY <1>1, <1>4, <1>5 DEF IndInv, ListFollowsThread, ViewFollowsThread, Between, Current,
     ThreadNeverFaults

\* The initial state satisfies the inductive invariant.
LEMMA InitEstablishes == Init => IndInv
<1> SUFFICES ASSUME Init PROVE IndInv
  OBVIOUS
<1>1. TypeOK
  <2>1. clientaddr \in Addr
    BY DEF Init, Addr
  <2>2. app \in [at : {"idle", "find", "send"}, id : Id \cup {NoId},
                meant : Gram \cup {NoGram}, addr : Addr \cup {<<>>}]
    BY DEF Init, IdleApp
  <2>3. clientlen \in 0..AddrSize /\ sent \in [Sender -> 0..MaxSend]
    BY ConstantsAssumption DEF Init
  <2>4. view \in [Id -> Gram \cup {NoGram, NoSession}]
    BY DEF Init
  <2> QED
    BY <2>1, <2>2, <2>3, <2>4 DEF Init, TypeOK
<1> QED
  BY <1>1 DEF Init, IndInv, ListFollowsThread, ViewFollowsThread, Between, CallsHaveIds, IdleApp,
     ThreadNeverFaults

\* Every step preserves the inductive invariant.
LEMMA NextPreserves == IndInv /\ [Next]_vars => IndInv'
  BY ControlPreserves, RecvfromPreserves, AddClientPreserves, NotifyConnectedPreserves,
     CallbackSendPreserves, RemovePreserves, NotifyDisconnectedPreserves, AppPreserves
     DEF Next, ThreadStep

\* The inductive invariant holds in every reachable state.
THEOREM Invariance == Spec => []IndInv
  BY InitEstablishes, NextPreserves, PTL DEF Spec

\* Every variable keeps its type.
THEOREM TypeCorrect == Spec => []TypeOK
<1>1. IndInv => TypeOK
  BY DEF IndInv
<1> QED
  BY <1>1, Invariance, PTL

\* The listener knows at most the client of the datagram being handled, and the
\* disconnection that follows names it.
THEOREM SessionsNeverOverlap == Spec => []SessionsDoNotOverlap
<1>1. IndInv => SessionsDoNotOverlap
  <2> SUFFICES ASSUME IndInv PROVE SessionsDoNotOverlap
    OBVIOUS
  <2>1. \A i \in Id : view[i] # NoSession => i = cid /\ view[i] = gram
    BY DEF IndInv, ViewFollowsThread
  <2>2. pc = "removed" => cid \in Id /\ view[cid] = gram
    BY DEF IndInv, ListFollowsThread, ViewFollowsThread, Between
  <2> QED
    BY <2>1, <2>2 DEF SessionsDoNotOverlap
<1> QED
  BY <1>1, Invariance, PTL

\* The client looked up, unchecked, to answer from a callback is always found.
THEOREM ThreadNeverFaultsAlways == Spec => []ThreadNeverFaults
<1>1. IndInv => ThreadNeverFaults
  BY DEF IndInv
<1> QED
  BY <1>1, Invariance, PTL

-----------------------------------------------------------------------------
(* Answers reach the sender when addresses are alike.                      *)

\* A buffer that holds the address of a sender names that sender and no other.
LEMMA ResolveNames ==
    ASSUME AddressesAlike, NEW s \in Sender, NEW a,
           \A p \in 1..Len(AddrOf[s]) : a[p] = AddrOf[s][p]
    PROVE  Resolve(a) = s
<1> DEFINE named == {r \in Sender : /\ AddrOf[r] # <<>>
                                    /\ \A p \in 1..Len(AddrOf[r]) : a[p] = AddrOf[r][p]}
<1>1. s \in named
  BY DEF AddressesAlike
<1>2. ASSUME NEW r \in named PROVE r = s
  <2>1. SUFFICES ASSUME r # s PROVE FALSE
    OBVIOUS
  <2>2. AddrOf[s] # <<>> /\ AddrOf[r] # <<>> /\ Len(AddrOf[s]) = Len(AddrOf[r])
    BY <1>1, <1>2 DEF AddressesAlike
  <2>3. PICK p \in 1..Len(AddrOf[s]) : p <= Len(AddrOf[r]) /\ AddrOf[s][p] # AddrOf[r][p]
    BY <1>2, <2>1, <2>2, ConstantsAssumption
  <2>4. a[p] = AddrOf[s][p] /\ a[p] = AddrOf[r][p]
    BY <1>2, <2>2, <2>3
  <2> QED
    BY <2>3, <2>4
<1>3. named = {s}
  BY <1>1, <1>2
<1> HIDE DEF named
<1>4. (IF named = {} THEN Nobody ELSE CHOOSE r \in named : TRUE) = s
  BY <1>3
<1> QED
  BY <1>4 DEF Resolve, named

\* recvfrom with enough room leaves the whole address of the sender.
LEMMA RecvfromNames ==
    ASSUME AddressesAlike, IndInv, AnswerInv, NEW g \in Gram, Recvfrom(g)
    PROVE  AnswerInv'
<1>1. /\ gram' = g /\ clientaddr' = Overlay(clientaddr, clientlen, AddrOf[g.from])
      /\ clientlen' = Len(AddrOf[g.from]) /\ stray' = stray
  BY DEF Recvfrom
<1>2. g.from \in Sender
  BY DEF Gram
<1>3. \A s \in Sender : Len(AddrOf[s]) \in Nat /\ Len(AddrOf[s]) <= AddrSize
                        /\ Len(AddrOf[s]) = Len(AddrOf[g.from])
  BY <1>2, ConstantsAssumption DEF AddressesAlike
<1>4. \A s \in Sender : clientlen' >= Len(AddrOf[s])
  BY <1>1, <1>3
<1>5. clientlen >= Len(AddrOf[g.from]) /\ clientlen \in Nat
  BY <1>2 DEF AnswerInv, BufferNamesSender, IndInv, TypeOK
<1>6. \A p \in 1..Len(AddrOf[g.from]) : clientaddr'[p] = AddrOf[g.from][p]
  <2>1. TAKE p \in 1..Len(AddrOf[g.from])
  <2>2. p \in 1..AddrSize /\ p <= clientlen /\ p <= Len(AddrOf[g.from])
    BY <1>2, <1>3, <1>5, ConstantsAssumption
  <2> QED
    BY <1>1, <2>2 DEF Overlay
<1> QED
  BY <1>1, <1>4, <1>6 DEF AnswerInv, BufferNamesSender, AnswersReachSender

\* An answer sent while the datagram is handled goes to its sender.
LEMMA CallbackReaches ==
    ASSUME AddressesAlike, IndInv, AnswerInv, CallbackSend
    PROVE  AnswerInv'
<1>1. /\ pc \in {"connected", "callback"} /\ stray' = Answered("callback", gram, clientaddr)
      /\ UNCHANGED <<pc, clientaddr, clientlen, gram>>
  BY CallbackFinds DEF CallbackSend
<1>2. ASSUME gram # NoGram PROVE Resolve(clientaddr) = gram.from /\ AddrOf[gram.from] # <<>>
  <2>1. gram.from \in Sender
    BY <1>2 DEF IndInv, TypeOK, Gram
  <2>2. \A p \in 1..Len(AddrOf[gram.from]) : clientaddr[p] = AddrOf[gram.from][p]
    BY <1>1, <1>2 DEF AnswerInv, BufferNamesSender
  <2> QED
    BY <2>1, <2>2, ResolveNames DEF AddressesAlike
<1>3. stray' = stray
  BY <1>1, <1>2 DEF Answered
<1> QED
  BY <1>1, <1>3 DEF AnswerInv, BufferNamesSender, AnswersReachSender

\* No other step touches the buffer or answers from a callback.
LEMMA OthersReach ==
    ASSUME IndInv, AnswerInv,
           \/ \E s \in Sender : Send(s)
           \/ ThreadStart \/ LoopTest \/ ThreadExit \/ RecvfromFails
           \/ \E i \in Id : AddClient(i)
           \/ NotifyConnected \/ NotifyReceived \/ Remove \/ NotifyDisconnected
           \/ LogHostName \/ Stop
           \/ \E i \in Id : AppSendToClient(i)
           \/ AppFind \/ AppFindRaces \/ AppSendto
           \/ UNCHANGED vars
    PROVE  AnswerInv'
<1> USE DEF netVars, bufferVars, listenerVars
<1>1. /\ UNCHANGED <<clientaddr, clientlen>>
      /\ (gram' = gram \/ gram' = NoGram)
      /\ (pc' \in {"received", "added", "connected", "callback"} /\ gram' # NoGram =>
             pc \in {"received", "added", "connected", "callback"})
  BY DEF Send, ThreadStart, LoopTest, ThreadExit, RecvfromFails, AddClient, NotifyConnected,
         NotifyReceived, Remove, NotifyDisconnected, LogHostName, Stop, AppSendToClient,
         AppFind, AppFindRaces, AppSendto, vars
<1>2. BufferNamesSender'
  BY <1>1 DEF AnswerInv, BufferNamesSender
<1>3. AnswersReachSender'
  <2>1. CASE stray' = stray
    BY <2>1 DEF AnswerInv, AnswersReachSender
  <2>2. CASE AppSendto
    <3>1. stray' = stray \/ stray' = Answered("app", app.meant, app.addr)
      BY <2>2 DEF AppSendto
    <3>2. app.meant \in Gram \cup {NoGram} /\ stray \subseteq {"callback", "app"} \X Gram
      BY DEF IndInv, TypeOK
    <3>3. \A e \in stray' : e \in stray \/ e = <<"app", app.meant>>
      BY <3>1, <3>2, AnsweredType
    <3> QED
      BY <3>3 DEF AnswerInv, AnswersReachSender
  <2> QED
    BY <2>1, <2>2 DEF Send, ThreadStart, LoopTest, ThreadExit, RecvfromFails, AddClient,
       NotifyConnected, NotifyReceived, Remove, NotifyDisconnected, LogHostName, Stop,
       AppSendToClient, AppFind, AppFindRaces, vars
<1> QED
  BY <1>2, <1>3 DEF AnswerInv

\* When all addresses have one length, an answer sent while a datagram is handled
\* goes to the process that sent the datagram: the inet server, and the unix server
\* as long as its clients' paths are equally long.
THEOREM AnswersAlwaysReachSender ==
    ASSUME AddressesAlike
    PROVE  Spec => []AnswersReachSender
<1>1. Init => AnswerInv
  BY ConstantsAssumption DEF Init, AnswerInv, BufferNamesSender, AnswersReachSender
<1>2. IndInv /\ AnswerInv /\ [Next]_vars => AnswerInv'
  BY RecvfromNames, CallbackReaches, OthersReach DEF Next, ThreadStep
<1>3. AnswerInv => AnswersReachSender
  BY DEF AnswerInv
<1> QED
  BY <1>1, <1>2, <1>3, Invariance, PTL DEF Spec
=============================================================================
