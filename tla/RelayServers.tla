---------------------------- MODULE RelayServers ----------------------------
(***************************************************************************)
(* Several servers in one process and the relay application on top of      *)
(* them.  Every server has a thread of its own, which runs the callbacks   *)
(* of its clients through ServerFactory and AnyServerImpl into the         *)
(* listener.  The callbacks reach across: ServerFactory::showClientList    *)
(* copies the client lists of all servers whenever a client comes or goes, *)
(* and the relay sends what one client said to the clients of every        *)
(* server.  None of the lists has a lock.                                  *)
(*                                                                         *)
(* A server is reduced to what ClientSessions promises of it: clients come *)
(* once, are heard in order and go once.  A client stands for its          *)
(* ClientInfo, whose id is not given to another while a copy refers to it. *)
(***************************************************************************)
EXTENDS Integers, Sequences

CONSTANTS
    N,        \* the servers in m_servers
    Kind,     \* Kind[s]: "websocket", or "plain" for every other server
    Client,   \* the clients that may connect
    Home,     \* Home[c]: the server c connects to
    Protocol, \* Protocol[c]: the path c asks a websocket server for
    NoClient, \* no client
    MaxSend,  \* bound: MaxSend[c]: messages that c sends
    Leaver    \* bound: the clients that may hang up

Server == 1..N

ASSUME RelayAssumption ==
    /\ N \in Nat \ {0}
    /\ Kind \in [Server -> {"websocket", "plain"}]
    /\ Home \in [Client -> Server]
    /\ Protocol \in [Client -> STRING]
    /\ NoClient \notin Client
    /\ MaxSend \in [Client -> Nat]
    /\ Leaver \subseteq Client

VARIABLES
    server_list,   \* the application's copy of the server list: "empty", "assigning", "set"
    peer,          \* peer[c]: "absent", "up", "gone" (hung up), "freed" (closed by the server)
    sent,          \* sent[c]: messages c has sent
    taken,         \* taken[c]: messages of c that were received
    m_client_list, \* m_client_list[s]: BaseServer::m_client_list of server s
    task,          \* task[s]: the callback that the thread of server s is in
    inbox,         \* inbox[c]: what was relayed to c, pairs of a client and a number
    fault          \* what ended the process, by which thread, at which server's list

vars == <<server_list, peer, sent, taken, m_client_list, task, inbox, fault>>
clientVars == <<peer, sent, taken>>

NoFault == [kind |-> "none", by |-> 0, at |-> 0]
Idle == [op |-> "idle", next |-> 1, step |-> "begin", msg |-> <<NoClient, 0>>,
         copy |-> {}, cand |-> NoClient]

Init ==
    /\ server_list = "empty"
    /\ peer = [c \in Client |-> "absent"]
    /\ sent = [c \in Client |-> 0]
    /\ taken = [c \in Client |-> 0]
    /\ m_client_list = [s \in Server |-> {}]
    /\ task = [s \in Server |-> Idle]
    /\ inbox = [c \in Client |-> <<>>]
    /\ fault = NoFault

Alive == fault = NoFault
In(s, op, step) == Alive /\ task[s].op = op /\ task[s].step = step

\* Threads that walk or copy the client list of server s.
Readers(s) ==
    {t \in Server : task[t].step \in {"copying", "finding"} /\ task[t].next = s}

\* A list that is changed under a reader is undefined: the process ends, or not.
ChangeList(s, list) ==
    /\ m_client_list' = [m_client_list EXCEPT ![s] = list]
    /\ \/ UNCHANGED fault
       \/ \E t \in Readers(s) : fault' = [kind |-> "race", by |-> t, at |-> s]

-----------------------------------------------------------------------------
(* The clients, and main().                                                *)

Say(c) ==
    /\ Alive /\ peer[c] = "up" /\ sent[c] < MaxSend[c]
    /\ sent' = [sent EXCEPT ![c] = @ + 1]
    /\ UNCHANGED <<server_list, peer, taken, m_client_list, task, inbox, fault>>

Hangup(c) ==
    /\ Alive /\ peer[c] = "up" /\ c \in Leaver
    /\ peer' = [peer EXCEPT ![c] = "gone"]
    /\ UNCHANGED <<server_list, sent, taken, m_client_list, task, inbox, fault>>

\* server_list = any_server->getServerList(), after start() has returned: the
\* servers' threads run already.
AssignServerList ==
    /\ Alive /\ server_list # "set"
    /\ server_list' = IF server_list = "empty" THEN "assigning" ELSE "set"
    /\ UNCHANGED <<clientVars, m_client_list, task, inbox, fault>>

-----------------------------------------------------------------------------
(* A client comes or goes.                                                 *)

\* addClientInfo, and ServerFactory::onClientConnected begins.
Connected(s, c) ==
    /\ In(s, "idle", "begin") /\ Home[c] = s /\ peer[c] = "absent"
    /\ peer' = [peer EXCEPT ![c] = "up"]
    /\ ChangeList(s, m_client_list[s] \cup {c})
    /\ task' = [task EXCEPT ![s].op = "show", ![s].step = "copying"]
    /\ UNCHANGED <<server_list, sent, taken, inbox>>

\* Mutant: the client stays in the list.
DisconnectedKept(s, c) ==
    /\ In(s, "idle", "begin") /\ peer[c] = "gone" /\ c \in m_client_list[s]
    /\ task' = [task EXCEPT ![s].op = "show", ![s].step = "copying", ![s].cand = c]
    /\ UNCHANGED <<server_list, clientVars, m_client_list, inbox, fault>>

\* removeClientInfo, and ServerFactory::onClientDisconnected begins.
Disconnected(s, c) ==
    /\ In(s, "idle", "begin") /\ peer[c] = "gone" /\ c \in m_client_list[s]
    /\ ChangeList(s, m_client_list[s] \ {c})
    /\ task' = [task EXCEPT ![s].op = "show", ![s].step = "copying", ![s].cand = c]
    /\ UNCHANGED <<server_list, clientVars, inbox>>

\* showClientList: getClientInfoList of one server after the other.
ShowNext(s) ==
    /\ In(s, "show", "copying") /\ task[s].next < N
    /\ task' = [task EXCEPT ![s].next = @ + 1]
    /\ UNCHANGED <<server_list, clientVars, m_client_list, inbox, fault>>

\* The last list is copied.  The listener only prints; back in the server, a
\* closed connection is freed.
ShowReturn(s) ==
    /\ In(s, "show", "copying") /\ task[s].next = N
    /\ peer' = [c \in Client |-> IF c = task[s].cand THEN "freed" ELSE peer[c]]
    /\ task' = [task EXCEPT ![s] = Idle]
    /\ UNCHANGED <<server_list, sent, taken, m_client_list, inbox, fault>>

-----------------------------------------------------------------------------
(* A client is heard: AnyServerListener::onReceive of the relay.           *)

\* The protocol whose clients get what c says.  The servers without protocols
\* call the other onReceive.
Target(c) ==
    IF Kind[Home[c]] = "plain" THEN "test_b"
    ELSE CASE Protocol[c] = "sender" -> "receiver"
           [] Protocol[c] = "receiver" -> "sender"
           [] OTHER -> ""

\* The loop over server_list begins: it ends at once before main() has assigned
\* the list, and is undefined while it does.
Receive(s, c) ==
    /\ In(s, "idle", "begin") /\ c \in m_client_list[s] /\ taken[c] < sent[c]
    /\ taken' = [taken EXCEPT ![c] = @ + 1]
    /\ task' = IF server_list # "set" THEN task
               ELSE [task EXCEPT ![s].op = "relay", ![s].step = "copying",
                                 ![s].msg = <<c, taken[c] + 1>>]
    /\ \/ UNCHANGED fault
       \/ /\ server_list = "assigning"
          /\ fault' = [kind |-> "race", by |-> s, at |-> 0]
    /\ UNCHANGED <<server_list, peer, sent, m_client_list, inbox>>

\* Mutant: only the clients of the thread's own server get the message.
SendToOwnServer(s) ==
    /\ In(s, "relay", "copying")
    /\ task' = [task EXCEPT ![s].step = "sending",
                            ![s].copy = IF task[s].next = s THEN m_client_list[s] ELSE {}]
    /\ UNCHANGED <<server_list, clientVars, m_client_list, inbox, fault>>

\* ServerFactory::sendToServer has copied the clients of the server with this id.
\* Only the websocket server has a sendToClient that takes a protocol, the others
\* inherit one that sends nothing.
SendToServer(s) ==
    /\ In(s, "relay", "copying")
    /\ LET n == task[s].next IN
         task' = [task EXCEPT ![s].step = "sending",
                              ![s].copy = IF Kind[n] = "websocket" THEN m_client_list[n]
                                          ELSE {}]
    /\ UNCHANGED <<server_list, clientVars, m_client_list, inbox, fault>>

\* sendToClient of the next client in the copy: findClientInfo walks the list.
SendToClient(s, c) ==
    /\ In(s, "relay", "sending") /\ c \in task[s].copy
    /\ task' = [task EXCEPT ![s].step = "finding", ![s].cand = c,
                            ![s].copy = @ \ {c}]
    /\ UNCHANGED <<server_list, clientVars, m_client_list, inbox, fault>>

\* Mutant: the protocol is not compared.
FindAnyProtocol(s) ==
    /\ In(s, "relay", "finding")
    /\ task' = [task EXCEPT ![s].step =
          IF task[s].cand \in m_client_list[task[s].next] THEN "writing" ELSE "sending"]
    /\ UNCHANGED <<server_list, clientVars, m_client_list, inbox, fault>>

\* It found the client, or nobody; the protocol is compared.
FindDone(s) ==
    /\ In(s, "relay", "finding")
    /\ LET c == task[s].cand
           hit == c \in m_client_list[task[s].next] /\ Protocol[c] = Target(task[s].msg[1])
       IN task' = [task EXCEPT ![s].step = IF hit THEN "writing" ELSE "sending"]
    /\ UNCHANGED <<server_list, clientVars, m_client_list, inbox, fault>>

\* lws_write to the wsi of the client found.  It is taken to be one step that threads
\* of several servers may make for one wsi, and harmless unless the wsi was freed;
\* libwebsockets itself promises that only to the thread that serves the wsi.
Write(s) ==
    /\ In(s, "relay", "writing")
    /\ LET c == task[s].cand IN
         IF peer[c] = "freed"
           THEN /\ fault' = [kind |-> "wsi", by |-> s, at |-> task[s].next]
                /\ UNCHANGED inbox
           ELSE /\ inbox' = [inbox EXCEPT ![c] = Append(@, task[s].msg)]
                /\ UNCHANGED fault
    /\ task' = [task EXCEPT ![s].step = "sending"]
    /\ UNCHANGED <<server_list, clientVars, m_client_list>>

\* Mutant: the loop leaves a server out and runs past the end.
NextServerSkips(s) ==
    /\ In(s, "relay", "sending") /\ task[s].copy = {}
    /\ task' = IF task[s].next = N THEN [task EXCEPT ![s] = Idle]
               ELSE [task EXCEPT ![s].step = "copying", ![s].next = @ + N]
    /\ UNCHANGED <<server_list, clientVars, m_client_list, inbox, fault>>

\* The next server of server_list; after the last one the callback returns.
NextServer(s) ==
    /\ In(s, "relay", "sending") /\ task[s].copy = {}
    /\ task' = IF task[s].next = N THEN [task EXCEPT ![s] = Idle]
               ELSE [task EXCEPT ![s].step = "copying", ![s].next = @ + 1,
                                 ![s].cand = NoClient]
    /\ UNCHANGED <<server_list, clientVars, m_client_list, inbox, fault>>

-----------------------------------------------------------------------------
ThreadStep(s) ==
    \/ ShowNext(s) \/ ShowReturn(s)
    \/ \E c \in Client : Receive(s, c) \/ Disconnected(s, c)
    \/ SendToServer(s)
    \/ \E c \in Client : SendToClient(s, c)
    \/ FindDone(s) \/ Write(s) \/ NextServer(s)

Next ==
    \/ \E c \in Client : Say(c) \/ Hangup(c) \/ Connected(Home[c], c)
    \/ AssignServerList
    \/ \E s \in Server : ThreadStep(s)

Spec == Init /\ [][Next]_vars

\* Threads are scheduled, main()'s included.  No client has to come, to say
\* something or to go.
FairSpec ==
    /\ Spec
    /\ WF_vars(AssignServerList)
    /\ \A s \in Server : WF_vars(ThreadStep(s))

-----------------------------------------------------------------------------
(* Properties.                                                             *)

Pairs == (Client \cup {NoClient}) \X Nat

\* Every variable keeps its type.
TypeOK ==
    /\ server_list \in {"empty", "assigning", "set"}
    /\ peer \in [Client -> {"absent", "up", "gone", "freed"}]
    /\ sent \in [Client -> Nat] /\ taken \in [Client -> Nat]
    /\ m_client_list \in [Server -> SUBSET Client]
    /\ task \in [Server -> [op : {"idle", "show", "relay"}, next : Server,
                            step : {"begin", "copying", "sending", "finding", "writing"},
                            msg : Pairs, copy : SUBSET Client,
                            cand : Client \cup {NoClient}]]
    /\ inbox \in [Client -> Seq(Pairs)]
    /\ fault \in [kind : {"none", "race", "wsi"}, by : 0..N, at : 0..N]

\* What a thread does with the list and the connections of its own server is
\* safe, although the callbacks nest in its loop: only the thread of another server
\* meets a list that changes under it or writes to a connection that is freed.
OwnListsAreSafe == ~Alive => fault.by # fault.at

\* A client gets what its counterpart said (main.cpp: "Sender to Receiver",
\* "Receiver to Sender"), each message at most once and those of one sender in the
\* order in which they were said, whatever the threads of other servers relay.
RelayedInOrder ==
    \A c \in Client : \A j \in DOMAIN inbox[c] :
        /\ Target(inbox[c][j][1]) = Protocol[c]
        /\ \A i \in 1..(j - 1) :
               inbox[c][i][1] = inbox[c][j][1] => inbox[c][i][2] < inbox[c][j][2]

\* d is a client that what c says is meant for.
Counterparts(c, d) == Kind[Home[d]] = "websocket" /\ Protocol[d] = Target(c)

\* What a client says once the application has its list of servers reaches every
\* client it is meant for, on whichever server, that is connected and stays; unless
\* the sender itself leaves before its message is read, or a race on another
\* server's list or wsi has ended the process.
MessagesAreRelayed ==
    \A pair \in {p \in Client \X Client : Counterparts(p[1], p[2])} :
        LET c == pair[1]
            d == pair[2]
        IN  \A n \in 1..MaxSend[c] :
              (/\ server_list = "set" /\ taken[c] < n /\ n <= sent[c] /\ peer[c] = "up"
               /\ d \in m_client_list[Home[d]])
                  ~> \/ \E i \in DOMAIN inbox[d] : inbox[d][i] = <<c, n>>
                     \/ peer[c] # "up" \/ peer[d] # "up" \/ ~Alive
=============================================================================
