------------------------- MODULE RelayServersProofs -------------------------
(***************************************************************************)
(* Proofs about RelayServers, for every number of servers, clients and     *)
(* messages.                                                               *)
(*                                                                         *)
(* The argument: a list is changed by the thread of its own server only,   *)
(* between two callbacks; so what a thread found in its own list is still  *)
(* there when it writes.  A relay visits each client at most once: those   *)
(* it may still visit (Ahead) have not got its message, and a thread       *)
(* relays one message of its clients at a time.                            *)
(***************************************************************************)
EXTENDS RelayServers, SequenceTheorems, TLAPS

TaskType == [op : {"idle", "show", "relay"}, next : Server,
             step : {"begin", "copying", "sending", "finding", "writing"},
             msg : Pairs, copy : SUBSET Client, cand : Client \cup {NoClient}]

\* The clients that the relay of thread s may still write to.
Ahead(s) ==
    {c \in Client : \/ Home[c] > task[s].next
                    \/ task[s].step = "copying" /\ Home[c] = task[s].next
                    \/ task[s].step # "copying" /\ c \in task[s].copy
                    \/ task[s].step \in {"finding", "writing"} /\ c = task[s].cand}

\* Thread s shows the lists; a client that it will free has left its list.
ShowOK(s) ==
    /\ task[s].step = "copying"
    /\ task[s].cand # NoClient => /\ Home[task[s].cand] = s
                                  /\ task[s].cand \notin m_client_list[s]
                                  /\ peer[task[s].cand] = "gone"

\* Thread s relays the last message it took from one of its clients.
RelaysLast(s) ==
    /\ task[s].msg[1] \in Client /\ Home[task[s].msg[1]] = s
    /\ task[s].msg[2] = taken[task[s].msg[1]]

\* The clients of the copy are of one server, and each is looked up once.
CopyOK(s) ==
    /\ task[s].step # "begin"
    /\ task[s].step # "copying" => \A c \in task[s].copy : Home[c] = task[s].next
    /\ task[s].step \in {"finding", "writing"} =>
           /\ task[s].cand \in Client /\ Home[task[s].cand] = task[s].next
           /\ task[s].cand \notin task[s].copy

\* The client found is meant, and still listed if it is the thread's own.
FoundOK(s) ==
    task[s].step = "writing" =>
        /\ Protocol[task[s].cand] = Target(task[s].msg[1])
        /\ task[s].next = s => task[s].cand \in m_client_list[s]

\* The clients ahead have not got the message.
NotYetRelayed(s) ==
    \A c \in Ahead(s) : \A j \in DOMAIN inbox[c] : inbox[c][j] # task[s].msg

TaskOK(s) ==
    /\ task[s].op = "idle" => task[s] = Idle
    /\ task[s].op = "show" => ShowOK(s)
    /\ task[s].op = "relay" => RelaysLast(s) /\ CopyOK(s) /\ FoundOK(s) /\ NotYetRelayed(s)

\* A listed client is connected to this server and not freed.
ListsAreHome ==
    \A s \in Server : \A c \in m_client_list[s] : Home[c] = s /\ peer[c] \in {"up", "gone"}

\* Only messages that were taken are relayed.
InboxTaken ==
    \A c \in Client : \A j \in DOMAIN inbox[c] :
        /\ inbox[c][j][1] \in Client
        /\ inbox[c][j][2] <= taken[inbox[c][j][1]]

IndInv ==
    /\ TypeOK
    /\ \A s \in Server : TaskOK(s)
    /\ ListsAreHome
    /\ InboxTaken
    /\ RelayedInOrder
    /\ OwnListsAreSafe

-----------------------------------------------------------------------------
(* Parts that every step shares.                                           *)

\* The task of a thread that the step is not about.
LEMMA OtherTask ==
    ASSUME IndInv, NEW t \in Server,
           task'[t] = task[t], m_client_list'[t] = m_client_list[t],
           \A c \in Client : Home[c] = t =>
               taken'[c] = taken[c] /\ (peer[c] = "gone" => peer'[c] = "gone"),
           task[t].op = "relay" =>
               \A c \in Client : \A j \in DOMAIN inbox'[c] :
                   inbox'[c][j] = task[t].msg =>
                       \E i \in DOMAIN inbox[c] : inbox[c][i] = task[t].msg
    PROVE  TaskOK(t)'
<1>1. TaskOK(t) /\ task[t] \in TaskType
  BY DEF IndInv, TypeOK, TaskType
<1>2. task[t].op = "show" => ShowOK(t)'
  BY <1>1 DEF TaskOK, ShowOK, TaskType
<1>3. ASSUME task[t].op = "relay"
      PROVE  RelaysLast(t)' /\ CopyOK(t)' /\ FoundOK(t)' /\ NotYetRelayed(t)'
  <2>1. RelaysLast(t) /\ CopyOK(t) /\ FoundOK(t) /\ NotYetRelayed(t)
    BY <1>1, <1>3 DEF TaskOK
  <2>2. RelaysLast(t)'
    BY <2>1 DEF RelaysLast
  <2>3. CopyOK(t)' /\ FoundOK(t)'
    BY <2>1 DEF CopyOK, FoundOK
  <2>4. Ahead(t)' = Ahead(t)
    BY DEF Ahead
  <2>5. \A c \in Ahead(t) : c \in Client
    BY DEF Ahead
  <2>6. NotYetRelayed(t)'
    BY <1>3, <2>1, <2>4, <2>5 DEF NotYetRelayed
  <2> QED
    BY <2>2, <2>3, <2>6
<1>4. task[t].op = "idle" => task'[t] = Idle
  BY <1>1 DEF TaskOK
<1> QED
  BY <1>2, <1>3, <1>4 DEF TaskOK

\* A step that moves one thread only.
LEMMA TaskStep ==
    ASSUME IndInv, NEW s \in Server, task' \in [Server -> TaskType],
           \A t \in Server \ {s} : task'[t] = task[t], TaskOK(s)',
           UNCHANGED <<server_list, peer, sent, taken, m_client_list, inbox, fault>>
    PROVE  IndInv'
<1>1. TypeOK'
  BY DEF IndInv, TypeOK, TaskType
<1>2. \A t \in Server : TaskOK(t)'
  <2>1. ASSUME NEW t \in Server \ {s} PROVE TaskOK(t)'
    BY <2>1, OtherTask
  <2> QED
    BY <2>1
<1>3. ListsAreHome' /\ InboxTaken' /\ RelayedInOrder' /\ OwnListsAreSafe'
  BY DEF IndInv, ListsAreHome, InboxTaken, RelayedInOrder, OwnListsAreSafe, Alive
<1> QED
  BY <1>1, <1>2, <1>3 DEF IndInv

\* The clients and main() leave the threads alone.
LEMMA EnvironmentPreserves ==
    ASSUME IndInv,
           \/ \E c \in Client : Say(c) \/ Hangup(c)
           \/ AssignServerList \/ UNCHANGED vars
    PROVE  IndInv'
<1> USE DEF clientVars
<1>1. UNCHANGED <<taken, m_client_list, task, inbox, fault>>
  BY DEF Say, Hangup, AssignServerList, vars
<1>2. peer \in [Client -> {"absent", "up", "gone", "freed"}] /\ sent \in [Client -> Nat]
  BY DEF IndInv, TypeOK
<1>3. peer' = peer \/ \E c \in Client : peer[c] = "up" /\ peer' = [peer EXCEPT ![c] = "gone"]
  BY DEF Say, Hangup, AssignServerList, vars
<1>4. peer' \in [Client -> {"absent", "up", "gone", "freed"}]
      /\ \A c \in Client : peer'[c] = peer[c] \/ (peer[c] = "up" /\ peer'[c] = "gone")
  BY <1>2, <1>3
<1>5. sent' \in [Client -> Nat] /\ server_list' \in {"empty", "assigning", "set"}
  <2>1. ASSUME NEW c \in Client, Say(c) PROVE sent' \in [Client -> Nat]
    BY <1>2, <2>1 DEF Say
  <2>2. server_list' \in {"empty", "assigning", "set"}
    BY DEF IndInv, TypeOK, Say, Hangup, AssignServerList, vars
  <2> QED
    BY <1>2, <2>1, <2>2 DEF Hangup, AssignServerList, vars
<1>6. TypeOK'
  BY <1>1, <1>4, <1>5 DEF IndInv, TypeOK
<1>7. \A t \in Server : TaskOK(t)'
  <2>1. ASSUME NEW t \in Server PROVE TaskOK(t)'
    BY <1>1, <1>4, OtherTask
  <2> QED
    BY <2>1
<1>8. ListsAreHome'
  BY <1>1, <1>4 DEF IndInv, TypeOK, ListsAreHome
<1>9. InboxTaken' /\ RelayedInOrder' /\ OwnListsAreSafe'
  BY <1>1 DEF IndInv, InboxTaken, RelayedInOrder, OwnListsAreSafe, Alive
<1> QED
  BY <1>6, <1>7, <1>8, <1>9 DEF IndInv

\* What a step of thread s finds in its own task.
LEMMA OwnTask ==
    ASSUME IndInv, NEW s \in Server
    PROVE  /\ task \in [Server -> TaskType] /\ task[s] \in TaskType /\ TaskOK(s)
           /\ task[s].next \in 1..N /\ N \in Nat
  BY RelayAssumption DEF IndInv, TypeOK, TaskType, Server

-----------------------------------------------------------------------------
(* A client comes or goes.                                                 *)

\* A list that changes is met by the threads of other servers only.
LEMMA RaceIsForeign ==
    ASSUME IndInv, NEW s \in Server, task[s].step = "begin", NEW list \in SUBSET Client,
           ChangeList(s, list)
    PROVE  /\ m_client_list' \in [Server -> SUBSET Client] /\ m_client_list'[s] = list
           /\ \A t \in Server \ {s} : m_client_list'[t] = m_client_list[t]
           /\ fault' \in [kind : {"none", "race", "wsi"}, by : 0..N, at : 0..N]
           /\ OwnListsAreSafe'
<1>1. m_client_list' = [m_client_list EXCEPT ![s] = list]
      /\ m_client_list \in [Server -> SUBSET Client]
  BY DEF ChangeList, IndInv, TypeOK
<1>2. CASE fault' = fault
  BY <1>1, <1>2 DEF IndInv, TypeOK, OwnListsAreSafe, Alive
<1>3. ASSUME NEW t \in Readers(s), fault' = [kind |-> "race", by |-> t, at |-> s]
      PROVE  /\ fault' \in [kind : {"none", "race", "wsi"}, by : 0..N, at : 0..N]
             /\ OwnListsAreSafe'
  <2>1. t \in Server /\ t # s
    BY DEF Readers
  <2>2. t \in 0..N /\ s \in 0..N
    BY <2>1, RelayAssumption DEF Server
  <2> QED
    BY <1>3, <2>1, <2>2 DEF OwnListsAreSafe
<1> QED
  BY <1>1, <1>2, <1>3 DEF ChangeList

\* addClientInfo.
LEMMA ConnectedPreserves ==
    ASSUME IndInv, NEW c \in Client, Connected(Home[c], c)
    PROVE  IndInv'
<1> DEFINE s == Home[c]
<1>0. s \in Server
  BY RelayAssumption
<1>1. /\ task[s].op = "idle" /\ task[s].step = "begin" /\ peer[c] = "absent"
      /\ peer' = [peer EXCEPT ![c] = "up"] /\ ChangeList(s, m_client_list[s] \cup {c})
      /\ task' = [task EXCEPT ![s].op = "show", ![s].step = "copying"]
      /\ UNCHANGED <<server_list, sent, taken, inbox>>
  BY DEF Connected, In
<1> HIDE DEF s
<1>2. /\ peer \in [Client -> {"absent", "up", "gone", "freed"}]
      /\ m_client_list \in [Server -> SUBSET Client]
  BY DEF IndInv, TypeOK
<1>3. task \in [Server -> TaskType] /\ task[s] = Idle
  BY <1>0, <1>1, OwnTask DEF TaskOK
<1>4. /\ task' \in [Server -> TaskType] /\ \A t \in Server \ {s} : task'[t] = task[t]
      /\ task'[s].op = "show" /\ task'[s].step = "copying" /\ task'[s].cand = NoClient
  BY <1>0, <1>1, <1>3 DEF TaskType, Idle
<1>5. m_client_list[s] \cup {c} \in SUBSET Client
  BY <1>0, <1>2
<1>6. /\ m_client_list' \in [Server -> SUBSET Client] /\ m_client_list'[s] = m_client_list[s] \cup {c}
      /\ \A t \in Server \ {s} : m_client_list'[t] = m_client_list[t]
      /\ fault' \in [kind : {"none", "race", "wsi"}, by : 0..N, at : 0..N]
      /\ OwnListsAreSafe'
  BY <1>0, <1>1, <1>5, RaceIsForeign
<1>7. /\ peer' \in [Client -> {"absent", "up", "gone", "freed"}] /\ peer'[c] = "up"
      /\ \A d \in Client \ {c} : peer'[d] = peer[d]
  BY <1>1, <1>2
<1>8. TypeOK'
  BY <1>1, <1>4, <1>6, <1>7 DEF IndInv, TypeOK, TaskType
<1>9. \A t \in Server : TaskOK(t)'
  <2>1. TaskOK(s)'
    BY <1>4 DEF TaskOK, ShowOK
  <2>2. ASSUME NEW t \in Server \ {s} PROVE TaskOK(t)'
    BY <1>1, <1>4, <1>6, <1>7, <2>2, OtherTask
  <2> QED
    BY <2>1, <2>2
<1>10. ListsAreHome'
  <2>1. ASSUME NEW t \in Server, NEW d \in m_client_list'[t]
        PROVE  Home[d] = t /\ peer'[d] \in {"up", "gone"}
    <3>1. CASE d = c
      <4>1. t = s
        BY <1>1, <1>6, <2>1, <3>1 DEF IndInv, ListsAreHome
      <4> QED
        BY <1>7, <3>1, <4>1 DEF s
    <3>2. CASE d # c
      BY <1>2, <1>6, <1>7, <2>1, <3>2 DEF IndInv, ListsAreHome
    <3> QED
      BY <3>1, <3>2
  <2> QED
    BY <2>1 DEF ListsAreHome
<1>11. InboxTaken' /\ RelayedInOrder'
  BY <1>1 DEF IndInv, InboxTaken, RelayedInOrder
<1> QED
  BY <1>6, <1>8, <1>9, <1>10, <1>11 DEF IndInv

\* removeClientInfo.
LEMMA DisconnectedPreserves ==
    ASSUME IndInv, NEW s \in Server, NEW c \in Client, Disconnected(s, c)
    PROVE  IndInv'
<1>1. /\ task[s].op = "idle" /\ task[s].step = "begin" /\ peer[c] = "gone"
      /\ c \in m_client_list[s] /\ ChangeList(s, m_client_list[s] \ {c})
      /\ task' = [task EXCEPT ![s].op = "show", ![s].step = "copying", ![s].cand = c]
      /\ UNCHANGED <<server_list, peer, sent, taken, inbox>>
  BY DEF Disconnected, In, clientVars
<1>2. m_client_list \in [Server -> SUBSET Client] /\ Home[c] = s
  BY <1>1 DEF IndInv, TypeOK, ListsAreHome
<1>3. task \in [Server -> TaskType] /\ task[s] = Idle
  BY <1>1, OwnTask DEF TaskOK
<1>4. /\ task' \in [Server -> TaskType] /\ \A t \in Server \ {s} : task'[t] = task[t]
      /\ task'[s].op = "show" /\ task'[s].step = "copying" /\ task'[s].cand = c
  BY <1>1, <1>3 DEF TaskType, Idle
<1>5. m_client_list[s] \ {c} \in SUBSET Client
  BY <1>2
<1>6. /\ m_client_list' \in [Server -> SUBSET Client] /\ m_client_list'[s] = m_client_list[s] \ {c}
      /\ \A t \in Server \ {s} : m_client_list'[t] = m_client_list[t]
      /\ fault' \in [kind : {"none", "race", "wsi"}, by : 0..N, at : 0..N]
      /\ OwnListsAreSafe'
  BY <1>1, <1>5, RaceIsForeign
<1>7. TypeOK'
  BY <1>1, <1>4, <1>6 DEF IndInv, TypeOK, TaskType
<1>8. \A t \in Server : TaskOK(t)'
  <2>1. TaskOK(s)'
    BY <1>1, <1>2, <1>4, <1>6 DEF TaskOK, ShowOK
  <2>2. ASSUME NEW t \in Server \ {s} PROVE TaskOK(t)'
    BY <1>1, <1>4, <1>6, <2>2, OtherTask
  <2> QED
    BY <2>1, <2>2
<1>9. ListsAreHome'
  BY <1>1, <1>6 DEF IndInv, ListsAreHome
<1>10. InboxTaken' /\ RelayedInOrder'
  BY <1>1 DEF IndInv, InboxTaken, RelayedInOrder
<1> QED
  BY <1>6, <1>7, <1>8, <1>9, <1>10 DEF IndInv

\* showClientList goes on to the next server.
LEMMA ShowNextPreserves ==
    ASSUME IndInv, NEW s \in Server, ShowNext(s)
    PROVE  IndInv'
<1>1. /\ task[s].op = "show" /\ task[s].next < N
      /\ task' = [task EXCEPT ![s].next = @ + 1]
      /\ UNCHANGED <<server_list, peer, sent, taken, m_client_list, inbox, fault>>
  BY DEF ShowNext, In, clientVars
<1>2. task[s].next + 1 \in Server
  BY <1>1, OwnTask DEF Server
<1>3. /\ task' \in [Server -> TaskType] /\ \A t \in Server \ {s} : task'[t] = task[t]
      /\ task'[s].op = "show" /\ task'[s].step = task[s].step /\ task'[s].cand = task[s].cand
  <2> DEFINE r == [task[s] EXCEPT !.next = task[s].next + 1]
  <2>1. task \in [Server -> TaskType] /\ task[s] \in TaskType
    BY OwnTask
  <2>2. r \in TaskType /\ r.op = task[s].op /\ r.step = task[s].step /\ r.cand = task[s].cand
    BY <1>2, <2>1 DEF TaskType
  <2>3. task' = [task EXCEPT ![s] = r]
    BY <1>1, <2>1
  <2> HIDE DEF r
  <2> QED
    BY <1>1, <2>1, <2>2, <2>3
<1>4. TaskOK(s)'
  BY <1>1, <1>3, OwnTask DEF TaskOK, ShowOK
<1> QED
  BY <1>1, <1>3, <1>4, TaskStep

\* The connection that is freed is in no list.
LEMMA ShowReturnPreserves ==
    ASSUME IndInv, NEW s \in Server, ShowReturn(s)
    PROVE  IndInv'
<1>1. /\ task[s].op = "show" /\ task' = [task EXCEPT ![s] = Idle]
      /\ peer' = [c \in Client |-> IF c = task[s].cand THEN "freed" ELSE peer[c]]
      /\ UNCHANGED <<server_list, sent, taken, m_client_list, inbox, fault>>
  BY DEF ShowReturn, In
<1>2. Idle \in TaskType
  <2>1. 1 \in Server /\ <<NoClient, 0>> \in Pairs
    BY RelayAssumption DEF Server, Pairs
  <2> QED
    BY <2>1 DEF Idle, TaskType
<1>3. /\ task' \in [Server -> TaskType] /\ \A t \in Server \ {s} : task'[t] = task[t]
      /\ task'[s] = Idle
  BY <1>1, <1>2, OwnTask
<1>4. ShowOK(s) /\ peer \in [Client -> {"absent", "up", "gone", "freed"}]
  BY <1>1, OwnTask DEF TaskOK, IndInv, TypeOK
<1>5. /\ peer' \in [Client -> {"absent", "up", "gone", "freed"}]
      /\ \A c \in Client : c # task[s].cand => peer'[c] = peer[c]
  BY <1>1, <1>4
<1>6. TypeOK'
  BY <1>1, <1>3, <1>5 DEF IndInv, TypeOK, TaskType
<1>7. \A t \in Server : TaskOK(t)'
  <2>1. TaskOK(s)'
    BY <1>3 DEF TaskOK, Idle
  <2>2. ASSUME NEW t \in Server \ {s} PROVE TaskOK(t)'
    <3>1. \A c \in Client : Home[c] = t => c # task[s].cand
      BY <1>4, <2>2, RelayAssumption DEF ShowOK
    <3> QED
      BY <1>1, <1>3, <1>5, <2>2, <3>1, OtherTask
  <2> QED
    BY <2>1, <2>2
<1>8. ListsAreHome'
  <2>1. ASSUME NEW t \in Server, NEW c \in m_client_list[t] PROVE c # task[s].cand /\ c \in Client
    BY <1>4, RelayAssumption DEF ShowOK, IndInv, TypeOK, ListsAreHome
  <2> QED
    BY <1>1, <1>5, <2>1 DEF IndInv, ListsAreHome
<1>9. InboxTaken' /\ RelayedInOrder' /\ OwnListsAreSafe'
  BY <1>1 DEF IndInv, InboxTaken, RelayedInOrder, OwnListsAreSafe, Alive
<1> QED
  BY <1>6, <1>7, <1>8, <1>9 DEF IndInv

-----------------------------------------------------------------------------
(* A client is heard.                                                      *)

\* The message taken is later than all that were relayed of its client.
LEMMA ReceivePreserves ==
    ASSUME IndInv, NEW s \in Server, NEW c \in Client, Receive(s, c)
    PROVE  IndInv'
<1>1. /\ task[s].op = "idle" /\ task[s].step = "begin" /\ c \in m_client_list[s]
      /\ taken' = [taken EXCEPT ![c] = @ + 1]
      /\ UNCHANGED <<server_list, peer, sent, m_client_list, inbox>>
  BY DEF Receive, In
<1>2. /\ taken \in [Client -> Nat] /\ Home[c] = s
      /\ \A d \in Client : \A j \in DOMAIN inbox[d] :
             inbox[d][j][1] \in Client /\ inbox[d][j][2] <= taken[inbox[d][j][1]]
  BY <1>1 DEF IndInv, TypeOK, ListsAreHome, InboxTaken
<1>3. taken' \in [Client -> Nat] /\ taken'[c] = taken[c] + 1
      /\ \A d \in Client \ {c} : taken'[d] = taken[d]
  BY <1>1, <1>2
<1>4. task \in [Server -> TaskType] /\ task[s] = Idle
  BY <1>1, OwnTask DEF TaskOK
<1>5. \/ task' = task
      \/ task' = [task EXCEPT ![s].op = "relay", ![s].step = "copying",
                              ![s].msg = <<c, taken[c] + 1>>]
  BY DEF Receive
<1>6. /\ task' \in [Server -> TaskType] /\ (\A t \in Server \ {s} : task'[t] = task[t])
      /\ \/ task'[s] = Idle
         \/ /\ task'[s].op = "relay" /\ task'[s].step = "copying"
            /\ task'[s].msg = <<c, taken[c] + 1>>
  <2>1. <<c, taken[c] + 1>> \in Pairs
    BY <1>2 DEF Pairs
  <2>2. CASE task' = task
    BY <1>4, <2>2
  <2>3. CASE task' = [task EXCEPT ![s].op = "relay", ![s].step = "copying",
                                  ![s].msg = <<c, taken[c] + 1>>]
    BY <1>4, <2>1, <2>3 DEF TaskType, Idle
  <2> QED
    BY <1>5, <2>2, <2>3
<1>7. fault' \in [kind : {"none", "race", "wsi"}, by : 0..N, at : 0..N] /\ OwnListsAreSafe'
  <2>1. s \in 0..N /\ 0 \in 0..N /\ s # 0
    BY RelayAssumption DEF Server
  <2>2. CASE fault' = fault
    BY <2>2 DEF IndInv, TypeOK, OwnListsAreSafe, Alive
  <2>3. CASE fault' = [kind |-> "race", by |-> s, at |-> 0]
    BY <2>1, <2>3 DEF OwnListsAreSafe
  <2> QED
    BY <2>2, <2>3 DEF Receive
<1>8. TypeOK'
  BY <1>1, <1>3, <1>6, <1>7 DEF IndInv, TypeOK, TaskType
<1>9. TaskOK(s)'
  <2>1. CASE task'[s] = Idle
    BY <2>1 DEF TaskOK, Idle
  <2>2. CASE /\ task'[s].op = "relay" /\ task'[s].step = "copying"
             /\ task'[s].msg = <<c, taken[c] + 1>>
    <3>1. RelaysLast(s)' /\ CopyOK(s)' /\ FoundOK(s)'
      BY <1>2, <1>3, <2>2 DEF RelaysLast, CopyOK, FoundOK
    <3>2. \A d \in Client : \A j \in DOMAIN inbox[d] : inbox[d][j] # <<c, taken[c] + 1>>
      <4>1. SUFFICES ASSUME NEW d \in Client, NEW j \in DOMAIN inbox[d],
                            inbox[d][j] = <<c, taken[c] + 1>>
                     PROVE  FALSE
        OBVIOUS
      <4>2. inbox[d][j][2] <= taken[inbox[d][j][1]]
        BY <1>2
      <4>3. taken[c] + 1 <= taken[c] /\ taken[c] \in Nat
        BY <1>2, <4>1, <4>2
      <4> QED
        BY <4>3
    <3>3. NotYetRelayed(s)'
      BY <1>1, <2>2, <3>2 DEF NotYetRelayed, Ahead
    <3> QED
      BY <2>2, <3>1, <3>3 DEF TaskOK
  <2> QED
    BY <1>6, <2>1, <2>2
<1>10. \A t \in Server : TaskOK(t)'
  <2>1. ASSUME NEW t \in Server \ {s} PROVE TaskOK(t)'
    BY <1>1, <1>2, <1>3, <1>6, <2>1, OtherTask
  <2> QED
    BY <1>9, <2>1
<1>11. InboxTaken'
  <2>1. \A d \in Client : taken[d] \in Nat /\ taken'[d] \in Nat /\ taken[d] <= taken'[d]
    BY <1>2, <1>3
  <2>2. ASSUME NEW d \in Client, NEW j \in DOMAIN inbox[d]
        PROVE  inbox[d][j][1] \in Client /\ inbox[d][j][2] <= taken'[inbox[d][j][1]]
    <3>1. inbox[d][j][2] \in Nat
      BY DEF IndInv, TypeOK, Pairs
    <3> QED
      BY <1>2, <2>1, <3>1
  <2> QED
    BY <1>1, <2>2 DEF InboxTaken
<1>12. ListsAreHome' /\ RelayedInOrder'
  BY <1>1 DEF IndInv, ListsAreHome, RelayedInOrder
<1> QED
  BY <1>7, <1>8, <1>10, <1>11, <1>12 DEF IndInv

\* A relay that keeps its message and only goes forward keeps its task in order.
LEMMA RelayForward ==
    ASSUME IndInv, NEW s \in Server, task[s].op = "relay",
           task'[s].op = "relay", task'[s].msg = task[s].msg,
           UNCHANGED <<taken, inbox>>, Ahead(s)' \subseteq Ahead(s), CopyOK(s)', FoundOK(s)'
    PROVE  TaskOK(s)'
<1>1. RelaysLast(s) /\ NotYetRelayed(s)
  BY OwnTask DEF TaskOK
<1>2. RelaysLast(s)'
  BY <1>1 DEF RelaysLast
<1>3. NotYetRelayed(s)'
  BY <1>1 DEF NotYetRelayed
<1> QED
  BY <1>2, <1>3 DEF TaskOK

\* sendToServer copies the list of one server.
LEMMA SendToServerPreserves ==
    ASSUME IndInv, NEW s \in Server, SendToServer(s)
    PROVE  IndInv'
<1> DEFINE n == task[s].next
           copy == IF Kind[n] = "websocket" THEN m_client_list[n] ELSE {}
<1>1. /\ task[s].op = "relay" /\ task[s].step = "copying"
      /\ task' = [task EXCEPT ![s].step = "sending", ![s].copy = copy]
      /\ UNCHANGED <<server_list, peer, sent, taken, m_client_list, inbox, fault>>
  BY DEF SendToServer, In, clientVars
<1>2. n \in Server /\ m_client_list[n] \subseteq Client /\ \A c \in m_client_list[n] : Home[c] = n
  BY OwnTask DEF IndInv, TypeOK, ListsAreHome, TaskType
<1>3. copy \subseteq Client /\ \A c \in copy : Home[c] = n
  BY <1>2
<1> HIDE DEF copy
<1>4. /\ task' \in [Server -> TaskType] /\ \A t \in Server \ {s} : task'[t] = task[t]
      /\ task'[s].op = "relay" /\ task'[s].step = "sending" /\ task'[s].copy = copy
      /\ task'[s].msg = task[s].msg /\ task'[s].next = n
  <2>1. copy \in SUBSET Client /\ task \in [Server -> TaskType] /\ task[s] \in TaskType
    BY <1>3, OwnTask
  <2>2. task' = [task EXCEPT ![s] = [task[s] EXCEPT !.step = "sending", !.copy = copy]]
    BY <1>1, <2>1 DEF TaskType
  <2>3. [task[s] EXCEPT !.step = "sending", !.copy = copy] \in TaskType
    BY <2>1 DEF TaskType
  <2> QED
    BY <1>1, <2>1, <2>2, <2>3 DEF TaskType
<1>5. Ahead(s)' \subseteq Ahead(s) /\ CopyOK(s)' /\ FoundOK(s)'
  BY <1>1, <1>3, <1>4 DEF Ahead, CopyOK, FoundOK
<1>6. TaskOK(s)'
  BY <1>1, <1>4, <1>5, RelayForward
<1> QED
  BY <1>1, <1>4, <1>6, TaskStep

\* sendToClient takes one client out of the copy.
LEMMA SendToClientPreserves ==
    ASSUME IndInv, NEW s \in Server, NEW c \in Client, SendToClient(s, c)
    PROVE  IndInv'
<1>1. /\ task[s].op = "relay" /\ task[s].step = "sending" /\ c \in task[s].copy
      /\ task' = [task EXCEPT ![s].step = "finding", ![s].cand = c, ![s].copy = @ \ {c}]
      /\ UNCHANGED <<server_list, peer, sent, taken, m_client_list, inbox, fault>>
  BY DEF SendToClient, In, clientVars
<1>2. /\ task' \in [Server -> TaskType] /\ \A t \in Server \ {s} : task'[t] = task[t]
      /\ task'[s].op = "relay" /\ task'[s].step = "finding" /\ task'[s].cand = c
      /\ task'[s].copy = task[s].copy \ {c}
      /\ task'[s].msg = task[s].msg /\ task'[s].next = task[s].next
  BY <1>1, OwnTask DEF TaskType
<1>3. \A d \in task[s].copy : Home[d] = task[s].next
  BY <1>1, OwnTask DEF TaskOK, CopyOK
<1>4. Ahead(s)' \subseteq Ahead(s)
  BY <1>1, <1>2 DEF Ahead
<1>5. CopyOK(s)' /\ FoundOK(s)'
  BY <1>1, <1>2, <1>3 DEF CopyOK, FoundOK
<1>6. TaskOK(s)'
  BY <1>1, <1>2, <1>4, <1>5, RelayForward
<1> QED
  BY <1>1, <1>2, <1>6, TaskStep

\* findClientInfo found the client and its protocol is the one meant, or not.
LEMMA FindDonePreserves ==
    ASSUME IndInv, NEW s \in Server, FindDone(s)
    PROVE  IndInv'
<1> DEFINE c == task[s].cand
           hit == c \in m_client_list[task[s].next] /\ Protocol[c] = Target(task[s].msg[1])
<1>1. /\ task[s].op = "relay" /\ task[s].step = "finding"
      /\ task' = [task EXCEPT ![s].step = IF hit THEN "writing" ELSE "sending"]
      /\ UNCHANGED <<server_list, peer, sent, taken, m_client_list, inbox, fault>>
  BY DEF FindDone, In, clientVars
<1>2. /\ task' \in [Server -> TaskType] /\ \A t \in Server \ {s} : task'[t] = task[t]
      /\ task'[s].op = "relay" /\ task'[s].cand = task[s].cand /\ task'[s].copy = task[s].copy
      /\ task'[s].msg = task[s].msg /\ task'[s].next = task[s].next
      /\ \/ hit /\ task'[s].step = "writing"
         \/ task'[s].step = "sending"
  <2> HIDE DEF hit
  <2>1. CASE hit
    BY <1>1, <2>1, OwnTask DEF TaskType
  <2>2. CASE ~hit
    BY <1>1, <2>2, OwnTask DEF TaskType
  <2> QED
    BY <2>1, <2>2
<1>3. CopyOK(s)
  BY <1>1, OwnTask DEF TaskOK
<1>4. Ahead(s)' \subseteq Ahead(s)
  BY <1>1, <1>2 DEF Ahead
<1>5. CopyOK(s)'
  BY <1>1, <1>2, <1>3 DEF CopyOK
<1>6. FoundOK(s)'
  BY <1>1, <1>2 DEF FoundOK
<1>7. TaskOK(s)'
  BY <1>1, <1>2, <1>4, <1>5, <1>6, RelayForward
<1> QED
  BY <1>1, <1>2, <1>7, TaskStep

\* The next server, or the end of the callback.
LEMMA NextServerPreserves ==
    ASSUME IndInv, NEW s \in Server, NextServer(s)
    PROVE  IndInv'
<1>1. /\ task[s].op = "relay" /\ task[s].step = "sending" /\ task[s].copy = {}
      /\ UNCHANGED <<server_list, peer, sent, taken, m_client_list, inbox, fault>>
  BY DEF NextServer, In, clientVars
<1>2. CASE task[s].next = N
  <2>1. task' = [task EXCEPT ![s] = Idle]
    BY <1>2 DEF NextServer
  <2>2. Idle \in TaskType
    <3>1. 1 \in Server /\ <<NoClient, 0>> \in Pairs
      BY RelayAssumption DEF Server, Pairs
    <3> QED
      BY <3>1 DEF Idle, TaskType
  <2>3. task' \in [Server -> TaskType] /\ task'[s] = Idle
        /\ \A t \in Server \ {s} : task'[t] = task[t]
    BY <2>1, <2>2, OwnTask
  <2>4. TaskOK(s)'
    BY <2>3 DEF TaskOK, Idle
  <2> QED
    BY <1>1, <2>3, <2>4, TaskStep
<1>3. CASE task[s].next # N
  <2>1. task' = [task EXCEPT ![s].step = "copying", ![s].next = @ + 1, ![s].cand = NoClient]
    BY <1>3 DEF NextServer
  <2>2. task[s].next + 1 \in Server /\ task[s].next \in Nat
    BY <1>3, OwnTask DEF Server
  <2>3. /\ task' \in [Server -> TaskType] /\ \A t \in Server \ {s} : task'[t] = task[t]
        /\ task'[s].op = "relay" /\ task'[s].step = "copying"
        /\ task'[s].msg = task[s].msg /\ task'[s].next = task[s].next + 1
    BY <1>1, <2>1, <2>2, OwnTask DEF TaskType
  <2>4. \A c \in Client : Home[c] \in Int
    BY RelayAssumption DEF Server
  <2>5. Ahead(s)' \subseteq Ahead(s)
    BY <2>2, <2>3, <2>4 DEF Ahead
  <2>6. CopyOK(s)' /\ FoundOK(s)'
    BY <2>3 DEF CopyOK, FoundOK
  <2>7. TaskOK(s)'
    BY <1>1, <2>3, <2>5, <2>6, RelayForward
  <2> QED
    BY <1>1, <2>3, <2>7, TaskStep
<1> QED
  BY <1>2, <1>3

\* An inbox that grows by the message thread s relays keeps the order.
LEMMA WriteInOrder ==
    ASSUME IndInv, NEW s \in Server, task[s].op = "relay", task[s].step = "writing",
           inbox' = [inbox EXCEPT ![task[s].cand] = Append(@, task[s].msg)],
           UNCHANGED taken
    PROVE  /\ inbox' \in [Client -> Seq(Pairs)]
           /\ \A d \in Client : \A j \in DOMAIN inbox'[d] :
                  \/ j \in DOMAIN inbox[d] /\ inbox'[d][j] = inbox[d][j]
                  \/ d = task[s].cand /\ inbox'[d][j] = task[s].msg
           /\ InboxTaken' /\ RelayedInOrder'
<1> DEFINE c == task[s].cand
           m == task[s].msg
<1>1. RelaysLast(s) /\ CopyOK(s) /\ FoundOK(s) /\ NotYetRelayed(s) /\ m \in Pairs
  BY OwnTask DEF TaskOK, TaskType
<1>2. c \in Client /\ c \in Ahead(s) /\ Protocol[c] = Target(m[1])
  BY <1>1 DEF CopyOK, FoundOK, Ahead
<1>3. m[1] \in Client /\ m[2] = taken[m[1]]
  BY <1>1 DEF RelaysLast
<1>4. \A j \in DOMAIN inbox[c] : inbox[c][j] # m
  BY <1>1, <1>2 DEF NotYetRelayed
<1>5. inbox' = [inbox EXCEPT ![c] = Append(@, m)] /\ inbox \in [Client -> Seq(Pairs)]
  BY DEF IndInv, TypeOK
<1> HIDE DEF c, m
<1>6. /\ inbox'[c] = Append(inbox[c], m) /\ inbox[c] \in Seq(Pairs)
      /\ \A d \in Client \ {c} : inbox'[d] = inbox[d]
  BY <1>2, <1>5
<1>7. /\ inbox'[c] \in Seq(Pairs) /\ DOMAIN inbox[c] = 1..Len(inbox[c]) /\ Len(inbox[c]) \in Nat
      /\ DOMAIN inbox'[c] = 1..(Len(inbox[c]) + 1) /\ inbox'[c][Len(inbox[c]) + 1] = m
      /\ \A j \in 1..Len(inbox[c]) : inbox'[c][j] = inbox[c][j]
  BY <1>1, <1>6
<1>8. inbox' \in [Client -> Seq(Pairs)]
  BY <1>1, <1>5, <1>7
<1>9. \A j \in DOMAIN inbox'[c] : \/ j \in DOMAIN inbox[c] /\ inbox'[c][j] = inbox[c][j]
                                  \/ j = Len(inbox[c]) + 1 /\ inbox'[c][j] = m
  BY <1>7
<1>10. InboxTaken'
  <2>1. ASSUME NEW d \in Client, NEW j \in DOMAIN inbox'[d]
        PROVE  inbox'[d][j][1] \in Client /\ inbox'[d][j][2] <= taken[inbox'[d][j][1]]
    <3>1. CASE d = c
      <4>1. m[2] <= taken[m[1]]
        BY <1>1, <1>3 DEF Pairs
      <4> QED
        BY <1>3, <1>9, <2>1, <3>1, <4>1 DEF IndInv, InboxTaken
    <3>2. CASE d # c
      BY <1>6, <2>1, <3>2 DEF IndInv, InboxTaken
    <3> QED
      BY <3>1, <3>2
  <2> QED
    BY <2>1 DEF InboxTaken
<1>11. RelayedInOrder'
  <2>1. ASSUME NEW d \in Client \ {c}, NEW j \in DOMAIN inbox'[d]
        PROVE  /\ Target(inbox'[d][j][1]) = Protocol[d]
               /\ \A i \in 1..(j - 1) : inbox'[d][i][1] = inbox'[d][j][1] =>
                                            inbox'[d][i][2] < inbox'[d][j][2]
    BY <1>6, <2>1 DEF IndInv, RelayedInOrder
  <2>2. ASSUME NEW j \in DOMAIN inbox[c]
        PROVE  /\ Target(inbox'[c][j][1]) = Protocol[c]
               /\ \A i \in 1..(j - 1) : inbox'[c][i][1] = inbox'[c][j][1] =>
                                            inbox'[c][i][2] < inbox'[c][j][2]
    <3>1. j \in 1..Len(inbox[c]) /\ \A i \in 1..(j - 1) : i \in 1..Len(inbox[c])
      BY <1>7, <2>2
    <3>2. inbox'[c][j] = inbox[c][j] /\ \A i \in 1..(j - 1) : inbox'[c][i] = inbox[c][i]
      BY <1>7, <3>1
    <3> QED
      BY <1>2, <2>2, <3>2 DEF IndInv, RelayedInOrder
  <2>3. ASSUME NEW i \in 1..Len(inbox[c]), inbox[c][i][1] = m[1]
        PROVE  inbox[c][i][2] < m[2]
    <3>1. i \in DOMAIN inbox[c] /\ inbox[c][i] \in Pairs /\ inbox[c][i] # m
      BY <1>4, <1>6, <1>7, <2>3
    <3>2. inbox[c][i][2] <= m[2]
      BY <1>2, <1>3, <2>3, <3>1 DEF IndInv, InboxTaken
    <3>3. inbox[c][i][2] # m[2] /\ inbox[c][i][2] \in Nat /\ m[2] \in Nat
      BY <1>1, <2>3, <3>1 DEF Pairs
    <3> QED
      BY <3>2, <3>3
  <2>4. ASSUME NEW j \in DOMAIN inbox'[c], j = Len(inbox[c]) + 1
        PROVE  /\ Target(inbox'[c][j][1]) = Protocol[c]
               /\ \A i \in 1..(j - 1) : inbox'[c][i][1] = inbox'[c][j][1] =>
                                            inbox'[c][i][2] < inbox'[c][j][2]
    <3>1. inbox'[c][j] = m /\ 1..(j - 1) = 1..Len(inbox[c])
      BY <1>7, <2>4
    <3> QED
      BY <1>2, <1>7, <2>3, <3>1
  <2>5. ASSUME NEW d \in Client, NEW j \in DOMAIN inbox'[d]
        PROVE  /\ Target(inbox'[d][j][1]) = Protocol[d]
               /\ \A i \in 1..(j - 1) : inbox'[d][i][1] = inbox'[d][j][1] =>
                                            inbox'[d][i][2] < inbox'[d][j][2]
    <3>1. CASE d = c
      <4>1. CASE j \in DOMAIN inbox[c]
        BY <2>2, <3>1, <4>1
      <4>2. CASE j = Len(inbox[c]) + 1
        BY <2>4, <2>5, <3>1, <4>2
      <4> QED
        BY <1>9, <2>5, <3>1, <4>1, <4>2
    <3>2. CASE d # c
      BY <2>1, <2>5, <3>2
    <3> QED
      BY <3>1, <3>2
  <2> QED
    BY <2>5 DEF RelayedInOrder
<1>12. \A d \in Client : \A j \in DOMAIN inbox'[d] :
           \/ j \in DOMAIN inbox[d] /\ inbox'[d][j] = inbox[d][j]
           \/ d = c /\ inbox'[d][j] = m
  BY <1>6, <1>9
<1> QED
  BY <1>8, <1>10, <1>11, <1>12 DEF c, m

\* lws_write to a client found; a freed connection is never the thread's own.
LEMMA WritePreserves ==
    ASSUME IndInv, NEW s \in Server, Write(s)
    PROVE  IndInv'
<1> DEFINE c == task[s].cand
<1>1. /\ task[s].op = "relay" /\ task[s].step = "writing"
      /\ task' = [task EXCEPT ![s].step = "sending"]
      /\ UNCHANGED <<server_list, peer, sent, taken, m_client_list>>
  BY DEF Write, In, clientVars
<1>2. /\ task' \in [Server -> TaskType] /\ \A t \in Server \ {s} : task'[t] = task[t]
      /\ task'[s].op = "relay" /\ task'[s].step = "sending" /\ task'[s].copy = task[s].copy
      /\ task'[s].msg = task[s].msg /\ task'[s].next = task[s].next
  BY <1>1, OwnTask DEF TaskType
<1>3. RelaysLast(s) /\ CopyOK(s) /\ FoundOK(s) /\ NotYetRelayed(s)
  BY <1>1, OwnTask DEF TaskOK
<1>4. c \in Client /\ Home[c] = task[s].next /\ c \notin task[s].copy
  BY <1>1, <1>3 DEF CopyOK
<1>5. Ahead(s)' \subseteq Ahead(s) /\ c \notin Ahead(s)' /\ \A d \in Ahead(s)' : d \in Client
  <2>1. ~(Home[c] > task[s].next)
    BY <1>4, OwnTask
  <2> QED
    BY <1>1, <1>2, <1>4, <2>1 DEF Ahead
<1>6. CopyOK(s)' /\ FoundOK(s)' /\ RelaysLast(s)'
  BY <1>1, <1>2, <1>3 DEF CopyOK, FoundOK, RelaysLast
<1>7. ListsAreHome'
  BY <1>1 DEF IndInv, ListsAreHome
<1>8. CASE peer[c] = "freed"
  <2>1. inbox' = inbox /\ fault' = [kind |-> "wsi", by |-> s, at |-> task[s].next]
    BY <1>8 DEF Write
  <2>2. task[s].next # s
    BY <1>1, <1>3, <1>8 DEF FoundOK, IndInv, ListsAreHome
  <2>3. OwnListsAreSafe' /\ fault' \in [kind : {"none", "race", "wsi"}, by : 0..N, at : 0..N]
    <3>1. s \in 0..N /\ task[s].next \in 0..N
      BY OwnTask DEF Server
    <3> QED
      BY <2>1, <2>2, <3>1 DEF OwnListsAreSafe
  <2>4. TypeOK'
    BY <1>1, <1>2, <2>1, <2>3 DEF IndInv, TypeOK, TaskType
  <2>5. TaskOK(s)'
    BY <1>1, <1>2, <1>5, <1>6, <2>1, RelayForward
  <2>6. ASSUME NEW t \in Server \ {s} PROVE TaskOK(t)'
    BY <1>1, <1>2, <2>1, <2>6, OtherTask
  <2>7. InboxTaken' /\ RelayedInOrder'
    BY <1>1, <2>1 DEF IndInv, InboxTaken, RelayedInOrder
  <2> QED
    BY <1>7, <2>3, <2>4, <2>5, <2>6, <2>7 DEF IndInv
<1>9. CASE peer[c] # "freed"
  <2>1. inbox' = [inbox EXCEPT ![c] = Append(@, task[s].msg)] /\ fault' = fault
    BY <1>9 DEF Write
  <2>2. /\ inbox' \in [Client -> Seq(Pairs)]
        /\ \A d \in Client : \A j \in DOMAIN inbox'[d] :
               \/ j \in DOMAIN inbox[d] /\ inbox'[d][j] = inbox[d][j]
               \/ d = c /\ inbox'[d][j] = task[s].msg
        /\ InboxTaken' /\ RelayedInOrder'
    BY <1>1, <2>1, WriteInOrder
  <2>3. TypeOK' /\ OwnListsAreSafe'
    BY <1>1, <1>2, <2>1, <2>2 DEF IndInv, TypeOK, TaskType, OwnListsAreSafe, Alive
  <2>4. TaskOK(s)'
    <3>1. NotYetRelayed(s)'
      BY <1>2, <1>3, <1>5, <2>2 DEF NotYetRelayed
    <3> QED
      BY <1>2, <1>6, <3>1 DEF TaskOK
  <2>5. ASSUME NEW t \in Server \ {s} PROVE TaskOK(t)'
    <3>1. task[t].op = "relay" => task[t].msg # task[s].msg
      BY <1>3, <2>5, OwnTask DEF TaskOK, RelaysLast
    <3>2. task[t].op = "relay" =>
              \A d \in Client : \A j \in DOMAIN inbox'[d] :
                  inbox'[d][j] = task[t].msg =>
                      \E i \in DOMAIN inbox[d] : inbox[d][i] = task[t].msg
      BY <2>2, <3>1
    <3> QED
      BY <1>1, <1>2, <2>5, <3>2, OtherTask
  <2> QED
    BY <1>7, <2>2, <2>3, <2>4, <2>5 DEF IndInv
<1> QED
  BY <1>8, <1>9

-----------------------------------------------------------------------------
(* The invariant and what follows from it.                                 *)

\* The initial state satisfies the inductive invariant.
LEMMA InitEstablishes == Init => IndInv
<1> SUFFICES ASSUME Init PROVE IndInv
  OBVIOUS
<1>1. TypeOK
  <2>1. Idle \in TaskType
    <3>1. 1 \in Server /\ <<NoClient, 0>> \in Pairs
      BY RelayAssumption DEF Server, Pairs
    <3> QED
      BY <3>1 DEF Idle, TaskType
  <2>2. <<>> \in Seq(Pairs)
    OBVIOUS
  <2>3. inbox \in [Client -> Seq(Pairs)] /\ task \in [Server -> TaskType]
    BY <2>1, <2>2 DEF Init
  <2>4. fault \in [kind : {"none", "race", "wsi"}, by : 0..N, at : 0..N]
    BY RelayAssumption DEF Init, NoFault
  <2> QED
    BY <2>3, <2>4 DEF Init, TypeOK, TaskType
<1>2. \A s \in Server : TaskOK(s)
  BY DEF Init, TaskOK, Idle
<1>3. ListsAreHome /\ OwnListsAreSafe
  BY DEF Init, ListsAreHome, OwnListsAreSafe, Alive
<1>4. \A c \in Client : DOMAIN inbox[c] = {}
  BY DEF Init
<1>5. InboxTaken /\ RelayedInOrder
  BY <1>4 DEF InboxTaken, RelayedInOrder
<1> QED
  BY <1>1, <1>2, <1>3, <1>5 DEF IndInv

\* Every step preserves the inductive invariant.
LEMMA NextPreserves == IndInv /\ [Next]_vars => IndInv'
<1> SUFFICES ASSUME IndInv, [Next]_vars PROVE IndInv'
  OBVIOUS
<1>1. CASE \/ \E c \in Client : Say(c) \/ Hangup(c)
           \/ AssignServerList \/ UNCHANGED vars
  BY <1>1, EnvironmentPreserves
<1>2. CASE \E c \in Client : Connected(Home[c], c)
  BY <1>2, ConnectedPreserves
<1>3. CASE \E s \in Server : ThreadStep(s)
  BY <1>3, ShowNextPreserves, ShowReturnPreserves, ReceivePreserves, DisconnectedPreserves,
     SendToServerPreserves, SendToClientPreserves, FindDonePreserves, WritePreserves,
     NextServerPreserves DEF ThreadStep
<1> QED
  BY <1>1, <1>2, <1>3 DEF Next

\* The inductive invariant holds in every reachable state.
THEOREM Invariance == Spec => []IndInv
  BY InitEstablishes, NextPreserves, PTL DEF Spec

\* Every variable keeps its type.
THEOREM TypeCorrect == Spec => []TypeOK
<1>1. IndInv => TypeOK
  BY DEF IndInv
<1> QED
  BY <1>1, Invariance, PTL

\* A thread is never hurt at the list or the connections of its own server.
THEOREM OwnListsAlwaysSafe == Spec => []OwnListsAreSafe
<1>1. IndInv => OwnListsAreSafe
  BY DEF IndInv
<1> QED
  BY <1>1, Invariance, PTL

\* Each client gets what its counterparts said, once and in the order of each sender,
\* however the threads of the servers interleave.
THEOREM AlwaysRelayedInOrder == Spec => []RelayedInOrder
<1>1. IndInv => RelayedInOrder
  BY DEF IndInv
<1> QED
  BY <1>1, Invariance, PTL
=============================================================================
