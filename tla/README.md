# anyserver in TLA+

anyserver is a C++ library that runs several servers in one process (inet and
unix stream servers, inet and unix datagram servers, a WebSocket server and an
HTTP server on libwebsockets) and reports clients and data to a listener. This
directory holds TLA+ models of it, TLC configurations, and TLAPS proofs.
Paths below are relative to `src/anyserver/src` unless they say otherwise.

## 1. Inventory

| Component | State it keeps | Operations | Talks to |
|---|---|---|---|
| Stream servers (`inet_/unix_domainsocket_tcp_server`) | `m_client_list`, `m_run_thread`, listening and epoll descriptors | `init start stop sendToClient`, the epoll thread | kernel, listener |
| Datagram servers (`inet_/unix_domainsocket_udp_server`) | the same, and the thread's address buffer with its length | the same, with a thread around `recvfrom` | kernel, listener |
| WebSocket and HTTP servers (`websocket_/http_tcp_server`) | `m_client_list` (with a wsi in each entry), a static context, HTTP: a static body string | `init start stop sendToClient`, the service thread and its callback | libwebsockets, listener |
| `BaseServerImpl` | client list, listener list | add, remove, find a client; `NOTIFY_*` macros | the servers above |
| `ServerFactory` | `m_servers`, configuration | `init start stop sendToServer sendToClient`, forwards callbacks, echo test | servers, `AnyServerImpl` |
| `AnyServerImpl` | `m_server_factory`, `m_run`, listeners | `init start stop isRun`, sends, signal forwarding | factory, interceptor, application |
| `PosixSignalInterceptor` | previous and current handlers | install, raise, restore | kernel, `AnyServerImpl` |
| `Configuration` | the parsed JSON | `init` | factory |
| `Logger`, file system helper | log files, levels, a mutex | print, rotate | everybody |
| `AnyServer` | the singleton | `getInstance`, `getServerList` | application |
| Examples (`src/example`) | the application's listener | `main`, callbacks | `AnyServer` |

There is one thread per server, main(), and whatever threads the application
has. No client list is protected by a lock. A signal handler runs `stop()` on
whichever thread the kernel picks.

What is hard, and what makes each component correct:

* *Stream servers.* Descriptor numbers are reused as soon as they are closed,
  and `close(fd)` comes before the client leaves the list; events are handled in
  batches; another thread may send meanwhile. Correct means that a descriptor,
  a list entry and an announced session always name the same connection.
* *Datagram servers.* `recvfrom`'s address length is a value-result argument.
  Correct means that an answer reaches the sender.
* *libwebsockets servers.* A closing connection causes two callbacks, the wsi is
  freed after them, HTTP bodies of all connections share one string, and an answer
  ends the HTTP transaction. Correct means that no entry outlives its wsi, each
  client gets its own messages, and a session ends once.
* *Life cycle.* `stop()` is concurrent with `start()` and with itself and joins
  a thread. Correct means that stopping ends and stops, and that a thread is joined
  once. At exit the servers are stopped again and deleted while their threads may
  run: no joined server may be deleted under its thread.
* *Several servers.* Each server's thread runs the callbacks of its clients, and
  these read the client lists of all servers and write to their clients. Correct
  means that messages reach whom they are meant for, in order, and that the
  missing locks hurt only across servers.
* *Logger.* Any thread logs, and so do signal handlers on top of a thread that is
  logging; `localtime`'s result is shared by all of them, without the mutex. Correct
  means that the file is open while it is written to, that logs are bounded and
  survive the next one, and that calls return.
* *Listener contract.* Sessions open once, receive in order, close once.

`PROJECT.json` lists every hazard with its line and the property that would
catch it; a hazard without a property has a note.

## 2. Modules

| Module | Models |
|---|---|
| `ClientSessions` | abstract: what `IAnyServerListener` is told about one server |
| `TcpServer` | the two stream servers, the client list, senders in other threads |
| `UdpServer` | the two datagram servers |
| `LwsServer` | the WebSocket and the HTTP server |
| `AnyServerLifecycle` | init, start, stop, signals, server threads, main(), deletion at exit |
| `RelayServers` | composition: several servers, `ServerFactory`'s routing and the relay application |
| `Logger` | logging to files, by threads and by signal handlers |
| `TcpServerProofs` | theorems about `TcpServer` |
| `TcpSessionsProofs` | `TcpServer` implements `ClientSessions` |
| `UdpServerProofs` | theorems about `UdpServer` |
| `LwsServerProofs` | theorems about `LwsServer` |
| `LwsSessionsProofs` | `LwsServer` implements `ClientSessions` |
| `AnyServerLifecycleProofs` | theorems about `AnyServerLifecycle` |
| `RelayServersProofs` | theorems about `RelayServers` |
| `LoggerProofs` | theorems about `Logger` |
| `MC*` | the instances TLC checks |

The three server modules keep the listener's knowledge explicitly: `view[i]` is
the connection (or datagram) the listener associates with client id `i`; `got[i]`,
or `heard`, what it received.

Definitions marked "Mutant" are not part of a specification: each is a plausible
mistake in the code, and replacing the definition after it by the mutant makes a
property of a run fail (`mutants` in `PROJECT.json`). No module declares a
RECURSIVE operator, so each can be proved about.

### TcpServer

`pc` is the place of the epoll thread: `created` (before it raises
`m_run_thread`), `loop` (handling the rest of `batch`, or testing the flag),
`wait` (in `epoll_wait`), `added` (after `addClientInfo`, before
`NOTIFY_CLIENT_CONNECTED`), `closed` (after `close`, before `removeClientInfo`),
`removed` (before `NOTIFY_CLIENT_DISCONNECTED`), `callback` (inside a listener),
`exited`. Each action is the code between two such places. `fdTab` is the
process's descriptor table: free, one of our connections, or held by another
part of the process (`Foreign`). `app` is a call of `sendToClient` or
`sendToServer` made by another thread: the targets left, the copied list, whose
`shared_ptr`s keep ids from being reused, and the client just found.
Bytes are numbered per connection, so loss, reordering and misdelivery show.
`Domain` tells the two servers apart; they differ in what happens to the
listening socket at the end of the thread.

Three outcomes end the process: a null pointer used by the epoll thread
(`thread`), one used by the application's thread, or its walk over the list
while the epoll thread erases from it (`app`), and `SIGPIPE`, which the code
deliberately does not intercept (`sigpipe`). The properties say that the first never
happens; the other two do, and no text in the repository promises otherwise.

### UdpServer

An address is a sequence of cells; `Overlay` is what `recvfrom` writes into
`clientaddr` given the room `clientlen` allows, `Resolve` is whom a buffer names.
`Junk` is the uninitialised buffer. `stray` keeps the answers that went to
somebody other than the sender they were meant for. `AddrOf` gives the inet run addresses of the
buffer's size, the unix runs paths of different lengths and an unbound
sender. A failed receive is passed on as a datagram (`NoGram`).

`DebugBuild` is CONFIG_DEBUG: only then are the arguments of `LOG_DEBUG` evaluated,
and a failed `gethostbyaddr` then ends the process, although the line before
treats it as worth a warning (`LogHostName`). `DatagramsAreHeard` excuses
three things by name and nothing else: `stop()`, the application thread's race with the
removal of a client, and, in a debug build, this crash.

### LwsServer

libwebsockets is external: its steps (`WsAccept`, `BeginClose`, `CloseDone`, the
choice of the next callback) are those that the callbacks rely on; the two close
callbacks may come in either order. Every callback begins with the test of
`m_run_thread`, so that after `stop()` the remaining callbacks do nothing.
`missing[k]` counts the pieces of a request's body still to come.
`Overlap` says whether a second request may begin before the first is complete.

Both close callbacks call `removeClientInfo` and announce what it returned. The
first one ends the session; the second one finds nothing and announces id 0, and so does
the only one of a WebSocket handshake that failed. `unknown[k]` counts these
announcements. They are steps of `ClientSessions` (`CloseUnknown`), not stuttering.

An answer of the HTTP server ends with `lws_http_transaction_completed`. When a
callback answers a client that is in the middle of its request, that ends the
request: the rest of its body is not read as a body (`missing` becomes -1), and
what came of it stays in the static string until the headers of the next request
empty it. `AnswerEarly` says whether callbacks do so. The examples do not: they
answer from `onReceive`, when a request is complete, or relay between clients of
WebSocket servers.

### AnyServerLifecycle

Thread 0 is main(), thread `n` that of server `n`. `stopper[c]` is the `stop()`
run by the handler of signal `c`, with the thread it runs on, the server it has
reached and how far start() had come. A thread with a handler on it is
suspended; handlers nest. `pthread_join` returns an error for the calling
thread and for a thread that joins the caller (EDEADLK) and for a thread with
another joiner (EINVAL), as glibc's does; for a thread never created or already
joined it is undefined and may crash.
`m_server_factory` is set by no constructor, so it starts as null or as garbage
(`Uninitialized`), and init() tells success from it.

Both examples keep what `getServerList` returns in a static list, whose pointers
own the servers a second time. When main() returns after its loop, exit() destroys
that list: server after server, the destructor calls `stop()` again and the server
is deleted, while the other threads still run. This is call 0 of `stopper`, on
thread 0; `Deleted(n)` holds of the servers it is done with. A thread that reads the
flag of a deleted server, or a handler that stops one, may crash or see anything
(`Use`). If init() or start() failed, the list is empty and nothing is deleted.
Nothing deletes the `AnyServer` instance, so the destructors of `AnyServerImpl`,
`ServerFactory` and `PosixSignalInterceptor` never run.

The destructor's `stop()` joins the WebSocket thread again, which the first `stop()`
has joined already: undefined, on every orderly shutdown. `JoinsGoWrongOnlyAtExit`
says that, with one `stop()` after `start()`, this is the only join that goes wrong, and that
nothing of the WebSocket servers runs any more by then but the thread the signal
was handled on.
An epoll_wait is interrupted by a handler on its thread, `recvfrom` restarts
(`std::signal` installs with SA_RESTART).

### RelayServers

Each server is reduced to its thread, its client list and what `ClientSessions`
promises of its clients; `task[s]` is the callback that the thread of server `s`
is in. Connecting and disconnecting change the list and then copy the lists of
all servers (`showClientList`); a message starts the relay's loop over
`server_list`, and `sendToServer` copies one list, looks each client of the copy
up and writes to those with the target protocol. The reads are intervals
(`copying`, `finding`): a change of the list by its own thread meanwhile is
undefined, and so is a write to a connection that is freed (`fault` names the
thread and the list). `server_list` is assigned by main() after start(), when the
threads already run: before that a message is relayed to nobody.
Only a WebSocket server has a `sendToClient` with a protocol; the others inherit
one that sends nothing. The echo server's listener relays in the same way.

One assumption is about libwebsockets: `lws_write` to one wsi from the threads of
several servers is atomic, unless the wsi is freed. libwebsockets does not promise it
(`lws_write` belongs on the thread that serves the context, and nothing in the code
keeps it there), so `RelayedInOrder` is about whole messages, not about what two
interleaved writes would put on the wire.

`OwnListsAreSafe` says what the missing locks do not endanger: a thread and its own
server's clients. That another server's thread may crash the process, as the
model shows, is a hazard of the design (`server_factory.cpp:193`); no sentence in
the repository promises otherwise.

### Logger

`calls[t]` is the stack of calls thread `t` is in: a signal handler's call lies on top
of the one it interrupted, which continues after it. A call first reads the clock and calls
`localtime` (`getDate`, for the prefix of its message), then takes the mutex
and writes, or creates a file: `time`, `localtime`, the name, and `fopen` are
four steps, and the clock may advance between any two. `m_log_filename` is the second in
the name, `m_log_fp` that of the open file. `fopen` with "w+" empties a file of the same name and may fail.
A call that finds no open file creates one and does not write its message. The
size of a file is counted in messages, and `stat` of the open file is taken to
succeed. Calls that log nothing to a file (level off, `enable_filewrite` off,
built without `CONFIG_DEBUG`) change no state and are left out.

`localtime` returns one static `struct tm`, `tm` in the model, which `getDate` fills
without the mutex. The name made from it may therefore be that of what another call read from
the clock, or, when `localtime` is writing while the name is made, have fields of several
times (`Fields`; a `Minute` of two seconds gives the struct two fields that
can disagree). A call that creates a log may therefore empty the log of an earlier
second. What holds is `PastLogsAreKept`: only a log whose name can be made of what calls
still under way have read is emptied, so older logs are safe. The log of the
present second is lost when it fills up within it.

The mutex is not recursive, so a handler that logs on the thread that holds it
waits for ever (`SelfBlocked`); `CallsReturn` states that nothing else blocks a call.

### Refinement

`SessionsSpec` in `TcpServer` and `LwsServer` states that each implements
`ClientSessions`. `view` and `got` map to themselves. `opened` is computed in
`TcpServer` from the peers, the queue and the thread's place (`Announced`) and is
a history variable in `LwsServer`. Because `ClientSessions!Receive` appends the next
bytes of the session's own connection, the refinement rules out bytes that
are lost, doubled, swapped, or delivered under another client's id. `UnknownLimit` is how
many disconnections of an id that names nobody a connection may cause, after its session
has ended: none for the stream servers, one for the libwebsockets servers. So a session
that ends twice, or a third announcement, is a violation too.
A `UdpServer` session carries one datagram and the listener is called once
for it, so its invariant `SessionsDoNotOverlap` says it directly.

## 3. Runs

Every run passes `CHECK_DEADLOCK FALSE`: peers may fall silent, a stopped server
may rest, and a process that ended takes no step.

| Run | Configuration | Shows |
|---|---|---|
| `tcp_safety` | `MCTcpServer.cfg` | descriptors, list and sessions agree; the thread uses no null pointer; answers reach their owner; `ClientSessions` is implemented |
| `tcp_liveness` | `MCTcpServerLive.cfg` | bytes, hang-ups and connections reach the listener |
| `udp_inet` | `MCUdpInet.cfg` | answers reach the sender; one client at a time; the thread uses no null client; every datagram is handed on, unless a debug build crashes on a failed lookup |
| `lifecycle` | `MCLifecycle.cfg` | a first init() means what it says; a single late stop() waits for the WebSocket thread and joins it once, so that joins go wrong only at exit; no WebSocket server is deleted under its thread; stopping ends, whatever threads two signals are handled on |
| `websocket_safety` | `MCWebsocket.cfg` | no entry outlives its wsi; `ClientSessions` is implemented, with one disconnection of id 0 per connection |
| `http` | `MCHttp.cfg` | with requests that do not overlap, and answers in the middle of one: no invalid pointer; a client's bodies are its own, in order and not doubled; hang-ups are announced |
| `relay` | `MCRelay.cfg` | messages reach their protocol, once, in order, on whichever server; what is undefined happens only across servers |
| `logger` | `MCLogger.cfg` | the file is open while it is used; logs are bounded; only logs that calls under way can name are emptied; calls return |

Four runs look for a violation, each of a sentence in the repository
(`findings` in `PROJECT.json` quotes it):

| Run | What TLC shows |
|---|---|
| `udp_unix_answers` | `clientlen` is not reset: after a sender with a shorter address, the next one's is cut off and the answer goes elsewhere |
| `lifecycle_retry` | init() after a failed init() returns true |
| `lifecycle_stop` | a stop() is lost before the thread raises its flag, and does not wake a thread that waits without a timeout |
| `http_overlap` | bodies of overlapping requests mix in the static string |

Four more defects are in the models, and a passing property is stated around each:
it holds with the defect named as its exception, and fails without.

| Defect | Where | The property, and what it still says |
|---|---|---|
| each closing WebSocket or HTTP connection announces a disconnection of id 0 besides its own, a failed handshake only that one | `websocket_tcp_server.cpp:314`, `330`, `http_tcp_server.cpp:230`, `277` | `SessionsSpec` with `UnknownLimit <- 1` (with 0 it fails): no second one, and none during the session |
| the destructor at exit joins the WebSocket thread again | `websocket_tcp_server.cpp:178` | `JoinsGoWrongOnlyAtExit`: no other join goes wrong after one late `stop()` |
| a debug build crashes on a sender without a name | `inet_domainsocket_udp_server.cpp:118` | `DatagramsAreHeard`: nothing else ends the receiving thread |
| a new log may get the name of an earlier one, and empty it, because `getDate` of another call has overwritten the `struct tm` | `logger.cpp:69`, `128-136` | `PastLogsAreKept`: only logs of seconds that calls under way have read |

### Bounds

* `tcp_safety`: two connections over two descriptors, with other parts of the
  process taking descriptors too (`MaxForeign = 2`): numbers are exhausted,
  closed and reused, by our next connection or by a stranger. Two connections
  of two bytes with a one-byte buffer: several reads per client. Batches of two
  events, so one event is handled after another changed the table. Three ids:
  reuse, and one left when the application holds another. One
  failed accept. Connections, descriptors and ids are symmetric.
* `tcp_liveness`: one event per `epoll_wait`, the case in which a ready
  descriptor can be passed over. No symmetry.
* `udp_*`: three senders, one datagram each: in the unix run a long address
  after a short one and after none, in every order; the inet run adds loss and
  failing receives.
* `lifecycle`: a server for each way to wait (`epoll_wait`, `lws_service` with its
  timeout, `recvfrom`), the joined one in the middle, two signals at any moment on any
  threads, one repeated init(). One WebSocket server, as
  `src/anyserver/anyserver.json:6` demands: with three and three signals handled
  on their threads, joins could form a cycle. The HTTP server adds nothing here: it
  waits like the WebSocket server and is stopped like the others.
* `relay`: the two servers that `anyserver.json` enables. The WebSocket server has a
  sender, its receiver and a client for what the other server's client says, so
  that a relay picks one of three; one message stays within a server, two cross.
  All but the sender may leave, at any moment. The liveness property is instantiated
  for the pairs that speak to each other.
* `logger`: two threads, an interrupting handler on either, five messages, three
  seconds in two minutes and files of one message and the one that
  closes them: enough for a log to fill up, for a second one to be created under a
  call that read the clock seconds before, and for a name to be mixed from two
  minutes. Handlers that interrupt handlers are left to the
  proofs, which cover the safety properties.
* `websocket_safety`: three connections over two descriptors, so that a
  descriptor is reused; `http`: two connections, bodies of two pieces, of
  which one may be left over in the string when the request is answered.

### Fairness

* A thread is scheduled: `WF(ThreadStep)`, `WF(MainStep)`, `WF(ServerStep(n))`,
  `WF(StopStep(c))`, `WF(StopDone(c))`, `WF(GetDate(t) \/ SaveLogfile(t))`; main() assigns its list:
  `WF(AssignServerList)`. The actions of peers, clients, signals and the
  application have no fairness.
* The kernel's ready list is a queue, so a descriptor that stays ready is
  reported: `SF(EpollWait /\ f \in batch')`. A socket's datagrams are first in,
  first out: `SF(Recvfrom(g))`. lws polls all its sockets: `SF(BeginClose(k))` for a
  peer that is gone.
* `lws_service` returns after its timeout (part of `ServerStep`); `epoll_wait(-1)`
  and `recvfrom` need a client (`ClientArrives`, without fairness).

A write is assumed to return: a peer that never reads could block the thread.

## 4. Proofs

Every safety property that a passing run checks but `BodiesAreOwn`, and both
refinements, are also theorems, proved for every value of the constants that the module's named `ASSUME`
admits. Each proof module has the same shape: an inductive invariant `IndInv`, a
conjunction of named parts; a lemma for each action, or for actions that change
the same things, with a step per part it could disturb; the theorem that `IndInv`
always holds; and the properties, read off `IndInv`. Lemmas that say what a kind of
step may do (`StopStepPreserves`, `TaskStep`, `ControlPreserves`) are stated
once and cited by the actions of that kind.

### TcpServerProofs

For every set of connections, descriptors and ids, every
batch and buffer size and both domains, from `ConstantsAssumption` (the special
values differ from each other and from connections, descriptors and ids; sizes are
positive):

| Theorem | States |
|---|---|
| `InvariantHolds` | `Spec => []IndInv` |
| `TypeCorrect` | `Spec => []TypeOK` |
| `DescriptorsMatchClients` | `Spec => []FdsMatchClients` |
| `EpollThreadNeverFaults` | `Spec => []ThreadNeverFaults` |
| `DisconnectsNameClients` | `Spec => []DisconnectNamesClient` |
| `CallbackSendsAreDelivered` | `Spec => []CallbackSendsReachOwner` |
| `LiveClientsAreReachable` | `Spec => []LiveClientsStayReachable` |

None of the properties is inductive alone. That the thread finds a client for an
event needs that the event is not stale (`BatchIsReady`: a descriptor in the rest
of the batch still belongs to a connection, because only its own event
closes it) and that each such descriptor has an entry (`FdsMatchClients`). That an answer
from a callback reaches its owner needs that the listener knows exactly the
listed clients, except the one just being added or removed
(`ListenerKnowsClients`, `CurIsClient`), that ids and descriptors are unique
(`UniqueIds`, `UniqueFds`), and that a listed client's peer has been
accepted (`ClientsHavePeers`, `BacklogHasPeers`). The claim about concurrent
senders needs that they send to connections that once existed (`AppKnowsPeers`);
it holds because a descriptor is closed only after its peer is gone
(`LiveClientsHaveFds`).

### TcpSessionsProofs

`ImplementsSessions`: `Spec => SessionsSpec`. Three steps are visible to the
listener: `NotifyConnected`, `Read` and `NotifyDisconnected` map to `Open` (or
`OpenNobody`), `Receive` and `Close` of `ClientSessions`, all others to stuttering. That a
read delivers the *next* bytes needs that a session has received exactly what
was taken from its connection (`SessionsHaveTaken`), and that nothing was taken
from a connection before it was announced (`UnannouncedUntouched`).

### LwsServerProofs and LwsSessionsProofs

For both servers and every set of connections, descriptors, ids and messages:

| Theorem | States |
|---|---|
| `Invariance` | `Spec => []IndInv` |
| `TypeCorrect` | `Spec => []TypeOK` |
| `ClientsAlwaysHaveOpenWsi` | `Spec => []ClientsHaveOpenWsi` |
| `ThreadNeverFaultsAlways` | `Spec => []ThreadNeverFaults` |
| `ImplementsSessions` | `RequestsAreSeparate` implies `Spec => SessionsSpec` |

The callbacks do nothing once `m_run_thread` is low, so the list is then left with
entries of freed wsis; the agreement of list, open wsis and the listener's
knowledge (`ListMatches`) therefore holds while the server is `Serving`: until
`stop()`, and until the end of a listener's callback that was running then. Of the
connection being closed the first of the two close callbacks removes the
entry, whichever it is; `left` tells. That a connection causes at most one
announcement of an unknown id, and none while it has a session, needs that a failed
handshake has one callback only (`FailedHandshakeClosesOnce`) and that only the
last callback of a connection finds no entry (`UnknownIsLast`).
The refinement has one hypothesis, `RequestsAreSeparate` (the WebSocket server, or an
HTTP server whose clients do not send at the same time and are answered when their
request is complete): the static body string is shared and survives an answer,
and without the hypothesis the refinement fails, as `http_overlap` shows for
overlapping requests. Under it the string holds
exactly the pieces taken from the one request under way (`BodyIsPending`). The
theorem is also the only check of the refinement for the HTTP server: the run `http`
has early answers and checks `BodiesAreOwn` in its place.

### UdpServerProofs

For any senders, ids and address lengths:

| Theorem | States |
|---|---|
| `Invariance` | `Spec => []IndInv` |
| `TypeCorrect` | `Spec => []TypeOK` |
| `SessionsNeverOverlap` | `Spec => []SessionsDoNotOverlap` |
| `ThreadNeverFaultsAlways` | `Spec => []ThreadNeverFaults` |
| `AnswersAlwaysReachSender` | `AddressesAlike` implies `Spec => []AnswersReachSender` |

The list and the listener's view are functions of the thread's place
(`ListFollowsThread`, `ViewFollowsThread`). The hypothesis `AddressesAlike` (every
address is non-empty and all have one length) describes the inet server,
whose addresses are all a `struct sockaddr_in`; for addresses of different lengths
the run `udp_unix_answers` refutes the property. With it `clientlen` never falls
below the next address, and the buffer names the sender (`BufferNamesSender`).

### RelayServersProofs

For any servers, clients, protocols and messages:

| Theorem | States |
|---|---|
| `Invariance` | `Spec => []IndInv` |
| `TypeCorrect` | `Spec => []TypeOK` |
| `OwnListsAlwaysSafe` | `Spec => []OwnListsAreSafe` |
| `AlwaysRelayedInOrder` | `Spec => []RelayedInOrder` |

A list is changed by its own thread only, between callbacks, so what a thread found
in its own list is still there when it writes (`FoundOK`). That nothing is relayed
twice needs the clients a relay may still come to (`Ahead`: those of later
servers, the rest of the copy, the one just looked up) and that none of them has got
the message (`NotYetRelayed`); the order needs that a thread relays the last message
it took (`RelaysLast`) and that inboxes hold only messages taken (`InboxTaken`).

### AnyServerLifecycleProofs

For any number of servers of any kinds in any order (several WebSocket servers
too), any number of signals and repeated init() calls:

| Theorem | States |
|---|---|
| `Invariance` | `Spec => []IndInv` |
| `TypeCorrect` | `Spec => []TypeOK` |
| `FirstInitAlwaysInitializes` | `Spec => []FirstInitMeansInitialized` |
| `StopAlwaysWaitsForWebsockets` | `Spec => []StopWaitsForWebsockets` |
| `JoinsAlwaysRightBeforeExit` | `Spec => []JoinsGoWrongOnlyAtExit` |
| `DeletedWebsocketsAlwaysQuiet` | `Spec => []DeletedWebsocketsAreQuiet` |

What a returned `stop()` guarantees follows from what a running one has passed
(`LonePassed`): every WebSocket server before the one it has reached is joined,
if no other signal was handled. `JoinFinds` is the core: a lone `stop()`
finds a thread that was created (handlers are installed only after every server was
created, `InitProgress`, and the signal came after start(), `SignalsHandled`), that
nobody joined (whoever joined it is an active call further on, `JoinedPassed`), and
is refused only by its own thread. The destructors run only after some `stop()`
has returned (`ExitFollowsStop`); so if they meet a waiting joiner, there are two
signals, and if they meet a joined thread, it has ended.

### LoggerProofs

For every set of threads, every file size, any number of messages, signals
and seconds, and minutes of any length, from `LoggerAssumption`:

| Theorem | States |
|---|---|
| `Invariance` | `Spec => []IndInv` |
| `TypeCorrect` | `Spec => []TypeOK` |
| `FileSafety` | `Spec => []FileStaysOpen` |
| `LogBound` | `Spec => []LogsStayBounded` |
| `PastLogs` | `Spec => PastLogsAreKept` |

That the file stays open needs that the mutex is held by the thread of the one
call past the lock (`Exclusive`), a handler's call on the same thread included.
That a log stays bounded needs that an open log has room, unless the call that
filled it has still to look at its size (`OpenLogHasRoom`), and that the size looked
at is that of the open log (`NameOfOpenLog`). `PastLogs` needs that the
`struct tm`, and then the name, come from calls that are still under way
(`NamesInUse`): whoever overwrote the `struct tm` meanwhile waits for the mutex.

### Only model-checked

The liveness properties (`BytesAreDelivered`, `HangupsAreAnnounced`,
`ConnectionsAreAnnounced`, `DatagramsAreHeard`, `LateStopEndsProcess`,
`MessagesAreRelayed`, `CallsReturn`): fairness and ENABLED are out of the prover's
reach. `BytesAreDelivered` and `MessagesAreRelayed` excuse the end of the process
(`SIGPIPE`, the application's unlocked use of a list, another server's thread), as their
comments say. `BodiesAreOwn` with early answers is model-checked only. Of these `LateStopEndsProcess` is claimed for one WebSocket server only, see the
bounds above.

## 5. Not modelled

* Listeners added or removed while callbacks run: no code in the repository
  removes one.
* The echo server's own table of clients, which the threads of all servers change
  without a lock.
* `addProtocols` (its names point into a list that is gone when it returns) and the
  TLS settings.
* JSON parsing: a configuration is the list of enabled servers, whether
  security is on, or a failure.
* A write that blocks because a client does not read.
* `AnyServer::getInstance`, and the destructors that never run.
* libwebsockets and the JSON library, beyond what the callbacks see.

## 6. Plan

1. Proofs: `AnswersReachSender` under weaker hypotheses than `AddressesAlike` (an order
   of senders whose addresses do not grow), and the safety half of
   `LateStopEndsProcess` (joins never wait in a cycle when there is one WebSocket
   server).
2. Listener lists of the three layers, with removal during a callback.
3. Sends from an application thread in `LwsServer`.
