------------------------- MODULE AnyServerLifecycle -------------------------
(***************************************************************************)
(* Initialising, starting and stopping the servers of one process:         *)
(* AnyServerImpl, ServerFactory, the start/stop/thread functions of the    *)
(* six servers and PosixSignalInterceptor, driven by a main() like those   *)
(* of the examples.                                                        *)
(*                                                                         *)
(* Thread 0 is main, thread n > 0 the thread of server n.  A signal is     *)
(* handled on whatever thread the kernel picks; the handler runs           *)
(* AnyServer::stop() there while that thread's own code is suspended and   *)
(* all other threads go on.                                                *)
(*                                                                         *)
(* main() keeps the list that getServerList returns in a static variable.  *)
(* Its pointers own the servers once more, so that exit() deletes every    *)
(* server, one after the other, while the other threads still run.         *)
(***************************************************************************)
EXTENDS Integers, FiniteSets

CONSTANTS
    N,           \* the servers enabled in the configuration, in its order
    Kind,        \* Kind[n]: how server n's thread waits and how it is stopped
    Uninitialized, \* what a pointer may hold that no constructor sets: "null", "garbage"
    InitRetries, \* bound: further init() calls an application makes after a failure
    MaxSignals   \* bound: signals delivered to the process

Server == 1..N
Thread == 0..N
Signals == 1..MaxSignals

\* Call 0 is made by the destructors of the servers when the process exits.
Calls == 0..MaxSignals

\* "epoll": the stream servers; "recvfrom": the datagram servers; "http" and
\* "websocket": lws_service with a timeout, and only "websocket" is joined.
Kinds == {"epoll", "recvfrom", "http", "websocket"}

ASSUME ConstantsAssumption ==
    /\ N \in Nat \ {0}
    /\ Kind \in [Server -> Kinds]
    /\ Uninitialized \subseteq {"null", "garbage"}
    /\ InitRetries \in Nat
    /\ MaxSignals \in Nat

VARIABLES
    main,          \* where main() stands
    next,          \* the server main's loop over m_servers has reached
    created,       \* how many servers __create_servers__ put into m_servers
    inited,        \* the servers whose init() succeeded
    factory,       \* AnyServerImpl::m_server_factory: "null", "garbage" or "set"
    security,      \* capabilities.enable_security of the configuration read
    retries,       \* init() calls repeated so far
    handlers,      \* the signal handlers are installed
    m_run,         \* AnyServerImpl::m_run
    thread,        \* thread[n]: where server n's thread stands
    m_run_thread,  \* m_run_thread[n]: BaseServerImpl::m_run_thread
    joined,        \* the server threads already joined
    stopper,       \* stopper[c]: the stop() call made by the handler of signal c
    fault          \* what crashed: "join" (of no thread or of one joined already),
                   \* "deleted" (a server was used after its deletion),
                   \* "factory" (a pointer that is garbage), or "none"

vars == <<main, next, created, inited, factory, security, retries, handlers, m_run,
          thread, m_run_thread, joined, stopper, fault>>
initVars == <<created, inited, factory, security, retries, handlers>>
threadVars == <<thread, m_run_thread>>
stopVars == <<joined, stopper, fault>>

Idle == [on |-> 0, at |-> 0, phase |-> "idle", began |-> "up"]

Init ==
    /\ main = "init"
    /\ next = 1
    /\ created = 0
    /\ inited = {}
    /\ factory \in Uninitialized
    /\ security = FALSE
    /\ retries = 0
    /\ handlers = FALSE
    /\ m_run = FALSE
    /\ thread = [n \in Server |-> "none"]
    /\ m_run_thread = [n \in Server |-> FALSE]
    /\ joined = {}
    /\ stopper = [c \in Calls |-> Idle]
    /\ fault = "none"

\* The process has not ended and nothing crashed.
Running == main # "exited" /\ fault = "none"

\* A thread whose code is suspended by a signal handler.
InStop(c) == stopper[c].phase \in {"flag", "join", "waiting"}
Suspended(t) == \E c \in Calls : InStop(c) /\ stopper[c].on = t

\* server_list's pointer to server n is gone, and the server with it.
Deleted(n) == stopper[0].phase # "idle" /\ n < stopper[0].at

\* The memory of a deleted server is used: undefined.
Use(n) == fault' \in IF Deleted(n) THEN {fault, "deleted"} ELSE {fault}

Main(at) == Running /\ main = at /\ ~Suspended(0)
Server_(n, at) == Running /\ thread[n] = at /\ ~Suspended(n)

-----------------------------------------------------------------------------
(* main(): init() and start().                                             *)

\* AnyServerImpl::init up to ServerFactory::init.
InitFactory ==
    /\ Main("init") /\ factory = "null"
    /\ factory' = "set"
    /\ main' = "configure"
    /\ UNCHANGED <<next, created, inited, security, retries, handlers, m_run,
                   threadVars, stopVars>>

\* Configuration::init: no file, no JSON, or the servers and the capabilities.
ReadConfiguration ==
    /\ Main("configure")
    /\ \/ main' = "check" /\ security' \in BOOLEAN
       \/ main' = "initFailed" /\ UNCHANGED security
    /\ UNCHANGED <<next, created, inited, factory, retries, handlers, m_run,
                   threadVars, stopVars>>

\* __check_restrict_configuration__: with security, one server only.
CheckRestrictions ==
    /\ Main("check")
    /\ main' = IF security /\ N > 1 THEN "initFailed" ELSE "create"
    /\ UNCHANGED <<next, initVars, m_run, threadVars, stopVars>>

\* __create_servers__: one server after the other; it returns false at a
\* websocket or http server that is to use UDP, and keeps those it created.
CreateServer ==
    /\ Main("create")
    /\ \/ created' = created + 1 /\ main' = IF created' = N THEN "initServers" ELSE main
       \/ /\ Kind[created + 1] \in {"http", "websocket"}
          /\ UNCHANGED created /\ main' = "initFailed"
    /\ next' = 1
    /\ UNCHANGED <<inited, factory, security, retries, handlers, m_run, threadVars,
                   stopVars>>

\* AnyServerImpl::init when m_server_factory is not null: set by an earlier call,
\* or never, since the constructor leaves it as it finds it.
InitAgain ==
    /\ Main("init") /\ factory # "null"
    /\ main' = "start"
    /\ next' = 1
    /\ UNCHANGED <<initVars, m_run, threadVars, stopVars>>

\* Mutant: a server that fails to initialise is passed over.
InitServerAnyway ==
    /\ Main("initServers") /\ next <= created
    /\ inited' \in {inited, inited \cup {next}}
    /\ next' = next + 1
    /\ UNCHANGED <<main, created, factory, security, retries, handlers, m_run,
                   threadVars, stopVars>>

\* ServerFactory::init: the servers one by one; the first failure ends it.
InitServer ==
    /\ Main("initServers") /\ next <= created
    /\ \/ /\ inited' = inited \cup {next}
          /\ next' = next + 1
          /\ UNCHANGED main
       \/ /\ main' = "initFailed"
          /\ UNCHANGED <<inited, next>>
    /\ UNCHANGED <<created, factory, security, retries, handlers, m_run, threadVars,
                   stopVars>>

\* The rest of AnyServerImpl::init: HandleSignals.
InstallHandlers ==
    /\ Main("initServers") /\ next > created
    /\ handlers' = TRUE
    /\ main' = "start"
    /\ next' = 1
    /\ UNCHANGED <<created, inited, factory, security, retries, m_run, threadVars,
                   stopVars>>

\* An application may try init() again when it returned false.
RetryInit ==
    /\ Main("initFailed") /\ retries < InitRetries
    /\ retries' = retries + 1
    /\ main' = "init"
    /\ UNCHANGED <<next, created, inited, factory, security, handlers, m_run,
                   threadVars, stopVars>>

\* ServerFactory::start: pthread_create for one server after the other; the
\* first failure ends it and main() returns.
StartServer ==
    /\ Main("start") /\ next <= created
    /\ \/ /\ thread' = [thread EXCEPT ![next] = "created"]
          /\ next' = next + 1
          /\ UNCHANGED main
       \/ /\ main' = "exited"
          /\ UNCHANGED <<thread, next>>
    /\ UNCHANGED <<initVars, m_run, m_run_thread, stopVars>>

\* m_server_factory->start() of a pointer that is garbage: it crashes, or finds no
\* servers to start (StartDone).
StartNowhere ==
    /\ Main("start") /\ factory = "garbage"
    /\ fault' = "factory"
    /\ UNCHANGED <<main, next, initVars, m_run, threadVars, joined, stopper>>

\* AnyServerImpl::start: m_run is set after the last server was started.
StartDone ==
    /\ Main("start") /\ next > created
    /\ m_run' = TRUE
    /\ main' = "loop"
    /\ UNCHANGED <<next, initVars, threadVars, stopVars>>

\* init() failed, and so server_list is empty: the end of main() ends every thread.
GiveUp ==
    /\ Main("initFailed")
    /\ main' = "exited"
    /\ UNCHANGED <<next, initVars, m_run, threadVars, stopVars>>

\* while ( any_server->isRun() ); then main() returns and server_list is destroyed.
MainReturns ==
    /\ Main("loop") /\ ~m_run
    /\ main' = "exit"
    /\ stopper' = [stopper EXCEPT ![0] =
                      [on |-> 0, at |-> 1, phase |-> "flag", began |-> "exit"]]
    /\ UNCHANGED <<next, initVars, m_run, threadVars, joined, fault>>

-----------------------------------------------------------------------------
(* The servers' threads.                                                   *)

\* The first statement of every thread function.
RaiseFlag(n) ==
    /\ Server_(n, "created")
    /\ m_run_thread' = [m_run_thread EXCEPT ![n] = TRUE]
    /\ thread' = [thread EXCEPT ![n] = "test"]
    /\ Use(n)
    /\ UNCHANGED <<main, next, initVars, m_run, joined, stopper>>

\* while ( server->m_run_thread ), which is anything in a server that is deleted.
TestFlag(n) ==
    /\ Server_(n, "test")
    /\ \E flag \in IF Deleted(n) THEN BOOLEAN ELSE {m_run_thread[n]} :
         thread' = [thread EXCEPT ![n] = IF flag THEN "wait" ELSE "exited"]
    /\ Use(n)
    /\ UNCHANGED <<main, next, initVars, m_run, m_run_thread, joined, stopper>>

\* lws_service(context, 50) returns by itself.  The destructor destroys the context.
PollTimesOut(n) ==
    /\ Server_(n, "wait") /\ Kind[n] \in {"http", "websocket"}
    /\ thread' = [thread EXCEPT ![n] = "test"]
    /\ Use(n)
    /\ UNCHANGED <<main, next, initVars, m_run, m_run_thread, joined, stopper>>

\* epoll_wait(-1) and recvfrom return when a client does something.
ClientArrives(n) ==
    /\ Server_(n, "wait") /\ Kind[n] \in {"epoll", "recvfrom"}
    /\ thread' = [thread EXCEPT ![n] = "test"]
    /\ UNCHANGED <<main, next, initVars, m_run, m_run_thread, stopVars>>

-----------------------------------------------------------------------------
(* A signal: InterceptorSignalHandler, RaiseSignal, onReceivedPosixSignal, *)
(* the listener's onReceivedSystemSignal and AnyServer::stop().            *)

\* On top of a stop() that another signal's handler runs on the same thread.
Topmost(c) == \A d \in Calls : d > c /\ InStop(d) => stopper[d].on # stopper[c].on

\* How far start() and the threads it created had come.
Progress ==
    IF main \notin {"loop", "exit"} THEN "starting"
    ELSE IF \E n \in Server : thread[n] = "created" THEN "raising" ELSE "up"

Signal(c, t) ==
    /\ Running /\ handlers
    /\ stopper[c].phase = "idle"
    /\ \A d \in Signals : d < c => stopper[d].phase # "idle"
    /\ t > 0 => thread[t] \notin {"none", "exited"}
    /\ stopper' = [stopper EXCEPT ![c] =
                      [on |-> t, at |-> 1, phase |-> "flag", began |-> Progress]]
    /\ UNCHANGED <<main, next, initVars, m_run, threadVars, joined, fault>>

\* Mutant: the iterator is advanced twice.
AdvanceTwice(c) ==
    [stopper[c] EXCEPT !.at = @ + 2, !.phase = "flag"]

\* The rest of a stop() after server n: the next server, or the end.
Advance(c) ==
    [stopper[c] EXCEPT !.at = @ + 1, !.phase = "flag"]

\* Mutant: only stop() joins the websocket thread, the destructor does not.
LowerFlagOnExit(c) ==
    /\ Running /\ stopper[c].phase = "flag" /\ Topmost(c)
    /\ stopper[c].at <= created
    /\ LET n == stopper[c].at IN
         /\ m_run_thread' = [m_run_thread EXCEPT ![n] = FALSE]
         /\ stopper' = [stopper EXCEPT ![c] =
              IF Kind[n] = "websocket" /\ c # 0 THEN [@ EXCEPT !.phase = "join"]
              ELSE Advance(c)]
         /\ Use(n)
    /\ UNCHANGED <<main, next, initVars, m_run, thread, joined>>

\* server->stop(): the flag; the websocket server goes on to pthread_join.
LowerFlag(c) ==
    /\ Running /\ stopper[c].phase = "flag" /\ Topmost(c)
    /\ stopper[c].at <= created
    /\ LET n == stopper[c].at IN
         /\ m_run_thread' = [m_run_thread EXCEPT ![n] = FALSE]
         /\ stopper' = [stopper EXCEPT ![c] =
              IF Kind[n] = "websocket" THEN [@ EXCEPT !.phase = "join"] ELSE Advance(c)]
         /\ Use(n)
    /\ UNCHANGED <<main, next, initVars, m_run, thread, joined>>

\* pthread_join of another, living thread: the caller becomes its joiner.
Refused(n, t) ==
    \/ n = t
    \/ \E d \in Calls : /\ stopper[d].phase = "waiting"
                        /\ \/ stopper[d].at = n
                           \/ stopper[d].at = t /\ stopper[d].on = n

JoinBegins(c) ==
    /\ Running /\ stopper[c].phase = "join" /\ Topmost(c)
    /\ LET n == stopper[c].at IN
         /\ thread[n] # "none" /\ n \notin joined /\ ~Refused(n, stopper[c].on)
    /\ stopper' = [stopper EXCEPT ![c].phase = "waiting"]
    /\ UNCHANGED <<main, next, initVars, m_run, threadVars, joined, fault>>

\* Mutant: the thread is detached, nobody waits for it.
JoinDetaches(c) ==
    /\ Running /\ stopper[c].phase = "waiting" /\ Topmost(c)
    /\ joined' = joined \cup {stopper[c].at}
    /\ stopper' = [stopper EXCEPT ![c] = Advance(c)]
    /\ UNCHANGED <<main, next, initVars, m_run, threadVars, fault>>

\* Mutant: stop() joins, and then the server's destructor joins again.
JoinTwice(c) ==
    /\ Running /\ stopper[c].phase = "waiting" /\ Topmost(c)
    /\ thread[stopper[c].at] = "exited"
    /\ joined' = joined \cup {stopper[c].at}
    /\ stopper' = [stopper EXCEPT ![c].phase = "join"]
    /\ UNCHANGED <<main, next, initVars, m_run, threadVars, fault>>

\* It returns when that thread has ended.
JoinReturns(c) ==
    /\ Running /\ stopper[c].phase = "waiting" /\ Topmost(c)
    /\ thread[stopper[c].at] = "exited"
    /\ joined' = joined \cup {stopper[c].at}
    /\ stopper' = [stopper EXCEPT ![c] = Advance(c)]
    /\ UNCHANGED <<main, next, initVars, m_run, threadVars, fault>>

\* pthread_join of the calling thread or of one that is joining the caller
\* (EDEADLK), or of one that has a joiner (EINVAL), returns at once; its result
\* is not looked at.
JoinRefused(c) ==
    /\ Running /\ stopper[c].phase = "join" /\ Topmost(c)
    /\ LET n == stopper[c].at IN
         /\ thread[n] # "none" /\ n \notin joined /\ Refused(n, stopper[c].on)
    /\ stopper' = [stopper EXCEPT ![c] = Advance(c)]
    /\ UNCHANGED <<main, next, initVars, m_run, threadVars, joined, fault>>

\* pthread_join of a thread never created (the pthread_t is uninitialised) or
\* joined before is undefined: it crashes, or returns an error.
JoinUndefined(c) ==
    /\ Running /\ stopper[c].phase = "join" /\ Topmost(c)
    /\ thread[stopper[c].at] = "none" \/ stopper[c].at \in joined
    /\ \/ fault' = "join" /\ UNCHANGED stopper
       \/ stopper' = [stopper EXCEPT ![c] = Advance(c)] /\ UNCHANGED fault
    /\ UNCHANGED <<main, next, initVars, m_run, threadVars, joined>>

\* Mutant: m_run is left as it is.
StopKeepsRunning(c) ==
    /\ Running /\ stopper[c].phase = "flag" /\ Topmost(c)
    /\ stopper[c].at > created
    /\ stopper' = [stopper EXCEPT ![c].phase = "done"]
    /\ LET t == stopper[c].on IN
         thread' = [n \in Server |->
           IF n = t /\ thread[n] = "wait" /\ Kind[n] = "epoll" THEN "test" ELSE thread[n]]
    /\ UNCHANGED <<main, next, initVars, m_run, m_run_thread, joined, fault>>

\* The end of AnyServerImpl::stop and of the handler.  An interrupted
\* epoll_wait returns; recvfrom is restarted.
StopDone(c) ==
    /\ Running /\ stopper[c].phase = "flag" /\ Topmost(c)
    /\ stopper[c].at > created
    /\ m_run' = FALSE
    /\ stopper' = [stopper EXCEPT ![c].phase = "done"]
    /\ LET t == stopper[c].on IN
         thread' = [n \in Server |->
           IF n = t /\ thread[n] = "wait" /\ Kind[n] = "epoll" THEN "test" ELSE thread[n]]
    /\ UNCHANGED <<main, next, initVars, m_run_thread, joined, fault>>

\* The last server is deleted: the process ends.
ExitDone ==
    /\ Running /\ stopper[0].phase = "flag" /\ Topmost(0)
    /\ stopper[0].at > created
    /\ main' = "exited"
    /\ stopper' = [stopper EXCEPT ![0].phase = "done"]
    /\ UNCHANGED <<next, initVars, m_run, threadVars, joined, fault>>

-----------------------------------------------------------------------------
MainStep ==
    \/ InitFactory \/ InitAgain
    \/ ReadConfiguration \/ CheckRestrictions \/ CreateServer
    \/ InitServer \/ InstallHandlers
    \/ StartServer \/ StartNowhere \/ StartDone \/ GiveUp \/ MainReturns \/ ExitDone

ServerStep(n) == RaiseFlag(n) \/ TestFlag(n) \/ PollTimesOut(n)

StopStep(c) ==
    \/ LowerFlag(c)
    \/ JoinBegins(c) \/ JoinReturns(c) \/ JoinRefused(c) \/ JoinUndefined(c)

Next ==
    \/ MainStep
    \/ RetryInit
    \/ \E n \in Server : ServerStep(n) \/ ClientArrives(n)
    \/ \E c \in Calls : StopStep(c)
    \/ \E c \in Signals : StopDone(c) \/ \E t \in Thread : Signal(c, t)

Spec == Init /\ [][Next]_vars

\* Threads and handlers are scheduled, and lws_service times out.  Nothing makes
\* a client or a signal come.
Fairness ==
    /\ WF_vars(MainStep)
    /\ \A n \in Server : WF_vars(ServerStep(n))
    /\ \A c \in Calls : WF_vars(StopStep(c))
    /\ \A c \in Signals : WF_vars(StopDone(c))

FairSpec == Spec /\ Fairness

-----------------------------------------------------------------------------
(* Properties.                                                             *)

\* Every variable keeps its type.
TypeOK ==
    /\ main \in {"init", "configure", "check", "create", "initServers", "initFailed",
                 "start", "loop", "exit", "exited"}
    /\ next \in 1..(N + 1)
    /\ created \in 0..N
    /\ inited \subseteq Server
    /\ factory \in {"null", "garbage", "set"} /\ security \in BOOLEAN
    /\ retries \in 0..InitRetries
    /\ handlers \in BOOLEAN
    /\ m_run \in BOOLEAN
    /\ thread \in [Server -> {"none", "created", "test", "wait", "exited"}]
    /\ m_run_thread \in [Server -> BOOLEAN]
    /\ joined \subseteq Server
    /\ stopper \in [Calls -> [on : Thread, at : 0..(N + 1),
                              phase : {"idle", "flag", "join", "waiting", "done"},
                              began : {"starting", "raising", "up", "exit"}]]
    /\ fault \in {"none", "join", "deleted", "factory"}

\* init() returned true only if every configured server was created and
\* initialised (anyserver.h: "initialize servers that has defined in config
\* file", "return true if succeed else return false").
InitMeansInitialized ==
    main \in {"start", "loop"} => created = N /\ inited = Server

\* The same of the first init(), if m_server_factory happened to be null: a failure
\* half way, after some of the servers were created or initialised, is reported.
FirstInitMeansInitialized ==
    retries = 0 /\ factory # "garbage" => InitMeansInitialized

\* A single stop() that began after start() had returned, on a thread that is
\* not a websocket server's, returns only when every websocket thread has ended
\* and was joined: no callback of theirs comes after it.
StopWaitsForWebsockets ==
    \A c \in Signals :
        /\ stopper[c].phase = "done" /\ stopper[c].began # "starting"
        /\ \A d \in Signals : d # c => stopper[d].phase = "idle"
        => \A n \in Server : Kind[n] = "websocket" /\ stopper[c].on # n =>
               thread[n] = "exited" /\ n \in joined

\* One stop() only, and it began after start() had returned.
OneLateStop ==
    /\ \A c \in Signals : stopper[c].began # "starting"
    /\ \A c, d \in Signals : c # d => stopper[c].phase = "idle" \/ stopper[d].phase = "idle"

\* If stop() is called once, after start() has returned, pthread_join goes wrong in
\* one place only: in the destructors at exit, which join a second time a thread that
\* stop() had joined.  By then every websocket thread has ended, except one on which
\* the signal itself was handled; stop() joins no thread that does not exist or was
\* joined before.
JoinsGoWrongOnlyAtExit ==
    fault = "join" /\ OneLateStop =>
        /\ main = "exit" /\ stopper[0].phase = "join" /\ stopper[0].at \in joined
        /\ \A n \in Server : Kind[n] = "websocket" =>
               thread[n] = "exited" \/ \E c \in Signals : stopper[c].on = n

\* A websocket server is deleted only when its thread has ended, even if stop()
\* ran on that very thread and could not join it; unless a second stop() is the
\* one that waits for the thread.
DeletedWebsocketsAreQuiet ==
    \A n \in Server : Deleted(n) /\ Kind[n] = "websocket" =>
        \/ thread[n] = "exited"
        \/ \E c, d \in Signals : c # d /\ stopper[c].phase # "idle"
                                      /\ stopper[d].phase # "idle"

\* Signals handled when all servers are up end the process, on whatever threads
\* they are handled: no join waits for a thread that waits for the joiner.
LateStopEndsProcess ==
    (/\ \E c \in Signals : InStop(c)
     /\ \A c \in Signals : stopper[c].phase = "idle" \/ stopper[c].began = "up")
        ~> ~Running

\* After stop() every server that was started stops (anyserver.h: "stop servers
\* which has started").
StopStopsServers ==
    (\E c \in Signals : stopper[c].phase = "done")
        ~> (~Running \/ \A n \in Server : thread[n] \in {"none", "exited"})
=============================================================================
