---------------------- MODULE AnyServerLifecycleProofs ----------------------
(***************************************************************************)
(* Proofs about AnyServerLifecycle, for every number and order of servers  *)
(* and every number of signals.                                            *)
(*                                                                         *)
(* The argument: handlers are installed only by an init() that created     *)
(* every server, so a stop() that began after start() meets the threads of *)
(* all servers.  It goes through the servers in their order; a websocket   *)
(* server is passed when its thread has ended and was joined, unless the   *)
(* stop() runs on that thread or is not the only one.  The destructors run *)
(* only after a stop() has returned.                                       *)
(***************************************************************************)
EXTENDS AnyServerLifecycle, TLAPS

\* main() has not come to start().
Initialising == main \in {"init", "configure", "check", "create", "initServers", "initFailed"}

\* How far init() has come; __create_servers__ runs once, whatever is retried.
InitProgress ==
    /\ (main = "init" /\ factory = "null") \/ main \in {"configure", "check"} => created = 0
    /\ (main = "init" /\ factory = "null") \/ main \in {"configure", "check", "create"} =>
           created < N /\ inited = {}
    /\ main \in {"configure", "check", "create", "initServers", "initFailed"} => factory = "set"
    /\ main = "initServers" => created = N /\ inited = 1..(next - 1)
    /\ main = "init" /\ factory = "set" => retries > 0
    /\ handlers => created = N /\ ~Initialising

\* start() creates the threads in the order of the servers.
ThreadsStarted ==
    /\ Initialising => \A n \in Server : thread[n] = "none"
    /\ main = "start" => \A n \in Server : thread[n] = "none" <=> n >= next
    /\ main \in {"loop", "exit"} => \A n \in 1..created : thread[n] # "none"

Active(c) == stopper[c].phase # "idle"

\* A stop() goes through the servers that were created.
StopProgress(c) ==
    /\ Active(c) => stopper[c].at >= 1
    /\ stopper[c].phase \in {"join", "waiting"} => stopper[c].at <= created
    /\ stopper[c].phase = "done" => stopper[c].at > created

\* Signals are handled when the servers were created.
SignalsHandled ==
    \A c \in Signals : Active(c) =>
        /\ handlers
        /\ stopper[c].began # "starting" => main \in {"loop", "exit", "exited"}

\* main() ends after a stop() has returned.
SomeStopDone == \E c \in Signals : stopper[c].phase = "done"

ExitFollowsStop ==
    /\ main = "loop" /\ ~m_run => SomeStopDone
    /\ main = "exit" => SomeStopDone
    /\ Active(0) => main \in {"exit", "exited"} /\ stopper[0].on = 0 /\ SomeStopDone

\* A thread that was joined has ended, and the stop() that joined it went on.
JoinedPassed ==
    \A n \in joined : thread[n] = "exited" /\ \E c \in Calls : Active(c) /\ stopper[c].at > n

\* c is the only signal, handled after start() had returned.
Lone(c) ==
    /\ Active(c) /\ stopper[c].began # "starting"
    /\ \A d \in Signals : d # c => ~Active(d)

\* The websocket threads that such a stop() has passed.
LonePassed ==
    \A c \in Signals : Lone(c) =>
        \A n \in Server : n < stopper[c].at /\ Kind[n] = "websocket" /\ stopper[c].on # n =>
            thread[n] = "exited" /\ n \in joined

IndInv ==
    /\ TypeOK
    /\ InitProgress
    /\ FirstInitMeansInitialized
    /\ ThreadsStarted
    /\ \A c \in Calls : StopProgress(c)
    /\ SignalsHandled
    /\ ExitFollowsStop
    /\ JoinedPassed
    /\ LonePassed
    /\ JoinsGoWrongOnlyAtExit
    /\ DeletedWebsocketsAreQuiet

StopperType == [on : Thread, at : 0..(N + 1),
                phase : {"idle", "flag", "join", "waiting", "done"},
                began : {"starting", "raising", "up", "exit"}]

TwoSignals == \E c, d \in Signals : c # d /\ Active(c) /\ Active(d)

-----------------------------------------------------------------------------
(* Facts the steps share.                                                  *)

\* Call 0 is none of the signals.
LEMMA CallsAndSignals ==
    /\ Calls = Signals \cup {0} /\ 0 \notin Signals /\ 0 \in Calls
    /\ \A c \in Calls : c # 0 => c \in Signals
  BY ConstantsAssumption DEF Calls, Signals

\* The variables have their types; stated once for the steps.
LEMMA Types ==
    ASSUME IndInv
    PROVE  /\ N \in Nat \ {0} /\ created \in 0..N /\ next \in 1..(N + 1)
           /\ stopper \in [Calls -> StopperType]
           /\ thread \in [Server -> {"none", "created", "test", "wait", "exited"}]
           /\ m_run_thread \in [Server -> BOOLEAN]
           /\ \A c \in Calls : stopper[c] \in StopperType
  BY ConstantsAssumption DEF IndInv, TypeOK, StopperType

\* Before start() no signal is handled and nothing is joined.
LEMMA InitialisingQuiet ==
    ASSUME IndInv, Initialising
    PROVE  ~handlers /\ joined = {} /\ \A c \in Calls : ~Active(c)
<1>1. ~handlers
  BY DEF IndInv, InitProgress
<1>2. \A c \in Signals : ~Active(c)
  BY <1>1 DEF IndInv, SignalsHandled
<1>3. ~Active(0)
  BY DEF IndInv, ExitFollowsStop, Initialising
<1>4. \A c \in Calls : ~Active(c)
  BY <1>2, <1>3, CallsAndSignals
<1>5. joined = {}
  BY <1>4 DEF IndInv, JoinedPassed
<1> QED
  BY <1>1, <1>4, <1>5

-----------------------------------------------------------------------------
(* init().                                                                 *)

\* The steps of init(), one by one.
LEMMA InitSteps ==
    ASSUME IndInv,
           \/ InitFactory \/ ReadConfiguration \/ CheckRestrictions \/ CreateServer
           \/ InitAgain \/ InitServer \/ InstallHandlers \/ RetryInit \/ GiveUp
    PROVE  /\ TypeOK' /\ InitProgress' /\ FirstInitMeansInitialized' /\ ThreadsStarted'
           /\ Initialising /\ main' \notin {"loop", "exit"}
           /\ UNCHANGED <<m_run, thread, m_run_thread, joined, stopper, fault>>
<1> USE DEF initVars, threadVars, stopVars, Main
<1>1. /\ Initialising /\ main' \notin {"loop", "exit"}
      /\ UNCHANGED <<m_run, thread, m_run_thread, joined, stopper, fault>>
  BY DEF Initialising, InitFactory, ReadConfiguration, CheckRestrictions, CreateServer, InitAgain,
         InitServer, InstallHandlers, RetryInit, GiveUp
<1>2. handlers = FALSE /\ \A n \in Server : thread[n] = "none"
  BY <1>1, InitialisingQuiet DEF IndInv, TypeOK, ThreadsStarted
<1>3. /\ N \in Nat \ {0} /\ created \in 0..N /\ next \in 1..(N + 1) /\ inited \subseteq Server
      /\ factory \in {"null", "garbage", "set"} /\ security \in BOOLEAN
      /\ InitRetries \in Nat /\ retries \in 0..InitRetries
      /\ main \in {"init", "configure", "check", "create", "initServers", "initFailed",
                   "start", "loop", "exit", "exited"}
  BY ConstantsAssumption DEF IndInv, TypeOK
<1>4. InitProgress
  BY DEF IndInv
<1> DEFINE Goal == /\ main' \in {"init", "configure", "check", "create", "initServers",
                                 "initFailed", "start", "loop", "exit", "exited"}
                   /\ created' \in 0..N /\ next' \in 1..(N + 1) /\ inited' \subseteq Server
                   /\ factory' \in {"null", "garbage", "set"} /\ security' \in BOOLEAN
                   /\ retries' \in 0..InitRetries /\ handlers' \in BOOLEAN
                   /\ InitProgress' /\ FirstInitMeansInitialized'
                   /\ (main' = "start" => next' = 1)
<1> USE DEF InitProgress, FirstInitMeansInitialized, InitMeansInitialized, Initialising
<1>5. ASSUME InitFactory PROVE Goal
  BY <1>2, <1>3, <1>4, <1>5 DEF InitFactory
<1>6. ASSUME ReadConfiguration PROVE Goal
  BY <1>2, <1>3, <1>4, <1>6 DEF ReadConfiguration
<1>7. ASSUME CheckRestrictions PROVE Goal
  BY <1>2, <1>3, <1>4, <1>7 DEF CheckRestrictions
<1>8. ASSUME CreateServer PROVE Goal
  <2>1. /\ created < N /\ inited = {} /\ factory = "set" /\ next' = 1
        /\ UNCHANGED <<inited, factory, security, retries, handlers>>
    BY <1>4, <1>8 DEF CreateServer
  <2>2. \/ /\ created' = created + 1
           /\ (main' = "initServers" /\ created' = N) \/ (main' = "create" /\ created' # N)
        \/ created' = created /\ main' = "initFailed"
    BY <1>8 DEF CreateServer
  <2>3. created' \in 0..N /\ (created' = created + 1 /\ created' # N => created' < N)
    BY <1>3, <2>1, <2>2
  <2>4. 1..(1 - 1) = {}
    OBVIOUS
  <2>5. CASE created' = N /\ main' = "initServers"
    <3>1. InitProgress'
      BY <1>2, <2>1, <2>4, <2>5
    <3>2. next' \in 1..(N + 1)
      BY <1>3, <2>1
    <3> QED
      BY <1>2, <1>3, <2>1, <2>3, <2>5, <3>1, <3>2
  <2>6. CASE created' < N /\ main' \in {"create", "initFailed"}
    <3>1. InitProgress'
      BY <1>2, <2>1, <2>6
    <3>2. next' \in 1..(N + 1)
      BY <1>3, <2>1
    <3> QED
      BY <1>2, <1>3, <2>1, <2>3, <2>6, <3>1, <3>2
  <2> QED
    BY <1>3, <2>1, <2>2, <2>3, <2>5, <2>6
<1>9. ASSUME InitAgain PROVE Goal
  <2>1. /\ main = "init" /\ factory # "null" /\ main' = "start" /\ next' = 1
        /\ UNCHANGED <<created, inited, factory, security, retries, handlers>>
    BY <1>9 DEF InitAgain
  <2>2. factory = "set" => retries # 0
    BY <1>3, <1>4, <2>1
  <2>3. 1 \in 1..(N + 1)
    BY <1>3
  <2>4. FirstInitMeansInitialized' /\ InitProgress'
    BY <1>2, <1>3, <2>1, <2>2
  <2> QED
    BY <1>2, <1>3, <2>1, <2>3, <2>4
<1>10. ASSUME InitServer PROVE Goal
  <2>1. /\ created = N /\ inited = 1..(next - 1) /\ factory = "set" /\ next <= created
        /\ main = "initServers" /\ UNCHANGED <<created, factory, security, retries, handlers>>
    BY <1>4, <1>10 DEF InitServer
  <2>2. CASE inited' = inited \cup {next} /\ next' = next + 1 /\ main' = main
    <3>1. next' \in 1..(N + 1) /\ inited' = 1..(next' - 1) /\ next \in Server
      BY <1>3, <2>1, <2>2 DEF Server
    <3> QED
      BY <1>2, <1>3, <2>1, <2>2, <3>1
  <2>3. CASE main' = "initFailed" /\ UNCHANGED <<inited, next>>
    BY <1>2, <1>3, <2>1, <2>3
  <2> QED
    BY <1>10, <2>2, <2>3 DEF InitServer
<1>11. ASSUME InstallHandlers PROVE Goal
  <2>1. /\ created = N /\ inited = 1..(next - 1) /\ factory = "set" /\ next > created
        /\ main' = "start" /\ next' = 1 /\ handlers' = TRUE
        /\ UNCHANGED <<created, inited, factory, security, retries>>
    BY <1>4, <1>11 DEF InstallHandlers
  <2>2. inited = Server
    BY <1>3, <2>1 DEF Server
  <2> QED
    BY <1>3, <2>1, <2>2
<1>12. ASSUME RetryInit PROVE Goal
  <2>1. /\ main = "initFailed" /\ retries < InitRetries /\ retries' = retries + 1 /\ main' = "init"
        /\ UNCHANGED <<next, created, inited, factory, security, handlers>>
    BY <1>12 DEF RetryInit
  <2>2. factory = "set" /\ retries' \in 0..InitRetries /\ retries' > 0
    BY <1>3, <1>4, <2>1
  <2> QED
    BY <1>2, <1>3, <2>1, <2>2
<1>13. ASSUME GiveUp PROVE Goal
  BY <1>2, <1>3, <1>4, <1>13 DEF GiveUp
<1>14. Goal
  BY <1>5, <1>6, <1>7, <1>8, <1>9, <1>10, <1>11, <1>12, <1>13
<1>15. TypeOK'
  BY <1>1, <1>14 DEF IndInv, TypeOK
<1>16. ThreadsStarted'
  <2>1. \A n \in Server : thread'[n] = "none" /\ n >= 1
    BY <1>1, <1>2 DEF Server
  <2> QED
    BY <1>1, <1>14, <2>1 DEF ThreadsStarted
<1> QED
  BY <1>1, <1>14, <1>15, <1>16

\* init() leaves everything else as quiet as it was.
LEMMA InitPreserves ==
    ASSUME IndInv,
           \/ InitFactory \/ ReadConfiguration \/ CheckRestrictions \/ CreateServer
           \/ InitAgain \/ InitServer \/ InstallHandlers \/ RetryInit \/ GiveUp
    PROVE  IndInv'
<1>1. /\ TypeOK' /\ InitProgress' /\ FirstInitMeansInitialized' /\ ThreadsStarted'
      /\ Initialising /\ main' \notin {"loop", "exit"}
      /\ UNCHANGED <<joined, stopper, fault>>
  BY InitSteps
<1>2. joined' = {} /\ \A c \in Calls : ~Active(c)'
  BY <1>1, InitialisingQuiet DEF Active
<1>3. \A c \in Calls : stopper'[c].phase = "idle"
  BY <1>2 DEF Active
<1>4. \A c \in Calls : StopProgress(c)'
  BY <1>2, <1>3 DEF StopProgress
<1>5. SignalsHandled' /\ JoinedPassed' /\ LonePassed'
  BY <1>2, CallsAndSignals DEF SignalsHandled, JoinedPassed, LonePassed, Lone
<1>6. ExitFollowsStop'
  BY <1>1, <1>2, CallsAndSignals DEF ExitFollowsStop
<1>7. JoinsGoWrongOnlyAtExit'
  <2>1. fault = "none"
    BY DEF InitFactory, ReadConfiguration, CheckRestrictions, CreateServer, InitAgain,
           InitServer, InstallHandlers, RetryInit, GiveUp, Main, Running
  <2> QED
    BY <1>1, <2>1 DEF JoinsGoWrongOnlyAtExit
<1>8. DeletedWebsocketsAreQuiet'
  BY <1>3, CallsAndSignals DEF DeletedWebsocketsAreQuiet, Deleted
<1> QED
  BY <1>1, <1>4, <1>5, <1>6, <1>7, <1>8 DEF IndInv

-----------------------------------------------------------------------------
(* start(), the end of main() and the servers' threads.                    *)

\* While start() runs, every stop() is one that began too early.
LEMMA StartPreserves ==
    ASSUME IndInv, StartServer \/ StartNowhere \/ StartDone
    PROVE  IndInv'
<1> USE DEF initVars, threadVars, stopVars, Main
<1>1. /\ main = "start" /\ UNCHANGED <<created, inited, factory, security, retries, handlers,
                                       m_run_thread, joined, stopper>>
      /\ (fault' = fault \/ fault' = "factory")
  BY DEF StartServer, StartNowhere, StartDone
<1>2. \/ next <= created /\ thread' = [thread EXCEPT ![next] = "created"] /\ next' = next + 1
         /\ main' = "start" /\ m_run' = m_run
      \/ main' = "exited" /\ UNCHANGED <<thread, next, m_run>>
      \/ main' = "start" /\ UNCHANGED <<thread, next, m_run>>
      \/ main' = "loop" /\ next > created /\ m_run' = TRUE /\ UNCHANGED <<thread, next>>
  BY <1>1 DEF StartServer, StartNowhere, StartDone
<1>3. \A n \in Server : thread[n] = "none" <=> n >= next
  BY <1>1 DEF IndInv, ThreadsStarted
<1>4. /\ next' \in 1..(N + 1)
      /\ thread' \in [Server -> {"none", "created", "test", "wait", "exited"}]
      /\ \A n \in Server : thread[n] = "exited" => thread'[n] = "exited"
      /\ main' = "start" => \A n \in Server : thread'[n] = "none" <=> n >= next'
      /\ main' = "loop" => \A n \in 1..created : thread'[n] # "none"
  <2>1. /\ N \in Nat \ {0} /\ created \in 0..N /\ next \in 1..(N + 1)
        /\ thread \in [Server -> {"none", "created", "test", "wait", "exited"}]
        /\ \A n \in Server : n \in Nat
        /\ \A n \in 1..created : n \in Server
    BY Types DEF Server
  <2>2. CASE next <= created /\ thread' = [thread EXCEPT ![next] = "created"]
             /\ next' = next + 1 /\ main' = "start"
    <3>1. next \in Server /\ thread[next] = "none"
      BY <1>3, <2>1, <2>2 DEF Server
    <3>2. \A n \in Server : thread'[n] = IF n = next THEN "created" ELSE thread[n]
      BY <2>1, <2>2
    <3> QED
      BY <1>3, <2>1, <2>2, <3>1, <3>2
  <2>3. CASE UNCHANGED <<thread, next>> /\ main' # "loop"
    BY <1>3, <2>1, <2>3
  <2>4. CASE UNCHANGED <<thread, next>> /\ next > created
    BY <1>3, <2>1, <2>4
  <2> QED
    BY <1>2, <2>2, <2>3, <2>4
<1>5. main' \in {"start", "exited", "loop"} /\ (main' = "loop" => m_run' = TRUE)
      /\ m_run' \in BOOLEAN
  BY <1>2 DEF IndInv, TypeOK
<1>6. TypeOK'
  BY <1>1, <1>4, <1>5 DEF IndInv, TypeOK
<1>7. InitProgress' /\ FirstInitMeansInitialized'
  BY <1>1, <1>5 DEF IndInv, InitProgress, FirstInitMeansInitialized, InitMeansInitialized,
                    Initialising
<1>8. ThreadsStarted'
  BY <1>1, <1>4, <1>5 DEF ThreadsStarted, Initialising
<1>9. ~Active(0) /\ \A c \in Signals : Active(c) => handlers /\ stopper[c].began = "starting"
  BY <1>1 DEF IndInv, ExitFollowsStop, SignalsHandled
<1>10. \A c \in Calls : Active(c)' <=> Active(c)
  BY <1>1 DEF Active
<1>11. \A c \in Calls : StopProgress(c)'
  BY <1>1, <1>10 DEF IndInv, StopProgress
<1>12. SignalsHandled' /\ LonePassed'
  BY <1>1, <1>9, <1>10, CallsAndSignals DEF SignalsHandled, LonePassed, Lone
<1>13. ExitFollowsStop'
  BY <1>5, <1>9, <1>10, CallsAndSignals DEF ExitFollowsStop
<1>14. JoinedPassed'
  <2>1. joined \subseteq Server
    BY DEF IndInv, TypeOK
  <2> QED
    BY <1>1, <1>4, <1>10, <2>1 DEF IndInv, JoinedPassed
<1>15. JoinsGoWrongOnlyAtExit'
  <2>1. fault = "none"
    BY DEF StartServer, StartNowhere, StartDone, Running
  <2> QED
    BY <1>1, <2>1 DEF JoinsGoWrongOnlyAtExit
<1>16. DeletedWebsocketsAreQuiet'
  BY <1>1, <1>9 DEF DeletedWebsocketsAreQuiet, Deleted, Active
<1> QED
  BY <1>6, <1>7, <1>8, <1>11, <1>12, <1>13, <1>14, <1>15, <1>16 DEF IndInv

\* main() returns when a stop() has; the destructors begin.
LEMMA MainReturnsPreserves ==
    ASSUME IndInv, MainReturns
    PROVE  IndInv'
<1> DEFINE r == [on |-> 0, at |-> 1, phase |-> "flag", began |-> "exit"]
<1>1. /\ main = "loop" /\ ~m_run /\ main' = "exit" /\ stopper' = [stopper EXCEPT ![0] = r]
      /\ UNCHANGED <<next, created, inited, factory, security, retries, handlers, m_run,
                     thread, m_run_thread, joined, fault>>
  BY DEF MainReturns, Main, initVars, threadVars
<1>2. r \in StopperType
  <2>1. 0 \in Thread /\ 1 \in 0..(N + 1)
    BY ConstantsAssumption DEF Thread
  <2> QED
    BY <2>1 DEF StopperType
<1>3. stopper' \in [Calls -> StopperType] /\ stopper'[0] = r
      /\ \A c \in Calls \ {0} : stopper'[c] = stopper[c]
  BY <1>1, <1>2, Types, CallsAndSignals
<1>4. r.at = 1 /\ r.phase = "flag" /\ r.on = 0
  OBVIOUS
<1> HIDE DEF r
<1>5. ~Active(0) /\ SomeStopDone
  BY <1>1 DEF IndInv, ExitFollowsStop
<1>6. /\ \A c \in Signals : stopper'[c] = stopper[c] /\ (Active(c)' <=> Active(c))
      /\ Active(0)'
  BY <1>3, <1>4, CallsAndSignals DEF Active
<1>7. TypeOK'
  BY <1>1, <1>3 DEF IndInv, TypeOK, StopperType
<1>8. InitProgress' /\ FirstInitMeansInitialized' /\ ThreadsStarted'
  BY <1>1 DEF IndInv, InitProgress, FirstInitMeansInitialized, InitMeansInitialized,
              ThreadsStarted, Initialising
<1>9. \A c \in Calls : StopProgress(c)'
  BY <1>1, <1>3, <1>4, <1>6, CallsAndSignals DEF IndInv, StopProgress
<1>10. SignalsHandled' /\ ExitFollowsStop'
  BY <1>1, <1>3, <1>4, <1>5, <1>6 DEF IndInv, SignalsHandled, ExitFollowsStop, SomeStopDone
<1>11. JoinedPassed'
  <2>1. \A n \in joined : thread[n] = "exited" /\ \E c \in Signals : Active(c) /\ stopper[c].at > n
    BY <1>5, CallsAndSignals DEF IndInv, JoinedPassed
  <2> QED
    BY <1>1, <1>6, <2>1, CallsAndSignals DEF JoinedPassed
<1>12. LonePassed'
  BY <1>1, <1>6 DEF IndInv, LonePassed, Lone
<1>13. JoinsGoWrongOnlyAtExit'
  BY <1>1 DEF MainReturns, Main, Running, JoinsGoWrongOnlyAtExit
<1>14. DeletedWebsocketsAreQuiet'
  <2>1. \A n \in Server : ~(n < 1)
    BY DEF Server
  <2> QED
    BY <1>3, <1>4, <2>1 DEF DeletedWebsocketsAreQuiet, Deleted
<1> QED
  BY <1>7, <1>8, <1>9, <1>10, <1>11, <1>12, <1>13, <1>14 DEF IndInv

\* The thread of a server moves; a thread that has ended stays so.
LEMMA ServerPreserves ==
    ASSUME IndInv, NEW n \in Server,
           RaiseFlag(n) \/ TestFlag(n) \/ PollTimesOut(n) \/ ClientArrives(n)
    PROVE  IndInv'
<1> USE DEF initVars, stopVars, Server_
<1>1. /\ UNCHANGED <<main, next, created, inited, factory, security, retries, handlers, m_run,
                     joined, stopper>>
      /\ (fault' = fault \/ fault' = "deleted")
      /\ thread[n] \in {"created", "test", "wait"}
  BY DEF RaiseFlag, TestFlag, PollTimesOut, ClientArrives, Use
<1>2. \E x \in {"test", "wait", "exited"} : thread' = [thread EXCEPT ![n] = x]
  <2>1. CASE TestFlag(n)
    <3>1. PICK flag \in (IF Deleted(n) THEN BOOLEAN ELSE {m_run_thread[n]}) :
              thread' = [thread EXCEPT ![n] = IF flag THEN "wait" ELSE "exited"]
      BY <2>1 DEF TestFlag
    <3> QED
      BY <3>1
  <2>2. CASE RaiseFlag(n) \/ PollTimesOut(n) \/ ClientArrives(n)
    BY <2>2 DEF RaiseFlag, PollTimesOut, ClientArrives
  <2> QED
    BY <2>1, <2>2
<1>3. /\ thread' \in [Server -> {"none", "created", "test", "wait", "exited"}]
      /\ \A k \in Server : /\ thread[k] = "exited" => thread'[k] = "exited"
                           /\ thread'[k] = "none" <=> thread[k] = "none"
  BY <1>1, <1>2, Types
<1>4. m_run_thread' \in [Server -> BOOLEAN]
  BY Types DEF RaiseFlag, TestFlag, PollTimesOut, ClientArrives, threadVars
<1>5. TypeOK'
  BY <1>1, <1>3, <1>4 DEF IndInv, TypeOK
<1>6. InitProgress' /\ FirstInitMeansInitialized'
  BY <1>1 DEF IndInv, InitProgress, FirstInitMeansInitialized, InitMeansInitialized, Initialising
<1>7. ThreadsStarted'
  <2>1. \A k \in 1..created : k \in Server
    BY Types DEF Server
  <2> QED
    BY <1>1, <1>3, <2>1 DEF IndInv, ThreadsStarted, Initialising
<1>8. \A c \in Calls : StopProgress(c)'
  BY <1>1 DEF IndInv, StopProgress, Active
<1>9. SignalsHandled' /\ ExitFollowsStop'
  BY <1>1 DEF IndInv, SignalsHandled, ExitFollowsStop, SomeStopDone, Active
<1>10. JoinedPassed' /\ LonePassed'
  <2>1. joined \subseteq Server
    BY DEF IndInv, TypeOK
  <2>2. JoinedPassed'
    BY <1>1, <1>3, <2>1 DEF IndInv, JoinedPassed, Active
  <2>3. LonePassed'
    BY <1>1, <1>3 DEF IndInv, LonePassed, Lone, Active
  <2> QED
    BY <2>2, <2>3
<1>11. JoinsGoWrongOnlyAtExit'
  <2>1. fault = "none"
    BY DEF RaiseFlag, TestFlag, PollTimesOut, ClientArrives, Running
  <2> QED
    BY <1>1, <2>1 DEF JoinsGoWrongOnlyAtExit
<1>12. DeletedWebsocketsAreQuiet'
  BY <1>1, <1>3 DEF IndInv, DeletedWebsocketsAreQuiet, Deleted
<1> QED
  BY <1>5, <1>6, <1>7, <1>8, <1>9, <1>10, <1>11, <1>12 DEF IndInv

-----------------------------------------------------------------------------
(* Signals and stop().                                                     *)

\* A handler begins to stop the servers, from the first one.
LEMMA SignalPreserves ==
    ASSUME IndInv, NEW c \in Signals, NEW t \in Thread, Signal(c, t)
    PROVE  IndInv'
<1> DEFINE r == [on |-> t, at |-> 1, phase |-> "flag", began |-> Progress]
<1>1. /\ Running /\ handlers /\ ~Active(c) /\ stopper' = [stopper EXCEPT ![c] = r]
      /\ UNCHANGED <<main, next, created, inited, factory, security, retries, handlers, m_run,
                     thread, m_run_thread, joined, fault>>
  BY DEF Signal, Active, initVars, threadVars
<1>2. r \in StopperType
  <2>1. 1 \in 0..(N + 1) /\ Progress \in {"starting", "raising", "up", "exit"}
    BY ConstantsAssumption DEF Progress
  <2> QED
    BY <2>1 DEF StopperType
<1>3. stopper' \in [Calls -> StopperType] /\ stopper'[c] = r /\ c \in Calls
      /\ \A d \in Calls \ {c} : stopper'[d] = stopper[d]
  BY <1>1, <1>2, Types, CallsAndSignals
<1>4. r.at = 1 /\ r.phase = "flag" /\ (r.began # "starting" => main \in {"loop", "exit"})
  BY DEF Progress
<1> HIDE DEF r
<1>5. Active(c)' /\ \A d \in Calls \ {c} : Active(d)' <=> Active(d)
  BY <1>3, <1>4 DEF Active
<1>6. SomeStopDone => SomeStopDone'
  BY <1>1, <1>3, CallsAndSignals DEF SomeStopDone, Active
<1>7. TypeOK'
  BY <1>1, <1>3 DEF IndInv, TypeOK, StopperType
<1>8. InitProgress' /\ FirstInitMeansInitialized' /\ ThreadsStarted'
  BY <1>1 DEF IndInv, InitProgress, FirstInitMeansInitialized, InitMeansInitialized,
              ThreadsStarted, Initialising
<1>9. \A d \in Calls : StopProgress(d)'
  BY <1>1, <1>3, <1>4, <1>5 DEF IndInv, StopProgress
<1>10. SignalsHandled'
  BY <1>1, <1>3, <1>4, <1>5, CallsAndSignals DEF IndInv, SignalsHandled
<1>11. ExitFollowsStop'
  <2>1. stopper'[0] = stopper[0] /\ (Active(0)' <=> Active(0))
    BY <1>3, <1>5, CallsAndSignals
  <2> QED
    BY <1>1, <1>6, <2>1 DEF IndInv, ExitFollowsStop
<1>12. JoinedPassed'
  <2>1. \A n \in joined : thread[n] = "exited"
            /\ \E d \in Calls \ {c} : Active(d) /\ stopper[d].at > n
    BY <1>1 DEF IndInv, JoinedPassed
  <2> QED
    BY <1>1, <1>3, <1>5, <2>1 DEF JoinedPassed
<1>13. LonePassed'
  <2>1. SUFFICES ASSUME NEW d \in Signals, Lone(d)', NEW n \in Server, n < stopper'[d].at
                 PROVE  FALSE
    BY DEF LonePassed
  <2>2. d = c
    BY <1>5, <2>1, CallsAndSignals DEF Lone
  <2>3. n < 1 /\ n >= 1
    BY <1>3, <1>4, <2>1, <2>2 DEF Server
  <2> QED
    BY <2>3 DEF Server
<1>14. JoinsGoWrongOnlyAtExit'
  BY <1>1 DEF Running, JoinsGoWrongOnlyAtExit
<1>15. DeletedWebsocketsAreQuiet'
  <2>1. stopper'[0] = stopper[0]
    BY <1>3, CallsAndSignals
  <2>2. TwoSignals => TwoSignals'
    BY <1>5, CallsAndSignals DEF TwoSignals
  <2> QED
    BY <1>1, <2>1, <2>2 DEF IndInv, DeletedWebsocketsAreQuiet, Deleted, TwoSignals, Active
<1> QED
  BY <1>7, <1>8, <1>9, <1>10, <1>11, <1>12, <1>13, <1>14, <1>15 DEF IndInv

\* What a stop() about to join finds: a lone one joins every thread but its own, and
\* the destructors are refused only where another stop() waits.
LEMMA JoinFinds ==
    ASSUME IndInv, Running, NEW c \in Calls, stopper[c].phase = "join"
    PROVE  /\ stopper[c].at \in Server /\ stopper[c].at <= created
           /\ c \in Signals /\ Lone(c) =>
                /\ thread[stopper[c].at] # "none" /\ stopper[c].at \notin joined
                /\ Refused(stopper[c].at, stopper[c].on) => stopper[c].on = stopper[c].at
           /\ c = 0 =>
                /\ thread[stopper[c].at] # "none"
                /\ stopper[c].at \in joined => thread[stopper[c].at] = "exited"
                /\ Refused(stopper[c].at, stopper[c].on) => TwoSignals
<1> DEFINE n == stopper[c].at
<1>1. /\ Active(c) /\ n \in Nat /\ n >= 1 /\ n <= created
  <2>1. stopper[c] \in StopperType /\ StopProgress(c) /\ Active(c)
    BY Types DEF IndInv, Active
  <2>2. n \in 0..(N + 1) /\ N \in Nat
    BY <2>1, ConstantsAssumption DEF StopperType
  <2> QED
    BY <2>1, <2>2 DEF StopProgress
<1>2. n \in Server /\ n \in 1..created /\ n # 0
  BY <1>1, Types DEF Server
<1> HIDE DEF n
<1>3. Active(0) => SomeStopDone /\ stopper[0].on = 0 /\ main \in {"exit", "exited"}
  BY DEF IndInv, ExitFollowsStop
<1>4. ASSUME c \in Signals, Lone(c)
      PROVE  /\ thread[n] # "none" /\ n \notin joined
             /\ Refused(n, stopper[c].on) => stopper[c].on = n
  <2>1. \A d \in Calls : d # c => ~Active(d)
    <3>1. \A d \in Signals : d # c => ~Active(d)
      BY <1>4 DEF Lone
    <3>2. ~SomeStopDone
      BY <3>1 DEF SomeStopDone, Active
    <3> QED
      BY <1>3, <3>1, <3>2, CallsAndSignals
  <2>2. main \in {"loop", "exit"}
    BY <1>4 DEF Lone, IndInv, SignalsHandled, Running
  <2>3. thread[n] # "none"
    BY <1>2, <2>2 DEF IndInv, ThreadsStarted
  <2>4. n \notin joined
    BY <1>1, <2>1 DEF IndInv, JoinedPassed, n
  <2>5. \A d \in Calls : stopper[d].phase # "waiting"
    BY <2>1 DEF Active
  <2> QED
    BY <2>3, <2>4, <2>5 DEF Refused
<1>5. ASSUME c = 0
      PROVE  /\ thread[n] # "none" /\ (n \in joined => thread[n] = "exited")
             /\ Refused(n, stopper[c].on) => TwoSignals
  <2>1. main = "exit" /\ stopper[0].on = 0 /\ SomeStopDone
    BY <1>1, <1>3, <1>5 DEF Running
  <2>2. thread[n] # "none" /\ (n \in joined => thread[n] = "exited")
    BY <1>2, <2>1 DEF IndInv, ThreadsStarted, JoinedPassed
  <2>3. ASSUME Refused(n, stopper[c].on) PROVE TwoSignals
    <3>1. PICK d \in Calls : stopper[d].phase = "waiting"
      BY <1>2, <1>5, <2>1, <2>3 DEF Refused
    <3>2. PICK e \in Signals : stopper[e].phase = "done"
      BY <2>1 DEF SomeStopDone
    <3>3. d # 0 /\ d # e
      BY <1>5, <3>1, <3>2
    <3> QED
      BY <3>1, <3>2, <3>3, CallsAndSignals DEF TwoSignals, Active
  <2> QED
    BY <2>2, <2>3
<1> QED
  BY <1>1, <1>2, <1>4, <1>5 DEF n

\* What every step of a stop() keeps to: it only goes forward, and passes a
\* websocket server only as the invariant allows.
LEMMA StopStepPreserves ==
    ASSUME IndInv, Running, NEW c \in Calls, NEW r \in StopperType,
           Active(c), stopper[c].phase # "done",
           stopper' = [stopper EXCEPT ![c] = r],
           r.phase # "idle", r.on = stopper[c].on, r.began = stopper[c].began,
           r.at >= stopper[c].at,
           r.phase \in {"join", "waiting"} => r.at <= created,
           r.phase = "done" => r.at > created,
           UNCHANGED <<next, created, inited, factory, security, retries, handlers>>,
           main' = main \/ main' = "exited",
           m_run' = m_run \/ (c \in Signals /\ r.phase = "done" /\ m_run' = FALSE),
           thread' \in [Server -> {"none", "created", "test", "wait", "exited"}],
           \A n \in Server : /\ thread[n] = "exited" => thread'[n] = "exited"
                             /\ thread'[n] = "none" <=> thread[n] = "none",
           m_run_thread' \in [Server -> BOOLEAN],
           \/ joined' = joined
           \/ /\ joined' = joined \cup {stopper[c].at} /\ stopper[c].at \in Server
              /\ thread[stopper[c].at] = "exited" /\ r.at > stopper[c].at,
           fault' = fault \/ fault' = "deleted",
           \A n \in Server : Kind[n] = "websocket" /\ n >= stopper[c].at /\ n < r.at =>
               /\ c \in Signals /\ Lone(c) /\ stopper[c].on # n =>
                      thread[n] = "exited" /\ n \in joined'
               /\ c = 0 => thread[n] = "exited" \/ TwoSignals
    PROVE  IndInv'
<1>1. /\ stopper' \in [Calls -> StopperType] /\ stopper'[c] = r
      /\ \A d \in Calls \ {c} : stopper'[d] = stopper[d]
  BY Types
<1>2. \A d \in Calls : /\ stopper[d].at \in Int /\ stopper'[d].at \in Int
                       /\ stopper'[d].at >= stopper[d].at
  <2>1. \A q \in StopperType : q.at \in Int
    BY Types DEF StopperType
  <2>2. \A d \in Calls : stopper[d].at \in Int /\ stopper'[d].at \in Int
    BY <1>1, <2>1, Types
  <2> QED
    BY <1>1, <2>2
<1>3. \A d \in Calls : /\ Active(d)' <=> Active(d)
                       /\ stopper'[d].began = stopper[d].began
                       /\ stopper'[d].on = stopper[d].on
  BY <1>1 DEF Active
<1>4. \A d \in Signals : d \in Calls
  BY CallsAndSignals
<1>5. SomeStopDone => SomeStopDone'
  BY <1>1, <1>4 DEF SomeStopDone
<1>6. TypeOK'
  <2>1. joined' \subseteq Server
    BY DEF IndInv, TypeOK
  <2>2. main' \in {"init", "configure", "check", "create", "initServers", "initFailed",
                   "start", "loop", "exit", "exited"} /\ m_run' \in BOOLEAN
        /\ fault' \in {"none", "join", "deleted", "factory"}
    BY DEF IndInv, TypeOK
  <2> QED
    BY <1>1, <2>1, <2>2 DEF IndInv, TypeOK, StopperType
<1>7. InitProgress' /\ FirstInitMeansInitialized'
  BY DEF IndInv, InitProgress, FirstInitMeansInitialized, InitMeansInitialized, Initialising
<1>8. ThreadsStarted'
  <2>1. \A k \in 1..created : k \in Server
    BY Types DEF Server
  <2> QED
    BY <2>1 DEF IndInv, ThreadsStarted, Initialising
<1>9. \A d \in Calls : StopProgress(d)'
  <2>1. ASSUME NEW d \in Calls, d # c PROVE StopProgress(d)'
    BY <1>1, <1>3, <2>1 DEF IndInv, StopProgress
  <2>2. StopProgress(c)'
    <3>1. stopper[c].at >= 1
      BY DEF IndInv, StopProgress
    <3>2. r.at >= 1
      BY <1>1, <1>2, <3>1
    <3> QED
      BY <1>1, <3>2 DEF StopProgress
  <2> QED
    BY <2>1, <2>2
<1>10. SignalsHandled'
  BY <1>3, <1>4 DEF IndInv, SignalsHandled
<1>11. ExitFollowsStop'
  <2>1. main' = "loop" /\ ~m_run' => SomeStopDone'
    <3>1. CASE m_run' = m_run
      BY <1>5, <3>1 DEF IndInv, ExitFollowsStop
    <3>2. CASE c \in Signals /\ r.phase = "done"
      BY <1>1, <3>2 DEF SomeStopDone
    <3> QED
      BY <3>1, <3>2
  <2>2. main' = "exit" => SomeStopDone'
    BY <1>5 DEF IndInv, ExitFollowsStop
  <2>3. Active(0)' => main' \in {"exit", "exited"} /\ stopper'[0].on = 0 /\ SomeStopDone'
    BY <1>3, <1>5, CallsAndSignals DEF IndInv, ExitFollowsStop
  <2> QED
    BY <2>1, <2>2, <2>3 DEF ExitFollowsStop
<1>12. JoinedPassed'
  <2>1. ASSUME NEW n \in joined
        PROVE  thread'[n] = "exited" /\ \E d \in Calls : Active(d)' /\ stopper'[d].at > n
    <3>1. n \in Server /\ n \in Int
      BY DEF IndInv, TypeOK, Server
    <3>2. PICK d \in Calls : Active(d) /\ stopper[d].at > n
      BY DEF IndInv, JoinedPassed
    <3>3. stopper'[d].at > n
      BY <1>2, <3>1, <3>2
    <3> QED
      BY <1>3, <3>1, <3>2, <3>3 DEF IndInv, JoinedPassed
  <2>2. joined' = joined \cup {stopper[c].at} /\ r.at > stopper[c].at
        /\ thread[stopper[c].at] = "exited" /\ stopper[c].at \in Server =>
            thread'[stopper[c].at] = "exited"
            /\ \E d \in Calls : Active(d)' /\ stopper'[d].at > stopper[c].at
    BY <1>1, <1>3
  <2> QED
    BY <2>1, <2>2 DEF JoinedPassed
<1>13. LonePassed'
  <2>1. SUFFICES ASSUME NEW d \in Signals, Lone(d)', NEW n \in Server, n < stopper'[d].at,
                        Kind[n] = "websocket", stopper'[d].on # n
                 PROVE  thread'[n] = "exited" /\ n \in joined'
    BY DEF LonePassed
  <2>2. Lone(d) /\ stopper[d].on # n
    BY <1>3, <1>4, <2>1 DEF Lone
  <2>3. CASE n < stopper[d].at
    <3>1. thread[n] = "exited" /\ n \in joined
      BY <2>1, <2>2, <2>3 DEF IndInv, LonePassed
    <3> QED
      BY <3>1
  <2>4. CASE ~(n < stopper[d].at)
    <3>1. d = c
      BY <1>1, <1>4, <2>1, <2>4
    <3>2. n >= stopper[c].at /\ n < r.at
      BY <1>1, <1>2, <1>4, <2>1, <2>4, <3>1 DEF Server
    <3> QED
      BY <2>1, <2>2, <3>1, <3>2
  <2> QED
    BY <2>3, <2>4
<1>14. JoinsGoWrongOnlyAtExit'
  BY DEF Running, JoinsGoWrongOnlyAtExit
<1>15. DeletedWebsocketsAreQuiet'
  <2>1. SUFFICES ASSUME NEW n \in Server, Deleted(n)', Kind[n] = "websocket"
                 PROVE  thread'[n] = "exited" \/ TwoSignals'
    BY DEF DeletedWebsocketsAreQuiet, TwoSignals, Active
  <2>2. TwoSignals => TwoSignals'
    BY <1>3, <1>4 DEF TwoSignals
  <2>3. Active(0) /\ n < stopper'[0].at
    BY <1>3, <2>1, CallsAndSignals DEF Deleted, Active
  <2>4. CASE n < stopper[0].at
    <3>1. thread[n] = "exited" \/ TwoSignals
      BY <2>1, <2>3, <2>4 DEF IndInv, DeletedWebsocketsAreQuiet, Deleted, Active, TwoSignals
    <3> QED
      BY <2>2, <3>1
  <2>5. CASE ~(n < stopper[0].at)
    <3>1. c = 0
      BY <1>1, <2>3, <2>5, CallsAndSignals
    <3>2. n >= stopper[c].at /\ n < r.at
      BY <1>1, <1>2, <2>3, <2>5, <3>1, CallsAndSignals DEF Server
    <3> QED
      BY <2>1, <2>2, <3>1, <3>2
  <2> QED
    BY <2>4, <2>5
<1> QED
  BY <1>6, <1>7, <1>8, <1>9, <1>10, <1>11, <1>12, <1>13, <1>14, <1>15 DEF IndInv

\* The record of a stop() that goes on to the next server.
LEMMA AdvanceIs ==
    ASSUME IndInv, NEW c \in Calls, stopper[c].at <= created
    PROVE  /\ Advance(c) \in StopperType
           /\ Advance(c).phase = "flag" /\ Advance(c).on = stopper[c].on
           /\ Advance(c).began = stopper[c].began /\ Advance(c).at = stopper[c].at + 1
           /\ stopper[c].at \in Int
<1>1. stopper[c] \in StopperType /\ created \in 0..N /\ N \in Nat
  BY Types
<1>2. stopper[c].at + 1 \in 0..(N + 1) /\ stopper[c].at \in Int
  BY <1>1 DEF StopperType
<1> QED
  BY <1>1, <1>2 DEF Advance, StopperType

\* Past server n = stopper[c].at, and no other.
LEMMA AdvancePasses ==
    ASSUME IndInv, NEW c \in Calls, stopper[c].at <= created,
           NEW n \in Server, n >= stopper[c].at, n < Advance(c).at
    PROVE  n = stopper[c].at
  BY AdvanceIs DEF Server

\* The record of a stop() that changes its phase at the same server.
LEMMA PhaseIs ==
    ASSUME IndInv, NEW c \in Calls, NEW p \in {"flag", "join", "waiting", "done"}
    PROVE  /\ [stopper[c] EXCEPT !.phase = p] \in StopperType
           /\ [stopper[c] EXCEPT !.phase = p].phase = p
           /\ [stopper[c] EXCEPT !.phase = p].on = stopper[c].on
           /\ [stopper[c] EXCEPT !.phase = p].began = stopper[c].began
           /\ [stopper[c] EXCEPT !.phase = p].at = stopper[c].at
           /\ stopper[c].at \in Int
<1>1. stopper[c] \in StopperType /\ N \in Nat
  BY Types
<1> QED
  BY <1>1 DEF StopperType

\* The flag is lowered, and a server that is not joined is passed.
LEMMA LowerFlagPreserves ==
    ASSUME IndInv, NEW c \in Calls, LowerFlag(c)
    PROVE  IndInv'
<1> DEFINE n == stopper[c].at
           r == IF Kind[n] = "websocket" THEN [stopper[c] EXCEPT !.phase = "join"] ELSE Advance(c)
<1>1. /\ Running /\ stopper[c].phase = "flag" /\ n <= created
      /\ m_run_thread' = [m_run_thread EXCEPT ![n] = FALSE]
      /\ stopper' = [stopper EXCEPT ![c] = r]
      /\ (fault' = fault \/ fault' = "deleted")
      /\ UNCHANGED <<main, next, created, inited, factory, security, retries, handlers, m_run,
                     thread, joined>>
  <2>1. stopper' = [stopper EXCEPT ![c] = r]
    BY Types DEF LowerFlag
  <2> QED
    BY <2>1 DEF LowerFlag, Use, initVars
<1>2. Active(c) /\ stopper[c].phase # "done"
  BY <1>1 DEF Active
<1>3. /\ r \in StopperType /\ r.phase # "idle" /\ r.phase # "done" /\ r.on = stopper[c].on
      /\ r.began = stopper[c].began /\ r.at >= n
      /\ (r.phase \in {"join", "waiting"} => r.at <= created)
  <2>1. CASE Kind[n] = "websocket"
    <3>1. r = [stopper[c] EXCEPT !.phase = "join"]
      BY <2>1
    <3> HIDE DEF r
    <3>2. /\ r \in StopperType /\ r.phase = "join" /\ r.on = stopper[c].on
          /\ r.began = stopper[c].began /\ r.at = n /\ n \in Int
      BY <3>1, PhaseIs
    <3> HIDE DEF n
    <3> QED
      BY <1>1, <3>2
  <2>2. CASE Kind[n] # "websocket"
    <3>1. r = Advance(c)
      BY <2>2
    <3>2. /\ r \in StopperType /\ r.phase = "flag" /\ r.on = stopper[c].on
          /\ r.began = stopper[c].began /\ r.at = n + 1 /\ n \in Int
      BY <1>1, <3>1, AdvanceIs
    <3> HIDE DEF r, n
    <3> QED
      BY <3>2
  <2> QED
    BY <2>1, <2>2
<1>4. \A k \in Server : ~(Kind[k] = "websocket" /\ k >= n /\ k < r.at)
  <2>1. SUFFICES ASSUME NEW k \in Server, Kind[k] = "websocket", k >= n, k < r.at
                 PROVE  FALSE
    OBVIOUS
  <2>2. CASE Kind[n] = "websocket"
    <3>1. r.at = n /\ n \in Int
      BY <2>2, PhaseIs
    <3> QED
      BY <2>1, <3>1 DEF Server
  <2>3. CASE Kind[n] # "websocket"
    <3>1. k = n
      BY <1>1, <2>1, <2>3, AdvancePasses
    <3> QED
      BY <2>1, <2>3, <3>1
  <2> QED
    BY <2>2, <2>3
<1>5. /\ m_run_thread' \in [Server -> BOOLEAN]
      /\ thread' \in [Server -> {"none", "created", "test", "wait", "exited"}]
      /\ \A k \in Server : /\ thread[k] = "exited" => thread'[k] = "exited"
                           /\ thread'[k] = "none" <=> thread[k] = "none"
  BY <1>1, Types
<1> HIDE DEF r, n
<1> QED
  BY <1>1, <1>2, <1>3, <1>4, <1>5, StopStepPreserves DEF n

\* A joiner begins to wait.
LEMMA JoinBeginsPreserves ==
    ASSUME IndInv, NEW c \in Calls, JoinBegins(c)
    PROVE  IndInv'
<1> DEFINE r == [stopper[c] EXCEPT !.phase = "waiting"]
<1>1. /\ Running /\ stopper[c].phase = "join"
      /\ stopper' = [stopper EXCEPT ![c] = r]
      /\ UNCHANGED <<main, next, created, inited, factory, security, retries, handlers, m_run,
                     thread, m_run_thread, joined, fault>>
  <2>1. stopper' = [stopper EXCEPT ![c] = r]
    BY Types DEF JoinBegins
  <2> QED
    BY <2>1 DEF JoinBegins, initVars, threadVars
<1>2. Active(c) /\ stopper[c].phase # "done" /\ stopper[c].at <= created
  BY <1>1, JoinFinds DEF Active
<1>3. /\ r \in StopperType /\ r.phase = "waiting" /\ r.on = stopper[c].on
      /\ r.began = stopper[c].began /\ r.at = stopper[c].at /\ stopper[c].at \in Int
  BY PhaseIs
<1> HIDE DEF r
<1>4. \A k \in Server : ~(k >= stopper[c].at /\ k < r.at)
  BY <1>3 DEF Server
<1>5. /\ m_run_thread' \in [Server -> BOOLEAN]
      /\ thread' \in [Server -> {"none", "created", "test", "wait", "exited"}]
      /\ \A k \in Server : /\ thread[k] = "exited" => thread'[k] = "exited"
                           /\ thread'[k] = "none" <=> thread[k] = "none"
  BY <1>1, Types
<1>6. r.at >= stopper[c].at /\ r.phase # "idle" /\ r.phase # "done" /\ r.at <= created
  BY <1>2, <1>3
<1> QED
  BY <1>1, <1>2, <1>3, <1>4, <1>5, <1>6, StopStepPreserves

\* A stop() passes a server it was to join.
LEMMA JoinEndsPreserves ==
    ASSUME IndInv, NEW c \in Calls, Running, stopper[c].phase \in {"join", "waiting"},
           stopper' = [stopper EXCEPT ![c] = Advance(c)],
           UNCHANGED <<main, next, created, inited, factory, security, retries, handlers, m_run,
                       thread, m_run_thread, fault>>,
           \/ joined' = joined
           \/ joined' = joined \cup {stopper[c].at} /\ thread[stopper[c].at] = "exited",
           c \in Signals /\ Lone(c) /\ stopper[c].on # stopper[c].at =>
               thread[stopper[c].at] = "exited" /\ stopper[c].at \in joined',
           c = 0 => thread[stopper[c].at] = "exited" \/ TwoSignals
    PROVE  IndInv'
<1>1. Active(c) /\ stopper[c].phase # "done" /\ stopper[c].at <= created
      /\ stopper[c].at \in Server
  <2>1. StopProgress(c) /\ Active(c) /\ stopper[c] \in StopperType
    BY Types DEF Active, IndInv
  <2>2. stopper[c].at >= 1 /\ stopper[c].at <= created
    BY <2>1 DEF StopProgress
  <2>3. stopper[c].at \in Int
    BY <2>1, Types DEF StopperType
  <2> QED
    BY <2>1, <2>2, <2>3, Types DEF Server
<1> DEFINE r == Advance(c)
<1>2. /\ r \in StopperType /\ r.phase = "flag" /\ r.on = stopper[c].on
      /\ r.began = stopper[c].began /\ r.at = stopper[c].at + 1 /\ stopper[c].at \in Int
  BY <1>1, AdvanceIs
<1>3. \A k \in Server : k >= stopper[c].at /\ k < r.at => k = stopper[c].at
  BY <1>1, AdvancePasses
<1> HIDE DEF r
<1>4. r.at >= stopper[c].at /\ r.at > stopper[c].at /\ r.phase # "idle" /\ r.phase # "done"
      /\ r.phase \notin {"join", "waiting"}
  BY <1>2
<1>5. /\ m_run_thread' \in [Server -> BOOLEAN]
      /\ thread' \in [Server -> {"none", "created", "test", "wait", "exited"}]
      /\ \A k \in Server : /\ thread[k] = "exited" => thread'[k] = "exited"
                           /\ thread'[k] = "none" <=> thread[k] = "none"
  BY Types
<1>6. stopper' = [stopper EXCEPT ![c] = r]
  BY DEF r
<1>7. \A k \in Server : Kind[k] = "websocket" /\ k >= stopper[c].at /\ k < r.at =>
               /\ c \in Signals /\ Lone(c) /\ stopper[c].on # k =>
                      thread[k] = "exited" /\ k \in joined'
               /\ c = 0 => thread[k] = "exited" \/ TwoSignals
  BY <1>3
<1> QED
  BY <1>1, <1>2, <1>4, <1>5, <1>6, <1>7, StopStepPreserves

\* pthread_join returns, is refused, or is undefined.
LEMMA JoinPreserves ==
    ASSUME IndInv, NEW c \in Calls, JoinReturns(c) \/ JoinRefused(c) \/ JoinUndefined(c)
    PROVE  IndInv'
<1> USE DEF initVars, threadVars
<1>1. CASE JoinReturns(c)
  BY <1>1, JoinEndsPreserves DEF JoinReturns
<1>2. CASE JoinRefused(c)
  <2>1. /\ Running /\ stopper[c].phase = "join"
        /\ Refused(stopper[c].at, stopper[c].on)
        /\ stopper' = [stopper EXCEPT ![c] = Advance(c)]
        /\ UNCHANGED <<main, next, created, inited, factory, security, retries, handlers, m_run,
                       thread, m_run_thread, joined, fault>>
    BY <1>2 DEF JoinRefused
  <2>2. /\ c \in Signals /\ Lone(c) => stopper[c].on = stopper[c].at
        /\ c = 0 => TwoSignals
    BY <2>1, JoinFinds
  <2> QED
    BY <2>1, <2>2, JoinEndsPreserves
<1>3. CASE JoinUndefined(c)
  <2>1. /\ Running /\ stopper[c].phase = "join"
        /\ thread[stopper[c].at] = "none" \/ stopper[c].at \in joined
        /\ UNCHANGED <<main, next, created, inited, factory, security, retries, handlers, m_run,
                       thread, m_run_thread, joined>>
        /\ \/ fault' = "join" /\ UNCHANGED stopper
           \/ stopper' = [stopper EXCEPT ![c] = Advance(c)] /\ UNCHANGED fault
    BY <1>3 DEF JoinUndefined
  <2>2. /\ ~(c \in Signals /\ Lone(c))
        /\ c = 0 => thread[stopper[c].at] = "exited"
    BY <2>1, JoinFinds
  <2>3. CASE stopper' = [stopper EXCEPT ![c] = Advance(c)] /\ UNCHANGED fault
    BY <2>1, <2>2, <2>3, JoinEndsPreserves
  <2>4. CASE fault' = "join" /\ UNCHANGED stopper
    <3>1. Active(c)
      BY <2>1 DEF Active
    <3>2. ASSUME OneLateStop
          PROVE  /\ main = "exit" /\ stopper[0].phase = "join" /\ stopper[0].at \in joined
                 /\ \A n \in Server : Kind[n] = "websocket" =>
                        thread[n] = "exited" \/ \E d \in Signals : stopper[d].on = n
      <4>1. c = 0
        <5>1. c \in Signals => Lone(c)
          BY <3>1, <3>2 DEF OneLateStop, Lone, Active
        <5> QED
          BY <2>2, <5>1, CallsAndSignals
      <4>2. main = "exit" /\ SomeStopDone
        BY <2>1, <3>1, <4>1 DEF IndInv, ExitFollowsStop, Running
      <4>3. stopper[0].at \in joined
        BY <2>1, <4>1, JoinFinds
      <4>4. PICK d \in Signals : stopper[d].phase = "done"
        BY <4>2 DEF SomeStopDone
      <4>5. Lone(d) /\ d \in Calls
        BY <3>2, <4>4, CallsAndSignals DEF OneLateStop, Lone, Active
      <4>6. created = N /\ stopper[d].at > created
        BY <4>4, <4>5 DEF IndInv, SignalsHandled, InitProgress, StopProgress, Active
      <4>7. \A n \in Server : n < stopper[d].at
        <5>1. stopper[d].at \in Int /\ N \in Nat
          BY <4>5, Types DEF StopperType
        <5> QED
          BY <4>6, <5>1 DEF Server
      <4>8. \A n \in Server : Kind[n] = "websocket" /\ stopper[d].on # n => thread[n] = "exited"
        BY <4>5, <4>7 DEF IndInv, LonePassed
      <4> QED
        BY <2>1, <4>1, <4>2, <4>3, <4>8
    <3>3. JoinsGoWrongOnlyAtExit'
      <4>1. OneLateStop' <=> OneLateStop
        BY <2>4 DEF OneLateStop
      <4> QED
        BY <2>1, <2>4, <3>2, <4>1 DEF JoinsGoWrongOnlyAtExit
    <3>4. TypeOK'
      BY <2>1, <2>4 DEF IndInv, TypeOK
    <3>5. InitProgress' /\ FirstInitMeansInitialized' /\ ThreadsStarted'
      BY <2>1 DEF IndInv, InitProgress, FirstInitMeansInitialized, InitMeansInitialized,
                  ThreadsStarted, Initialising
    <3>6. \A d \in Calls : Active(d)' <=> Active(d)
      BY <2>4 DEF Active
    <3>7. (\A d \in Calls : StopProgress(d)') /\ SignalsHandled' /\ ExitFollowsStop'
      BY <2>1, <2>4, <3>6, CallsAndSignals
         DEF IndInv, StopProgress, SignalsHandled, ExitFollowsStop, SomeStopDone
    <3>8. JoinedPassed' /\ LonePassed' /\ DeletedWebsocketsAreQuiet'
      BY <2>1, <2>4, <3>6, CallsAndSignals
         DEF IndInv, JoinedPassed, LonePassed, Lone, DeletedWebsocketsAreQuiet, Deleted
    <3> QED
      BY <3>3, <3>4, <3>5, <3>7, <3>8 DEF IndInv
  <2> QED
    BY <2>1, <2>3, <2>4
<1> QED
  BY <1>1, <1>2, <1>3

\* A stop() returns, or the last server is deleted.
LEMMA StopEndsPreserves ==
    ASSUME IndInv, NEW c \in Calls, (c \in Signals /\ StopDone(c)) \/ (c = 0 /\ ExitDone)
    PROVE  IndInv'
<1> DEFINE r == [stopper[c] EXCEPT !.phase = "done"]
<1>1. /\ Running /\ stopper[c].phase = "flag" /\ stopper[c].at > created
      /\ stopper' = [stopper EXCEPT ![c] = r]
      /\ (main' = main \/ main' = "exited")
      /\ m_run' = m_run \/ (c \in Signals /\ m_run' = FALSE)
      /\ UNCHANGED <<next, created, inited, factory, security, retries, handlers, m_run_thread,
                     joined, fault>>
  <2>1. stopper' = [stopper EXCEPT ![c] = r]
    BY Types DEF StopDone, ExitDone
  <2> QED
    BY <2>1 DEF StopDone, ExitDone, initVars, threadVars
<1>2. /\ thread' \in [Server -> {"none", "created", "test", "wait", "exited"}]
      /\ \A k \in Server : /\ thread[k] = "exited" => thread'[k] = "exited"
                           /\ thread'[k] = "none" <=> thread[k] = "none"
  <2>1. CASE StopDone(c)
    <3>1. thread' = [n \in Server |->
              IF n = stopper[c].on /\ thread[n] = "wait" /\ Kind[n] = "epoll" THEN "test"
              ELSE thread[n]]
      BY <2>1 DEF StopDone
    <3> QED
      BY <3>1, Types
  <2>2. CASE ExitDone
    BY <2>2, Types DEF ExitDone, threadVars
  <2> QED
    BY <2>1, <2>2
<1>3. Active(c) /\ stopper[c].phase # "done"
  BY <1>1 DEF Active
<1>4. /\ r \in StopperType /\ r.phase = "done" /\ r.on = stopper[c].on
      /\ r.began = stopper[c].began /\ r.at = stopper[c].at /\ stopper[c].at \in Int
  BY PhaseIs
<1> HIDE DEF r
<1>5. \A k \in Server : ~(k >= stopper[c].at /\ k < r.at)
  BY <1>4 DEF Server
<1>6. r.at >= stopper[c].at /\ r.phase # "idle" /\ r.at > created
      /\ r.phase \notin {"join", "waiting"} /\ m_run_thread' \in [Server -> BOOLEAN]
  BY <1>1, <1>4, Types
<1> QED
  BY <1>1, <1>2, <1>3, <1>4, <1>5, <1>6, StopStepPreserves

-----------------------------------------------------------------------------
(* The invariant.                                                          *)

\* The process starts with nothing created, nothing running and no handler.
LEMMA InitEstablishes ==
    ASSUME Init
    PROVE  IndInv
<1> USE DEF Init
<1>1. N \in Nat \ {0} /\ InitRetries \in Nat /\ factory \in {"null", "garbage"}
      /\ MaxSignals \in Nat
  BY ConstantsAssumption
<1>2. Idle \in StopperType
  <2>1. 0 \in 0..(N + 1) /\ 0 \in Thread
    BY <1>1 DEF Thread
  <2> QED
    BY <2>1 DEF Idle, StopperType
<1>3. TypeOK
  <2>1. stopper \in [Calls -> StopperType]
    BY <1>2
  <2>2. /\ created \in 0..N /\ next \in 1..(N + 1) /\ retries \in 0..InitRetries
        /\ inited \subseteq Server /\ joined \subseteq Server
    BY <1>1
  <2>3. /\ thread \in [Server -> {"none", "created", "test", "wait", "exited"}]
        /\ m_run_thread \in [Server -> BOOLEAN]
    OBVIOUS
  <2> QED
    BY <1>1, <2>1, <2>2, <2>3 DEF TypeOK, StopperType
<1>4. InitProgress /\ FirstInitMeansInitialized /\ ThreadsStarted
  BY <1>1 DEF InitProgress, FirstInitMeansInitialized, InitMeansInitialized, ThreadsStarted,
              Initialising
<1>5. \A c \in Calls : stopper[c].phase = "idle" /\ ~Active(c)
  BY DEF Idle, Active
<1>6. (\A c \in Calls : StopProgress(c)) /\ SignalsHandled /\ ExitFollowsStop
  BY <1>5, CallsAndSignals DEF StopProgress, SignalsHandled, ExitFollowsStop
<1>7. JoinedPassed /\ LonePassed /\ JoinsGoWrongOnlyAtExit
  BY <1>5, CallsAndSignals DEF JoinedPassed, LonePassed, Lone, JoinsGoWrongOnlyAtExit
<1>8. DeletedWebsocketsAreQuiet
  BY <1>5, CallsAndSignals DEF DeletedWebsocketsAreQuiet, Deleted
<1> QED
  BY <1>3, <1>4, <1>6, <1>7, <1>8 DEF IndInv

\* Every step of main(), of a thread, of a handler or of the destructors keeps it.
LEMMA NextPreserves ==
    ASSUME IndInv, [Next]_vars
    PROVE  IndInv'
<1>1. CASE MainStep
  <2>1. CASE ExitDone
    BY <2>1, StopEndsPreserves, CallsAndSignals
  <2>2. CASE MainReturns
    BY <2>2, MainReturnsPreserves
  <2>3. CASE StartServer \/ StartNowhere \/ StartDone
    BY <2>3, StartPreserves
  <2>4. CASE \/ InitFactory \/ ReadConfiguration \/ CheckRestrictions \/ CreateServer
             \/ InitAgain \/ InitServer \/ InstallHandlers \/ GiveUp
    BY <2>4, InitPreserves
  <2> QED
    BY <1>1, <2>1, <2>2, <2>3, <2>4 DEF MainStep
<1>2. CASE RetryInit
  BY <1>2, InitPreserves
<1>3. ASSUME NEW n \in Server, ServerStep(n) \/ ClientArrives(n) PROVE IndInv'
  BY <1>3, ServerPreserves DEF ServerStep
<1>4. ASSUME NEW c \in Calls, StopStep(c) PROVE IndInv'
  BY <1>4, LowerFlagPreserves, JoinBeginsPreserves, JoinPreserves DEF StopStep
<1>5. ASSUME NEW c \in Signals, StopDone(c) PROVE IndInv'
  BY <1>5, StopEndsPreserves, CallsAndSignals
<1>6. ASSUME NEW c \in Signals, NEW t \in Thread, Signal(c, t) PROVE IndInv'
  BY <1>6, SignalPreserves
<1>7. CASE UNCHANGED vars
  <2> USE <1>7 DEF vars
  <2>1. TypeOK'
    BY DEF IndInv, TypeOK
  <2>2. InitProgress' /\ FirstInitMeansInitialized' /\ ThreadsStarted'
    BY DEF IndInv, InitProgress, FirstInitMeansInitialized, InitMeansInitialized,
           ThreadsStarted, Initialising
  <2>3. (\A d \in Calls : StopProgress(d)') /\ SignalsHandled' /\ ExitFollowsStop'
    BY DEF IndInv, StopProgress, SignalsHandled, ExitFollowsStop, SomeStopDone, Active
  <2>4. JoinedPassed' /\ LonePassed' /\ JoinsGoWrongOnlyAtExit' /\ DeletedWebsocketsAreQuiet'
    BY DEF IndInv, JoinedPassed, LonePassed, Lone, Active, JoinsGoWrongOnlyAtExit,
           OneLateStop, DeletedWebsocketsAreQuiet, Deleted
  <2> QED
    BY <2>1, <2>2, <2>3, <2>4 DEF IndInv
<1> QED
  BY <1>1, <1>2, <1>3, <1>4, <1>5, <1>6, <1>7 DEF Next

\* The inductive invariant holds of every run of the process.
THEOREM Invariance == Spec => []IndInv
<1>1. Init => IndInv
  BY InitEstablishes
<1>2. IndInv /\ [Next]_vars => IndInv'
  BY NextPreserves
<1> QED
  BY <1>1, <1>2, PTL DEF Spec

-----------------------------------------------------------------------------
(* The properties.                                                         *)

\* Every variable keeps its type, whatever the servers and the signals.
THEOREM TypeCorrect == Spec => []TypeOK
<1>1. IndInv => TypeOK
  BY DEF IndInv
<1> QED
  BY <1>1, Invariance, PTL

\* An init() that is not repeated reports success only when every configured server
\* was created and initialised.
THEOREM FirstInitAlwaysInitializes == Spec => []FirstInitMeansInitialized
<1>1. IndInv => FirstInitMeansInitialized
  BY DEF IndInv
<1> QED
  BY <1>1, Invariance, PTL

\* A lone stop() after start() returns only when every websocket thread, but the one
\* it runs on, has ended and was joined.
THEOREM StopAlwaysWaitsForWebsockets == Spec => []StopWaitsForWebsockets
<1>1. ASSUME IndInv PROVE StopWaitsForWebsockets
  <2>1. SUFFICES ASSUME NEW c \in Signals,
                        stopper[c].phase = "done", stopper[c].began # "starting",
                        \A d \in Signals : d # c => stopper[d].phase = "idle",
                        NEW n \in Server, Kind[n] = "websocket", stopper[c].on # n
                 PROVE  thread[n] = "exited" /\ n \in joined
    BY DEF StopWaitsForWebsockets
  <2>2. Active(c) /\ Lone(c) /\ c \in Calls
    BY <2>1, CallsAndSignals DEF Lone, Active
  <2>3. created = N /\ stopper[c].at > created
    BY <1>1, <2>1, <2>2 DEF IndInv, SignalsHandled, InitProgress, StopProgress
  <2>4. stopper[c].at \in Int /\ N \in Nat
    BY <1>1, <2>2, Types DEF StopperType
  <2>5. n < stopper[c].at
    BY <2>3, <2>4 DEF Server
  <2> QED
    BY <1>1, <2>1, <2>2, <2>5 DEF IndInv, LonePassed
<1> QED
  BY <1>1, Invariance, PTL

\* With one stop() after start(), pthread_join is never given a thread that does not
\* exist or was joined before the destructors run, and what these do wrong is to join
\* again what stop() had joined.
THEOREM JoinsAlwaysRightBeforeExit == Spec => []JoinsGoWrongOnlyAtExit
<1>1. IndInv => JoinsGoWrongOnlyAtExit
  BY DEF IndInv
<1> QED
  BY <1>1, Invariance, PTL

\* A websocket server whose thread still runs is never deleted, unless two signals
\* were handled.
THEOREM DeletedWebsocketsAlwaysQuiet == Spec => []DeletedWebsocketsAreQuiet
<1>1. IndInv => DeletedWebsocketsAreQuiet
  BY DEF IndInv
<1> QED
  BY <1>1, Invariance, PTL
=============================================================================
