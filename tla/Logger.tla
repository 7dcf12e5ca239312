------------------------------- MODULE Logger -------------------------------
(***************************************************************************)
(* Logger: what every LOG_* of the library comes down to when messages are *)
(* also written to a file.  Threads call it at any time, and so does the   *)
(* signal handler, whose stop() logs on the thread it interrupted.  The    *)
(* file is protected by a mutex that is not recursive, it is named after   *)
(* the second in which it was created, and it is closed when it is full.   *)
(*                                                                         *)
(* localtime returns a pointer to one static struct tm.  Every call fills  *)
(* it in getDate, before the mutex, while the call that creates a log      *)
(* reads it to make the name of the log.                                   *)
(*                                                                         *)
(* A call whose level is off, or made before m_filewrite was set, leaves   *)
(* nothing behind.  A file's size is counted in messages.                  *)
(***************************************************************************)
EXTENDS Integers, Sequences, SequencesExt

CONSTANTS
    Thread,     \* the threads that log
    NoThread,   \* nobody holds the mutex
    FileSize,   \* the size a log may have before it is closed
    Minute,     \* the seconds of a minute: where one field of a struct tm ends
    MaxSecond,  \* bound: the seconds the clock shows
    MaxCall,    \* bound: messages logged
    MaxSignal   \* bound: signals handled while their thread is logging

ASSUME LoggerAssumption ==
    /\ NoThread \notin Thread
    /\ FileSize \in Nat /\ Minute \in Nat \ {0} /\ MaxSecond \in Nat
    /\ MaxCall \in Nat /\ MaxSignal \in Nat

Second == 0..MaxSecond
Message == 1..MaxCall
NoFile == -1

VARIABLES
    clock,               \* time(NULL)
    m_filewrite,         \* Logger::m_filewrite
    tm,                  \* the struct tm of localtime: the second it shows
    m_log_filename,      \* Logger::m_log_filename: the second in the name, or NoFile
    m_log_fp,            \* Logger::m_log_fp: the second its file is named after, or NoFile
    m_filelogging_mutex, \* Logger::m_filelogging_mutex: who holds it
    files,               \* files[s]: the messages in the log named after second s
    calls,               \* calls[t]: the calls t is in, a handler's after the one it interrupted
    made,                \* messages logged so far
    signals              \* signals handled so far

vars == <<clock, m_filewrite, tm, m_log_filename, m_log_fp, m_filelogging_mutex, files,
          calls, made, signals>>
fileVars == <<m_log_filename, m_log_fp, files>>
boundVars == <<m_filewrite, made, signals>>

Init ==
    /\ clock = 0
    /\ m_filewrite = FALSE
    /\ tm = 0
    /\ m_log_filename = NoFile
    /\ m_log_fp = NoFile
    /\ m_filelogging_mutex = NoThread
    /\ files = [s \in Second |-> <<>>]
    /\ calls = [t \in Thread |-> <<>>]
    /\ made = 0
    /\ signals = 0

\* A thread runs the call made last.  now is what the call last read from the clock.
Top(t) == calls[t][Len(calls[t])]
At(t, place) == calls[t] # <<>> /\ Top(t).at = place
Move(t, place, time) ==
    calls' = [calls EXCEPT ![t][Len(calls[t])] = [@ EXCEPT !.at = place, !.now = time]]
Goto(t, place) == Move(t, place, Top(t).now)

\* LOGGING up to time(0) in getDate.
Begin(t) ==
    calls' = [calls EXCEPT ![t] = Append(@, [msg |-> made + 1, at |-> "date", now |-> clock])]

\* The seconds that calls under way have read, and those of calls in localtime.
Nows == {s \in Second : \E t \in Thread : \E n \in DOMAIN calls[t] : calls[t][n].now = s}
InLocaltime == {s \in Second : \E t \in Thread : \E n \in DOMAIN calls[t] :
                    calls[t][n].at = "date" /\ calls[t][n].now = s}

\* What a struct tm may show whose fields were written from several times.
Fields(times) == {s \in Second : \E a, b \in times : /\ s \div Minute = a \div Minute
                                                     /\ s % Minute = b % Minute}

\* Time passes; the bound ends it.
Tick ==
    /\ clock < MaxSecond
    /\ clock' = clock + 1
    /\ UNCHANGED <<m_filewrite, tm, fileVars, m_filelogging_mutex, calls, made, signals>>

\* Logger::setLogLevel, called by ServerFactory::init.
SetLogLevel ==
    /\ ~m_filewrite
    /\ m_filewrite' = TRUE
    /\ UNCHANGED <<clock, tm, fileVars, m_filelogging_mutex, calls, made, signals>>

\* Logger::info, debug, warning or error of an enabled level.
Call(t) ==
    /\ m_filewrite /\ calls[t] = <<>> /\ made < MaxCall
    /\ made' = made + 1
    /\ Begin(t)
    /\ UNCHANGED <<clock, m_filewrite, tm, fileVars, m_filelogging_mutex, signals>>

\* A signal is handled on a thread that is in the middle of such a call;
\* AnyServerImpl::stop and everything below it log there.
Interrupt(t) ==
    /\ calls[t] # <<>> /\ made < MaxCall /\ signals < MaxSignal
    /\ signals' = signals + 1
    /\ made' = made + 1
    /\ Begin(t)
    /\ UNCHANGED <<clock, m_filewrite, tm, fileVars, m_filelogging_mutex>>

\* The rest of getDate: localtime, without the mutex.
GetDate(t) ==
    /\ At(t, "date")
    /\ tm' = Top(t).now
    /\ Goto(t, "lock")
    /\ UNCHANGED <<clock, fileVars, m_filelogging_mutex, boundVars>>

\* Mutant: only the creation of the file is protected.
LockToCreateOnly(t) ==
    /\ At(t, "lock")
    /\ \/ m_log_fp # NoFile /\ UNCHANGED m_filelogging_mutex
       \/ /\ m_log_fp = NoFile /\ m_filelogging_mutex = NoThread
          /\ m_filelogging_mutex' = t
    /\ Goto(t, IF m_log_fp # NoFile THEN "write" ELSE "create")
    /\ UNCHANGED <<clock, tm, fileVars, boundVars>>

\* pthread_mutex_lock, and the test of m_log_fp.
Lock(t) ==
    /\ At(t, "lock") /\ m_filelogging_mutex = NoThread
    /\ m_filelogging_mutex' = t
    /\ Goto(t, IF m_log_fp # NoFile THEN "write" ELSE "create")
    /\ UNCHANGED <<clock, tm, fileVars, boundVars>>

\* fwrite and fflush.
Write(t) ==
    /\ At(t, "write") /\ m_log_fp # NoFile
    /\ files' = [files EXCEPT ![m_log_fp] = Append(@, Top(t).msg)]
    /\ Goto(t, "stat")
    /\ UNCHANGED <<clock, tm, m_log_filename, m_log_fp, m_filelogging_mutex, boundVars>>

\* Mutant: one message too many is let in.
StatLate(t) ==
    /\ At(t, "stat") /\ m_log_fp # NoFile
    /\ m_log_fp' = IF FileSize < Len(files[m_log_filename]) - 1 THEN NoFile ELSE m_log_fp
    /\ Goto(t, "unlock")
    /\ UNCHANGED <<clock, tm, m_log_filename, m_filelogging_mutex, files, boundVars>>

\* stat of the file of that name, and fclose of a log that is too large.
Stat(t) ==
    /\ At(t, "stat") /\ m_log_fp # NoFile
    /\ m_log_fp' = IF FileSize < Len(files[m_log_filename]) THEN NoFile ELSE m_log_fp
    /\ Goto(t, "unlock")
    /\ UNCHANGED <<clock, tm, m_log_filename, m_filelogging_mutex, files, boundVars>>

\* Mutant: the second read is off by one.
CreateOffByOne(t) ==
    /\ At(t, "create")
    /\ Move(t, "localtime", clock + 1)
    /\ UNCHANGED <<clock, tm, fileVars, m_filelogging_mutex, boundVars>>

\* There is no file: time(NULL).
Create(t) ==
    /\ At(t, "create")
    /\ Move(t, "localtime", clock)
    /\ UNCHANGED <<clock, tm, fileVars, m_filelogging_mutex, boundVars>>

\* localtime, under the mutex that getDate does not take.
Localtime(t) ==
    /\ At(t, "localtime")
    /\ tm' = Top(t).now
    /\ Goto(t, "format")
    /\ UNCHANGED <<clock, fileVars, m_filelogging_mutex, boundVars>>

\* Mutant: the name has the prefix and no time.
FormatPrefixOnly(t) ==
    /\ At(t, "format")
    /\ m_log_filename' = 0
    /\ Goto(t, "open")
    /\ UNCHANGED <<clock, tm, m_log_fp, m_filelogging_mutex, files, boundVars>>

\* The name is made from the fields of the struct tm, which localtime may be writing
\* for other calls at the same time.
Format(t) ==
    /\ At(t, "format")
    /\ m_log_filename' \in Fields({tm} \cup InLocaltime)
    /\ Goto(t, "open")
    /\ UNCHANGED <<clock, tm, m_log_fp, m_filelogging_mutex, files, boundVars>>

\* Mutant: when the file cannot be created, the function returns at once.
OpenReturnsEarly(t) ==
    /\ At(t, "open")
    /\ \/ /\ m_log_fp' = m_log_filename
          /\ files' = [files EXCEPT ![m_log_filename] = <<>>]
          /\ Goto(t, "unlock")
       \/ /\ calls' = [calls EXCEPT ![t] = Front(@)]
          /\ UNCHANGED <<m_log_fp, files>>
    /\ UNCHANGED <<clock, tm, m_log_filename, m_filelogging_mutex, boundVars>>

\* fopen(..., "w+"): it empties a log of that name, or fails and is tried again by
\* the next call.  The message that found no file is not written.
Open(t) ==
    /\ At(t, "open")
    /\ \/ m_log_fp' = m_log_filename /\ files' = [files EXCEPT ![m_log_filename] = <<>>]
       \/ UNCHANGED <<m_log_fp, files>>
    /\ Goto(t, "unlock")
    /\ UNCHANGED <<clock, tm, m_log_filename, m_filelogging_mutex, boundVars>>

\* pthread_mutex_unlock and the return.
Unlock(t) ==
    /\ At(t, "unlock")
    /\ m_filelogging_mutex' = NoThread
    /\ calls' = [calls EXCEPT ![t] = Front(@)]
    /\ UNCHANGED <<clock, tm, fileVars, boundVars>>

\* __save_logfile__
SaveLogfile(t) ==
    \/ Lock(t)
    \/ Write(t) \/ Stat(t)
    \/ Create(t) \/ Localtime(t) \/ Format(t) \/ Open(t)
    \/ Unlock(t)

Next ==
    \/ Tick
    \/ SetLogLevel
    \/ \E t \in Thread : Call(t) \/ Interrupt(t) \/ GetDate(t) \/ SaveLogfile(t)

Spec == Init /\ [][Next]_vars

\* Threads are scheduled.  No thread has to log, and no signal has to come.
FairSpec == Spec /\ \A t \in Thread : WF_vars(GetDate(t) \/ SaveLogfile(t))

-----------------------------------------------------------------------------
(* Properties.                                                             *)

\* Every variable keeps its type.
TypeOK ==
    /\ clock \in Second
    /\ m_filewrite \in BOOLEAN
    /\ tm \in Second
    /\ m_log_filename \in Second \cup {NoFile}
    /\ m_log_fp \in Second \cup {NoFile}
    /\ m_filelogging_mutex \in Thread \cup {NoThread}
    /\ files \in [Second -> Seq(Message)]
    /\ calls \in [Thread -> Seq([msg : Message,
                                 at : {"date", "lock", "write", "stat", "create", "localtime",
                                       "format", "open", "unlock"},
                                 now : Second])]
    /\ made \in 0..MaxCall
    /\ signals \in 0..MaxSignal

\* The call holds the mutex.
Inside(t, n) == calls[t][n].at \notin {"date", "lock"}

\* Whoever is between the test of m_log_fp and the end of its use still finds the
\* file open, and a file is created only where there is none, although other
\* threads, and handlers on the same thread, log in between.
FileStaysOpen ==
    \A t \in Thread : \A n \in DOMAIN calls[t] :
        /\ calls[t][n].at \in {"write", "stat"} => m_log_fp # NoFile
        /\ calls[t][n].at \in {"create", "localtime", "format", "open"} => m_log_fp = NoFile

\* A log is closed by the first message that makes it too large.
LogsStayBounded == \A s \in Second : Len(files[s]) <= FileSize + 1

\* fopen empties only a log whose name can be made of the seconds that calls still
\* under way have read from the clock.  However late the call that creates a log is,
\* and whoever overwrites the struct tm under it, the logs of the time before those
\* calls keep all that was written to them.  A log of an earlier second than
\* the one its creator read may be emptied, if another call still remembers it.
PastLogsAreKept ==
    [][\A s \in Second : IsPrefix(files[s], files'[s]) \/ s \in Fields(Nows)]_vars

\* A handler that logs on the thread that holds the mutex.
SelfBlocked(t) ==
    \E m, n \in DOMAIN calls[t] : m < n /\ Inside(t, m) /\ ~Inside(t, n)

\* Every call returns, file or no file, unless some handler logs on a thread that
\* holds the mutex: then that thread is stuck, and with it all that log after it.
CallsReturn ==
    \A t \in Thread :
        calls[t] # <<>> ~> (calls[t] = <<>> \/ \E u \in Thread : SelfBlocked(u))
=============================================================================
