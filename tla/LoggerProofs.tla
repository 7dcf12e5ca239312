---------------------------- MODULE LoggerProofs ----------------------------
(***************************************************************************)
(* Proofs about Logger, for every number of threads, messages and signals, *)
(* every file size and any stretch of time.                                *)
(*                                                                         *)
(* The argument: the mutex is held by the thread of the one call that is   *)
(* past pthread_mutex_lock, so nobody else opens, closes or writes the     *)
(* file between the steps of that call; a handler on top of it cannot get  *)
(* past its own lock.  The struct tm has no such protection, but whoever   *)
(* writes it after the localtime of the call that creates a log then waits *)
(* for the mutex that this call holds, and so is still under way when the  *)
(* log is opened.                                                          *)
(***************************************************************************)
EXTENDS Logger, TLAPS

Place == {"date", "lock", "write", "stat", "create", "localtime", "format", "open", "unlock"}
CallRecord == [msg : Message, at : Place, now : Second]
Outside == {"date", "lock"}

\* At most one call is past the lock, and its thread holds the mutex.
Exclusive ==
    \A t \in Thread : \A n \in DOMAIN calls[t] : Inside(t, n) =>
        /\ m_filelogging_mutex = t
        /\ \A m \in DOMAIN calls[t] : Inside(t, m) => m = n

\* The open log has the name last made, and there is a name to open.
NameOfOpenLog ==
    /\ m_log_fp # NoFile => m_log_filename = m_log_fp
    /\ \A t \in Thread : \A n \in DOMAIN calls[t] :
           calls[t][n].at = "open" => m_log_filename \in Second

\* The open log has room, unless the call that filled it has still to look.
OpenLogHasRoom ==
    m_log_fp # NoFile =>
        \/ Len(files[m_log_fp]) <= FileSize
        \/ \E t \in Thread : \E n \in DOMAIN calls[t] : calls[t][n].at = "stat"

\* What the name of a log is made of was read by calls that are under way.
NamesInUse ==
    \A t \in Thread : \A n \in DOMAIN calls[t] :
        /\ calls[t][n].at = "format" => tm \in Nows
        /\ calls[t][n].at = "open" => m_log_filename \in Fields(Nows)

IndInv ==
    /\ TypeOK
    /\ Exclusive
    /\ FileStaysOpen
    /\ LogsStayBounded
    /\ NameOfOpenLog
    /\ OpenLogHasRoom
    /\ NamesInUse

-----------------------------------------------------------------------------
(* What a step does to the stacks of calls.                                *)

\* The top call of t moves on and every other call stays where it is.
LEMMA MoveMovesTop ==
    ASSUME TypeOK, NEW t \in Thread, calls[t] # <<>>, NEW p \in Place, NEW x \in Second,
           Move(t, p, x)
    PROVE  /\ calls' \in [Thread -> Seq(CallRecord)]
           /\ Len(calls[t]) \in DOMAIN calls[t]
           /\ \A u \in Thread : DOMAIN calls'[u] = DOMAIN calls[u]
           /\ \A u \in Thread : \A n \in DOMAIN calls[u] :
                  u # t \/ n # Len(calls[t]) => calls'[u][n] = calls[u][n]
           /\ calls'[t][Len(calls[t])].at = p
           /\ calls'[t][Len(calls[t])].now = x
<1> DEFINE s == calls[t]
           e == [s[Len(s)] EXCEPT !.at = p, !.now = x]
           r == [s EXCEPT ![Len(s)] = e]
<1>1. calls \in [Thread -> Seq(CallRecord)]
  BY DEF TypeOK, CallRecord, Place
<1>2. s \in Seq(CallRecord) /\ s # <<>>
  BY <1>1
<1>3. Len(s) \in Nat \ {0} /\ DOMAIN s = 1..Len(s) /\ s \in [1..Len(s) -> CallRecord]
  BY <1>2
<1>4. s[Len(s)] \in CallRecord
  BY <1>3
<1>5. e \in CallRecord /\ e.at = p /\ e.now = x
  BY <1>4 DEF CallRecord
<1>6. calls' = [calls EXCEPT ![t] = r]
  BY DEF Move
<1> HIDE DEF e
<1>7. r \in [1..Len(s) -> CallRecord]
  BY <1>3, <1>5
<1>8. r \in Seq(CallRecord)
  BY <1>3, <1>7
<1>9. r[Len(s)] = e /\ \A n \in DOMAIN s : n # Len(s) => r[n] = s[n]
  BY <1>3
<1>10. DOMAIN r = DOMAIN s
  OBVIOUS
<1> HIDE DEF r
<1> QED
  BY <1>1, <1>3, <1>5, <1>6, <1>8, <1>9, <1>10

\* The second the top call has read.
LEMMA TopNow ==
    ASSUME TypeOK, NEW t \in Thread, calls[t] # <<>>
    PROVE  /\ Top(t).now \in Second /\ Top(t).msg \in Message
           /\ Len(calls[t]) \in DOMAIN calls[t]
<1>1. calls[t] \in Seq(CallRecord) /\ calls[t] # <<>>
  BY DEF TypeOK, CallRecord, Place
<1>2. Top(t) \in CallRecord /\ Len(calls[t]) \in DOMAIN calls[t]
  BY <1>1 DEF Top
<1> QED
  BY <1>2 DEF CallRecord

\* A call that only moves on keeps the second it has read, and so does every other.
LEMMA GotoKeepsNows ==
    ASSUME TypeOK, NEW t \in Thread, calls[t] # <<>>, NEW p \in Place, Goto(t, p)
    PROVE  Nows' = Nows
<1>1. Top(t).now \in Second
  BY TopNow
<1>2. /\ Len(calls[t]) \in DOMAIN calls[t]
      /\ \A u \in Thread : DOMAIN calls'[u] = DOMAIN calls[u]
      /\ \A u \in Thread : \A n \in DOMAIN calls[u] :
             u # t \/ n # Len(calls[t]) => calls'[u][n] = calls[u][n]
      /\ calls'[t][Len(calls[t])].now = Top(t).now
  BY <1>1, MoveMovesTop DEF Goto
<1>3. \A u \in Thread : \A n \in DOMAIN calls[u] : calls'[u][n].now = calls[u][n].now
  BY <1>2 DEF Top
<1> QED
  BY <1>2, <1>3 DEF Nows

\* More times to take the fields from give no fewer names.
LEMMA FieldsGrow ==
    ASSUME NEW A, NEW B, A \subseteq B
    PROVE  Fields(A) \subseteq Fields(B) /\ Fields(A) \subseteq Second
  BY DEF Fields

\* A call is pushed, in its getDate, and every other call stays where it is.
LEMMA BeginPushes ==
    ASSUME TypeOK, NEW t \in Thread, made < MaxCall, LoggerAssumption, Begin(t)
    PROVE  /\ calls' \in [Thread -> Seq(CallRecord)]
           /\ \A u \in Thread : DOMAIN calls[u] \subseteq DOMAIN calls'[u]
           /\ \A u \in Thread : \A n \in DOMAIN calls[u] : calls'[u][n] = calls[u][n]
           /\ \A u \in Thread : \A n \in DOMAIN calls'[u] \ DOMAIN calls[u] :
                  calls'[u][n].at = "date"
<1> DEFINE s == calls[t]
           e == [msg |-> made + 1, at |-> "date", now |-> clock]
           r == Append(s, e)
<1>1. calls \in [Thread -> Seq(CallRecord)]
  BY DEF TypeOK, CallRecord, Place
<1>2. s \in Seq(CallRecord)
  BY <1>1
<1>3. e \in CallRecord
  BY DEF TypeOK, CallRecord, Place, Message, LoggerAssumption
<1>4. r \in Seq(CallRecord) /\ Len(r) = Len(s) + 1
  BY <1>2, <1>3
<1>5. \A n \in 1..Len(s) : r[n] = s[n]
  BY <1>2, <1>3
<1>6. r[Len(s) + 1] = e
  BY <1>2, <1>3
<1>7. calls' = [calls EXCEPT ![t] = r]
  BY DEF Begin
<1>8. DOMAIN r = 1..(Len(s) + 1) /\ DOMAIN s = 1..Len(s) /\ Len(s) \in Nat
  BY <1>2, <1>4
<1>9. e.at = "date"
  OBVIOUS
<1> HIDE DEF r, e
<1>10. \A n \in DOMAIN r \ DOMAIN s : r[n].at = "date"
  BY <1>6, <1>8, <1>9
<1>11. \A n \in DOMAIN s : n \in DOMAIN r /\ r[n] = s[n]
  BY <1>5, <1>8
<1> QED
  BY <1>1, <1>4, <1>7, <1>10, <1>11

\* The top call of t returns and every other call stays where it is.
LEMMA FrontPops ==
    ASSUME TypeOK, NEW t \in Thread, calls[t] # <<>>,
           calls' = [calls EXCEPT ![t] = Front(@)]
    PROVE  /\ calls' \in [Thread -> Seq(CallRecord)]
           /\ Len(calls[t]) \in DOMAIN calls[t]
           /\ \A u \in Thread : DOMAIN calls'[u] \subseteq DOMAIN calls[u]
           /\ Len(calls[t]) \notin DOMAIN calls'[t]
           /\ \A u \in Thread : \A n \in DOMAIN calls'[u] : calls'[u][n] = calls[u][n]
<1> DEFINE s == calls[t]
           r == Front(s)
<1>1. calls \in [Thread -> Seq(CallRecord)]
  BY DEF TypeOK, CallRecord, Place
<1>2. s \in Seq(CallRecord) /\ s # <<>> /\ Len(s) \in Nat \ {0}
  BY <1>1
<1>3. r \in Seq(CallRecord) /\ Len(r) = Len(s) - 1
  BY <1>2 DEF Front
<1>4. \A n \in 1..(Len(s) - 1) : r[n] = s[n]
  BY <1>2 DEF Front
<1>5. DOMAIN r = 1..(Len(s) - 1) /\ DOMAIN s = 1..Len(s)
  BY <1>2, <1>3
<1>6. calls' = [calls EXCEPT ![t] = r]
  OBVIOUS
<1> HIDE DEF r
<1>7. DOMAIN r \subseteq DOMAIN s /\ Len(s) \in DOMAIN s /\ Len(s) \notin DOMAIN r
  BY <1>2, <1>5
<1>8. \A n \in DOMAIN r : r[n] = s[n]
  BY <1>4, <1>5
<1> QED
  BY <1>1, <1>3, <1>6, <1>7, <1>8

-----------------------------------------------------------------------------
(* The invariant.                                                          *)

\* A thread whose top call is past the lock holds the mutex, alone.
LEMMA TopIsAlone ==
    ASSUME IndInv, NEW t \in Thread, calls[t] # <<>>, Top(t).at \notin Outside
    PROVE  /\ m_filelogging_mutex = t
           /\ \A u \in Thread : \A n \in DOMAIN calls[u] :
                  Inside(u, n) => u = t /\ n = Len(calls[t])
<1>1. Len(calls[t]) \in DOMAIN calls[t]
  BY TopNow DEF IndInv
<1>2. Inside(t, Len(calls[t]))
  BY DEF Inside, Top, Outside
<1> QED
  BY <1>1, <1>2 DEF IndInv, Exclusive

\* Before any call there is nothing to protect.
LEMMA InitEstablishes == LoggerAssumption /\ Init => IndInv
<1> SUFFICES ASSUME LoggerAssumption, Init PROVE IndInv
  OBVIOUS
<1>1. \A t \in Thread : calls[t] = <<>> /\ DOMAIN calls[t] = {}
  BY DEF Init
<1>2. \A s \in Second : files[s] = <<>> /\ Len(files[s]) = 0
  BY DEF Init
<1>3. TypeOK
  <2>1. files \in [Second -> Seq(Message)]
    BY DEF Init
  <2>2. calls \in [Thread -> Seq(CallRecord)]
    BY DEF Init
  <2>3. m_filewrite \in BOOLEAN
    BY DEF Init
  <2>4. /\ clock \in Second /\ tm \in Second
        /\ m_log_filename \in Second \cup {NoFile} /\ m_log_fp \in Second \cup {NoFile}
        /\ m_filelogging_mutex \in Thread \cup {NoThread}
        /\ made \in 0..MaxCall /\ signals \in 0..MaxSignal
    BY DEF Init, LoggerAssumption, Second, NoFile
  <2> QED
    BY <2>1, <2>2, <2>3, <2>4 DEF TypeOK, CallRecord, Place
<1>4. Exclusive /\ FileStaysOpen /\ NamesInUse
  BY <1>1 DEF Exclusive, FileStaysOpen, NamesInUse
<1>5. LogsStayBounded
  BY <1>2 DEF LogsStayBounded, LoggerAssumption
<1>6. OpenLogHasRoom /\ NameOfOpenLog
  BY <1>1 DEF Init, OpenLogHasRoom, NameOfOpenLog
<1> QED
  BY <1>3, <1>4, <1>5, <1>6 DEF IndInv

\* A new call, of a thread or of a handler on it, is before its lock.
LEMMA BeginPreserves ==
    ASSUME IndInv, LoggerAssumption, NEW t \in Thread, made < MaxCall,
           made' = made + 1, Begin(t), signals' \in 0..MaxSignal,
           UNCHANGED <<clock, m_filewrite, tm, fileVars, m_filelogging_mutex>>
    PROVE  IndInv'
<1> USE DEF fileVars
<1>1. TypeOK
  BY DEF IndInv
<1>2. /\ calls' \in [Thread -> Seq(CallRecord)]
      /\ \A u \in Thread : DOMAIN calls[u] \subseteq DOMAIN calls'[u]
      /\ \A u \in Thread : \A n \in DOMAIN calls[u] : calls'[u][n] = calls[u][n]
      /\ \A u \in Thread : \A n \in DOMAIN calls'[u] \ DOMAIN calls[u] :
             calls'[u][n].at = "date"
  BY <1>1, BeginPushes
<1>3. TypeOK'
  <2>1. made' \in 0..MaxCall
    BY <1>1 DEF TypeOK, LoggerAssumption
  <2>2. /\ clock' \in Second /\ m_filewrite' \in BOOLEAN /\ tm' \in Second
        /\ m_log_filename' \in Second \cup {NoFile} /\ m_log_fp' \in Second \cup {NoFile}
        /\ m_filelogging_mutex' \in Thread \cup {NoThread}
        /\ files' \in [Second -> Seq(Message)]
    BY <1>1 DEF TypeOK
  <2> QED
    BY <1>2, <2>1, <2>2 DEF TypeOK, CallRecord, Place
<1>4. \A u \in Thread : \A n \in DOMAIN calls'[u] :
          calls'[u][n].at # "date" => n \in DOMAIN calls[u] /\ calls'[u][n] = calls[u][n]
  BY <1>2
<1>5. Exclusive'
  BY <1>4 DEF IndInv, Exclusive, Inside
<1>6. FileStaysOpen' /\ NameOfOpenLog'
  BY <1>4 DEF IndInv, FileStaysOpen, NameOfOpenLog
<1>7. LogsStayBounded'
  BY DEF IndInv, LogsStayBounded
<1>8. OpenLogHasRoom'
  BY <1>2 DEF IndInv, OpenLogHasRoom
<1>9. NamesInUse'
  <2>1. Nows \subseteq Nows'
    BY <1>2 DEF Nows
  <2>2. Fields(Nows) \subseteq Fields(Nows')
    BY <2>1, FieldsGrow
  <2> QED
    BY <1>4, <2>1, <2>2 DEF IndInv, NamesInUse, Fields
<1> QED
  BY <1>3, <1>5, <1>6, <1>7, <1>8, <1>9 DEF IndInv

\* getDate writes the struct tm with a second that its own call has read.
LEMMA GetDatePreserves ==
    ASSUME IndInv, NEW t \in Thread, GetDate(t)
    PROVE  IndInv'
<1> DEFINE l == Len(calls[t])
<1>1. /\ calls[t] # <<>> /\ Top(t).at = "date" /\ tm' = Top(t).now /\ Goto(t, "lock")
      /\ UNCHANGED <<clock, m_log_filename, m_log_fp, files, m_filelogging_mutex,
                     m_filewrite, made, signals>>
  BY DEF GetDate, At, fileVars, boundVars
<1>2. TypeOK /\ Top(t).now \in Second /\ l \in DOMAIN calls[t] /\ "lock" \in Place
  BY <1>1, TopNow DEF IndInv, Place
<1>3. /\ calls' \in [Thread -> Seq(CallRecord)]
      /\ \A u \in Thread : DOMAIN calls'[u] = DOMAIN calls[u]
      /\ \A u \in Thread : \A n \in DOMAIN calls[u] :
             u # t \/ n # l => calls'[u][n] = calls[u][n]
      /\ calls'[t][l].at = "lock"
  BY <1>1, <1>2, MoveMovesTop DEF Goto
<1>4. \A u \in Thread : \A n \in DOMAIN calls'[u] :
          calls'[u][n].at \notin Outside => n \in DOMAIN calls[u] /\ calls'[u][n] = calls[u][n]
  BY <1>3 DEF Outside
<1>5. TypeOK'
  BY <1>1, <1>2, <1>3 DEF TypeOK, CallRecord, Place
<1>6. Exclusive'
  BY <1>1, <1>4 DEF IndInv, Exclusive, Inside, Outside
<1>7. FileStaysOpen' /\ NameOfOpenLog'
  BY <1>1, <1>4 DEF IndInv, FileStaysOpen, NameOfOpenLog, Outside
<1>8. LogsStayBounded'
  BY <1>1 DEF IndInv, LogsStayBounded
<1>9. OpenLogHasRoom'
  <2>1. \A u \in Thread : \A n \in DOMAIN calls[u] :
            calls[u][n].at = "stat" => n \in DOMAIN calls'[u] /\ calls'[u][n].at = "stat"
    BY <1>1, <1>3 DEF Top
  <2> QED
    BY <1>1, <2>1 DEF IndInv, OpenLogHasRoom
<1>10. NamesInUse'
  <2>1. Nows' = Nows
    BY <1>1, <1>2, GotoKeepsNows
  <2>2. tm' \in Nows
    BY <1>1, <1>2 DEF Nows, Top
  <2> QED
    BY <1>1, <1>4, <2>1, <2>2 DEF IndInv, NamesInUse, Outside, Fields
<1> QED
  BY <1>5, <1>6, <1>7, <1>8, <1>9, <1>10 DEF IndInv

\* pthread_mutex_lock succeeds only when no call is past it.
LEMMA LockPreserves ==
    ASSUME IndInv, NEW t \in Thread, Lock(t), LoggerAssumption
    PROVE  IndInv'
<1> DEFINE p == IF m_log_fp # NoFile THEN "write" ELSE "create"
           l == Len(calls[t])
<1>1. /\ TypeOK /\ calls[t] # <<>> /\ p \in Place /\ Goto(t, p) /\ p \in {"write", "create"}
      /\ m_filelogging_mutex = NoThread /\ m_filelogging_mutex' = t
      /\ UNCHANGED <<clock, tm, m_log_filename, m_log_fp, files, m_filewrite, made, signals>>
  BY DEF IndInv, Lock, At, Place, fileVars, boundVars
<1>2. /\ calls' \in [Thread -> Seq(CallRecord)]
      /\ l \in DOMAIN calls[t]
      /\ \A u \in Thread : DOMAIN calls'[u] = DOMAIN calls[u]
      /\ \A u \in Thread : \A n \in DOMAIN calls[u] :
             u # t \/ n # l => calls'[u][n] = calls[u][n]
      /\ calls'[t][l].at = p
  BY <1>1, TopNow, MoveMovesTop DEF Goto
<1>3. \A u \in Thread : \A n \in DOMAIN calls[u] : ~Inside(u, n)
  BY <1>1 DEF IndInv, Exclusive, LoggerAssumption
<1>4. TypeOK'
  BY <1>1, <1>2 DEF TypeOK, CallRecord, Place
<1>5. \A u \in Thread : \A n \in DOMAIN calls'[u] :
          calls'[u][n].at \notin Outside => u = t /\ n = l
  BY <1>2, <1>3 DEF Inside, Outside
<1>6. Exclusive'
  BY <1>1, <1>5 DEF Exclusive, Inside, Outside
<1>7. \A u \in Thread : \A n \in DOMAIN calls'[u] :
          calls'[u][n].at \in {"date", "lock", p}
  BY <1>2, <1>5 DEF Outside
<1>8. FileStaysOpen' /\ NameOfOpenLog' /\ NamesInUse'
  BY <1>1, <1>7 DEF IndInv, FileStaysOpen, NameOfOpenLog, NamesInUse
<1>9. LogsStayBounded'
  BY <1>1 DEF IndInv, LogsStayBounded
<1>10. OpenLogHasRoom'
  BY <1>1, <1>3 DEF IndInv, OpenLogHasRoom, Inside
<1> QED
  BY <1>4, <1>6, <1>8, <1>9, <1>10 DEF IndInv

\* The facts that the steps past the lock have in common.
LEMMA TopMoves ==
    ASSUME IndInv, NEW t \in Thread, calls[t] # <<>>, Top(t).at \notin Outside,
           NEW p \in Place \ Outside, NEW x \in Second, Move(t, p, x),
           UNCHANGED m_filelogging_mutex
    PROVE  /\ calls' \in [Thread -> Seq(CallRecord)]
           /\ Len(calls[t]) \in DOMAIN calls'[t]
           /\ calls'[t][Len(calls[t])].at = p
           /\ calls'[t][Len(calls[t])].now = x
           /\ \A u \in Thread : \A n \in DOMAIN calls'[u] :
                  calls'[u][n].at \notin Outside => u = t /\ n = Len(calls[t])
           /\ \A u \in Thread : \A n \in DOMAIN calls[u] :
                  calls[u][n].at \notin Outside => u = t /\ n = Len(calls[t])
           /\ \A u \in Thread : \A n \in DOMAIN calls'[u] :
                  calls'[u][n].at \in {"date", "lock", p}
           /\ Exclusive'
<1>1. TypeOK
  BY DEF IndInv
<1>2. /\ calls' \in [Thread -> Seq(CallRecord)]
      /\ Len(calls[t]) \in DOMAIN calls[t]
      /\ \A u \in Thread : DOMAIN calls'[u] = DOMAIN calls[u]
      /\ \A u \in Thread : \A n \in DOMAIN calls[u] :
             u # t \/ n # Len(calls[t]) => calls'[u][n] = calls[u][n]
      /\ calls'[t][Len(calls[t])].at = p
      /\ calls'[t][Len(calls[t])].now = x
  BY <1>1, MoveMovesTop
<1>3. /\ m_filelogging_mutex = t
      /\ \A u \in Thread : \A n \in DOMAIN calls[u] :
             calls[u][n].at \notin Outside => u = t /\ n = Len(calls[t])
  BY TopIsAlone DEF Inside, Outside
<1>4. \A u \in Thread : \A n \in DOMAIN calls'[u] :
          calls'[u][n].at \notin Outside => u = t /\ n = Len(calls[t])
  BY <1>2, <1>3
<1>5. Exclusive'
  BY <1>3, <1>4 DEF Exclusive, Inside, Outside
<1>6. \A u \in Thread : \A n \in DOMAIN calls'[u] : calls'[u][n].at \in {"date", "lock", p}
  BY <1>2, <1>4 DEF Outside
<1> QED
  BY <1>2, <1>3, <1>4, <1>5, <1>6

\* The message goes into a log that had room, and the same call looks at its size next.
LEMMA WritePreserves ==
    ASSUME IndInv, NEW t \in Thread, Write(t), LoggerAssumption
    PROVE  IndInv'
<1> DEFINE l == Len(calls[t])
           log == files[m_log_fp]
           new == Append(log, Top(t).msg)
<1>1. /\ calls[t] # <<>> /\ Top(t).at = "write" /\ Goto(t, "stat")
      /\ m_log_fp # NoFile /\ files' = [files EXCEPT ![m_log_fp] = new]
      /\ UNCHANGED <<clock, tm, m_log_filename, m_log_fp, m_filelogging_mutex, m_filewrite,
                     made, signals>>
  BY DEF Write, At, boundVars
<1>2. TypeOK /\ m_log_fp \in Second /\ Top(t).now \in Second
  BY <1>1, TopNow DEF IndInv, TypeOK
<1>3. /\ calls' \in [Thread -> Seq(CallRecord)]
      /\ l \in DOMAIN calls'[t] /\ calls'[t][l].at = "stat"
      /\ \A u \in Thread : \A n \in DOMAIN calls'[u] :
             calls'[u][n].at \in {"date", "lock", "stat"}
      /\ \A u \in Thread : \A n \in DOMAIN calls[u] :
             calls[u][n].at \notin Outside => u = t /\ n = l
      /\ Exclusive'
  BY <1>1, <1>2, TopMoves DEF Place, Outside, Goto
<1>4. log \in Seq(Message) /\ Top(t).msg \in Message
  BY <1>1, <1>2, TopNow DEF TypeOK
<1>5. new \in Seq(Message) /\ Len(new) = Len(log) + 1
  BY <1>4
<1> HIDE DEF new
<1>6. files' \in [Second -> Seq(Message)]
  BY <1>1, <1>2, <1>5 DEF TypeOK
<1>7. TypeOK'
  BY <1>1, <1>2, <1>3, <1>6 DEF TypeOK, CallRecord, Place
<1>8. \A u \in Thread : \A n \in DOMAIN calls[u] : calls[u][n].at # "stat"
  BY <1>1, <1>3 DEF Top, Outside
<1>9. Len(log) <= FileSize /\ Len(log) \in Nat
  BY <1>1, <1>4, <1>8 DEF IndInv, OpenLogHasRoom
<1>10. LogsStayBounded'
  BY <1>1, <1>2, <1>5, <1>9 DEF IndInv, TypeOK, LogsStayBounded, LoggerAssumption
<1>11. FileStaysOpen' /\ NameOfOpenLog' /\ NamesInUse'
  BY <1>1, <1>3 DEF IndInv, FileStaysOpen, NameOfOpenLog, NamesInUse
<1>12. OpenLogHasRoom'
  BY <1>3 DEF OpenLogHasRoom
<1> QED
  BY <1>3, <1>7, <1>10, <1>11, <1>12 DEF IndInv

\* A log that stays open has room again, and no other call was using one that is closed.
LEMMA StatPreserves ==
    ASSUME IndInv, NEW t \in Thread, Stat(t), LoggerAssumption
    PROVE  IndInv'
<1>1. /\ calls[t] # <<>> /\ Top(t).at = "stat" /\ Goto(t, "unlock")
      /\ m_log_fp # NoFile
      /\ m_log_fp' = IF FileSize < Len(files[m_log_filename]) THEN NoFile ELSE m_log_fp
      /\ UNCHANGED <<clock, tm, m_log_filename, m_filelogging_mutex, files, m_filewrite,
                     made, signals>>
  BY DEF Stat, At, boundVars
<1>2. TypeOK /\ Top(t).now \in Second /\ m_log_filename = m_log_fp
  BY <1>1, TopNow DEF IndInv, NameOfOpenLog
<1>3. /\ calls' \in [Thread -> Seq(CallRecord)]
      /\ \A u \in Thread : \A n \in DOMAIN calls'[u] :
             calls'[u][n].at \in {"date", "lock", "unlock"}
      /\ Exclusive'
  BY <1>1, <1>2, TopMoves DEF Place, Outside, Goto
<1>4. TypeOK'
  BY <1>1, <1>2, <1>3 DEF TypeOK, CallRecord, Place
<1>5. FileStaysOpen' /\ NamesInUse'
  BY <1>3 DEF FileStaysOpen, NamesInUse
<1>6. NameOfOpenLog'
  BY <1>1, <1>2, <1>3 DEF NameOfOpenLog
<1>7. LogsStayBounded'
  BY <1>1 DEF IndInv, LogsStayBounded
<1>8. m_log_fp' # NoFile => Len(files'[m_log_fp']) <= FileSize
  <2>1. Len(files[m_log_fp]) \in Nat
    BY <1>1, <1>2 DEF TypeOK
  <2> QED
    BY <1>1, <1>2, <2>1 DEF LoggerAssumption
<1>9. OpenLogHasRoom'
  BY <1>8 DEF OpenLogHasRoom
<1> QED
  BY <1>3, <1>4, <1>5, <1>6, <1>7, <1>9 DEF IndInv

\* The call that creates a log reads the clock, fills the struct tm and makes the name.
\* Nobody opens a file meanwhile, and who overwrites the struct tm is under way.
LEMMA NamePreserves ==
    ASSUME IndInv, NEW t \in Thread, Create(t) \/ Localtime(t) \/ Format(t)
    PROVE  IndInv'
<1> DEFINE l == Len(calls[t])
           p == CASE Top(t).at = "create" -> "localtime" [] Top(t).at = "localtime" -> "format"
                  [] OTHER -> "open"
           x == IF Top(t).at = "create" THEN clock ELSE Top(t).now
<1>1. /\ calls[t] # <<>> /\ Top(t).at \in {"create", "localtime", "format"}
      /\ UNCHANGED <<clock, m_log_fp, m_filelogging_mutex, files, m_filewrite, made, signals>>
  BY DEF Create, Localtime, Format, At, fileVars, boundVars
<1>2. /\ TypeOK /\ Top(t).now \in Second /\ l \in DOMAIN calls[t] /\ clock \in Second
  BY <1>1, TopNow DEF IndInv, TypeOK
<1>3. m_log_fp = NoFile
  BY <1>1, <1>2 DEF IndInv, FileStaysOpen, Top
<1>4. /\ Move(t, p, x) /\ p \in {"localtime", "format", "open"} /\ x \in Second
      /\ \/ p = "localtime" /\ UNCHANGED <<tm, m_log_filename>>
         \/ p = "format" /\ tm' = Top(t).now /\ x = Top(t).now /\ UNCHANGED m_log_filename
         \/ p = "open" /\ x = Top(t).now /\ Top(t).at = "format"
            /\ m_log_filename' \in Fields({tm} \cup InLocaltime) /\ UNCHANGED tm
  <2>1. CASE Create(t)
    BY <1>2, <2>1 DEF Create, At, fileVars
  <2>2. CASE Localtime(t)
    BY <1>2, <2>2 DEF Localtime, At, Goto, fileVars
  <2>3. CASE Format(t)
    BY <1>2, <2>3 DEF Format, At, Goto
  <2> QED
    BY <2>1, <2>2, <2>3
<1> HIDE DEF p, x
<1>5. /\ calls' \in [Thread -> Seq(CallRecord)]
      /\ l \in DOMAIN calls'[t] /\ calls'[t][l].at = p /\ calls'[t][l].now = x
      /\ \A u \in Thread : \A n \in DOMAIN calls'[u] : calls'[u][n].at \in {"date", "lock", p}
      /\ \A u \in Thread : \A n \in DOMAIN calls[u] :
             calls[u][n].at \notin Outside => u = t /\ n = l
      /\ Exclusive'
  BY <1>1, <1>4, TopMoves DEF Place, Outside
<1>6. tm' \in Second /\ m_log_filename' \in Second \cup {NoFile}
      /\ (p = "open" => m_log_filename' \in Second)
  BY <1>2, <1>4 DEF TypeOK, Fields
<1>7. TypeOK'
  BY <1>1, <1>2, <1>5, <1>6 DEF TypeOK, CallRecord, Place
<1>8. FileStaysOpen' /\ NameOfOpenLog'
  BY <1>1, <1>3, <1>4, <1>5, <1>6 DEF FileStaysOpen, NameOfOpenLog
<1>9. LogsStayBounded' /\ OpenLogHasRoom'
  BY <1>1, <1>3 DEF IndInv, LogsStayBounded, OpenLogHasRoom
<1>10. NamesInUse'
  <2>1. CASE p = "localtime"
    BY <1>5, <2>1 DEF NamesInUse
  <2>2. CASE p = "format"
    <3>1. tm' \in Nows'
      BY <1>2, <1>4, <1>5, <2>2 DEF Nows
    <3> QED
      BY <1>5, <2>2, <3>1 DEF NamesInUse
  <2>3. CASE p = "open"
    <3>1. tm \in Nows
      BY <1>2, <1>4, <2>3 DEF IndInv, NamesInUse, Top
    <3>2. InLocaltime \subseteq Nows
      BY DEF InLocaltime, Nows
    <3>3. m_log_filename' \in Fields(Nows)
      BY <1>4, <2>3, <3>1, <3>2, FieldsGrow
    <3>4. Nows' = Nows
      BY <1>1, <1>2, <1>4, <2>3, GotoKeepsNows DEF Goto, Place
    <3> QED
      BY <1>5, <2>3, <3>3, <3>4 DEF NamesInUse, Fields
  <2> QED
    BY <1>4, <2>1, <2>2, <2>3
<1> QED
  BY <1>5, <1>7, <1>8, <1>9, <1>10 DEF IndInv

\* A new log is empty, and only the call that holds the mutex can open it.
LEMMA OpenPreserves ==
    ASSUME IndInv, NEW t \in Thread, Open(t), LoggerAssumption
    PROVE  IndInv'
<1> DEFINE name == m_log_filename
<1>1. /\ calls[t] # <<>> /\ Top(t).at = "open" /\ Goto(t, "unlock")
      /\ \/ m_log_fp' = name /\ files' = [files EXCEPT ![name] = <<>>]
         \/ m_log_fp' = m_log_fp /\ files' = files
      /\ UNCHANGED <<clock, tm, m_log_filename, m_filelogging_mutex, m_filewrite, made, signals>>
  BY DEF Open, At, boundVars
<1>2. /\ TypeOK /\ Top(t).now \in Second /\ Len(calls[t]) \in DOMAIN calls[t]
  BY <1>1, TopNow DEF IndInv
<1>3. name \in Second /\ m_log_fp = NoFile
  BY <1>1, <1>2 DEF IndInv, NameOfOpenLog, FileStaysOpen, Top
<1>4. /\ calls' \in [Thread -> Seq(CallRecord)]
      /\ \A u \in Thread : \A n \in DOMAIN calls'[u] :
             calls'[u][n].at \in {"date", "lock", "unlock"}
      /\ Exclusive'
  BY <1>1, <1>2, TopMoves DEF Place, Outside, Goto
<1>5. files' \in [Second -> Seq(Message)] /\ m_log_fp' \in Second \cup {NoFile}
  <2>1. <<>> \in Seq(Message)
    OBVIOUS
  <2> QED
    BY <1>1, <1>2, <1>3, <2>1 DEF TypeOK
<1>6. TypeOK'
  BY <1>1, <1>2, <1>4, <1>5 DEF TypeOK, CallRecord, Place
<1>7. FileStaysOpen' /\ NamesInUse'
  BY <1>4 DEF FileStaysOpen, NamesInUse
<1>8. NameOfOpenLog'
  BY <1>1, <1>3, <1>4 DEF NameOfOpenLog
<1>9. \A s \in Second : Len(files'[s]) = 0 \/ files'[s] = files[s]
  BY <1>1, <1>2, <1>3 DEF TypeOK
<1>10. LogsStayBounded'
  BY <1>9 DEF IndInv, LogsStayBounded, LoggerAssumption
<1>11. m_log_fp' # NoFile => Len(files'[m_log_fp']) <= FileSize
  BY <1>1, <1>2, <1>3 DEF TypeOK, LoggerAssumption
<1>12. OpenLogHasRoom'
  BY <1>11 DEF OpenLogHasRoom
<1> QED
  BY <1>4, <1>6, <1>7, <1>8, <1>10, <1>12 DEF IndInv

\* The only call past the lock returns.
LEMMA UnlockPreserves ==
    ASSUME IndInv, NEW t \in Thread, Unlock(t)
    PROVE  IndInv'
<1>1. /\ calls[t] # <<>> /\ Top(t).at = "unlock"
      /\ calls' = [calls EXCEPT ![t] = Front(@)]
      /\ m_filelogging_mutex' = NoThread
      /\ UNCHANGED <<clock, tm, m_filewrite, m_log_filename, m_log_fp, files, made, signals>>
  BY DEF Unlock, At, fileVars, boundVars
<1>2. TypeOK
  BY DEF IndInv
<1>3. /\ calls' \in [Thread -> Seq(CallRecord)]
      /\ \A u \in Thread : DOMAIN calls'[u] \subseteq DOMAIN calls[u]
      /\ Len(calls[t]) \notin DOMAIN calls'[t]
      /\ \A u \in Thread : \A n \in DOMAIN calls'[u] : calls'[u][n] = calls[u][n]
  BY <1>1, <1>2, FrontPops
<1>4. \A u \in Thread : \A n \in DOMAIN calls[u] :
          calls[u][n].at \notin Outside => u = t /\ n = Len(calls[t])
  BY <1>1, TopIsAlone DEF Inside, Outside
<1>5. \A u \in Thread : \A n \in DOMAIN calls'[u] : calls'[u][n].at \in Outside
  BY <1>3, <1>4
<1>6. TypeOK'
  BY <1>1, <1>2, <1>3 DEF TypeOK, CallRecord, Place
<1>7. Exclusive' /\ FileStaysOpen' /\ NamesInUse'
  BY <1>5 DEF Exclusive, FileStaysOpen, NamesInUse, Inside, Outside
<1>8. LogsStayBounded' /\ NameOfOpenLog'
  BY <1>1, <1>5 DEF IndInv, LogsStayBounded, NameOfOpenLog, Outside
<1>9. \A u \in Thread : \A n \in DOMAIN calls[u] : calls[u][n].at # "stat"
  BY <1>1, <1>4 DEF Top, Outside
<1>10. OpenLogHasRoom'
  BY <1>1, <1>9 DEF IndInv, OpenLogHasRoom
<1> QED
  BY <1>6, <1>7, <1>8, <1>10 DEF IndInv

\* Every step keeps the invariant.
LEMMA StepPreserves == LoggerAssumption /\ IndInv /\ [Next]_vars => IndInv'
<1> SUFFICES ASSUME LoggerAssumption, IndInv, [Next]_vars PROVE IndInv'
  OBVIOUS
<1>1. ASSUME UNCHANGED <<tm, m_log_filename, m_log_fp, m_filelogging_mutex, files, calls>>
      PROVE  /\ Exclusive' /\ FileStaysOpen' /\ LogsStayBounded' /\ NameOfOpenLog'
             /\ OpenLogHasRoom' /\ NamesInUse'
  <2>1. Exclusive'
    BY <1>1 DEF IndInv, Exclusive, Inside
  <2>2. FileStaysOpen' /\ LogsStayBounded' /\ NameOfOpenLog'
    BY <1>1 DEF IndInv, FileStaysOpen, LogsStayBounded, NameOfOpenLog
  <2>3. OpenLogHasRoom'
    BY <1>1 DEF IndInv, OpenLogHasRoom
  <2>4. NamesInUse'
    BY <1>1 DEF IndInv, NamesInUse, Nows, Fields
  <2> QED
    BY <2>1, <2>2, <2>3, <2>4
<1>2. TypeOK
  BY DEF IndInv
<1>3. CASE UNCHANGED vars
  <2>1. TypeOK'
    BY <1>3, <1>2 DEF vars, TypeOK
  <2> QED
    BY <1>3, <1>1, <2>1 DEF vars, IndInv
<1>4. CASE Tick
  <2>1. TypeOK'
    <3>1. clock' \in Second
      BY <1>4, <1>2 DEF Tick, TypeOK, Second, LoggerAssumption
    <3> QED
      BY <1>4, <1>2, <3>1 DEF Tick, TypeOK, fileVars
  <2> QED
    BY <1>4, <1>1, <2>1 DEF Tick, IndInv, fileVars
<1>5. CASE SetLogLevel
  <2>1. TypeOK'
    BY <1>5, <1>2 DEF SetLogLevel, TypeOK, fileVars
  <2> QED
    BY <1>5, <1>1, <2>1 DEF SetLogLevel, IndInv, fileVars
<1>6. ASSUME NEW t \in Thread, Call(t) PROVE IndInv'
  <2>1. signals' \in 0..MaxSignal
    BY <1>6, <1>2 DEF Call, TypeOK
  <2> QED
    BY <1>6, <2>1, BeginPreserves DEF Call
<1>7. ASSUME NEW t \in Thread, Interrupt(t) PROVE IndInv'
  <2>1. signals' \in 0..MaxSignal
    BY <1>7, <1>2 DEF Interrupt, TypeOK, LoggerAssumption
  <2> QED
    BY <1>7, <2>1, BeginPreserves DEF Interrupt
<1>8. ASSUME NEW t \in Thread, GetDate(t) \/ SaveLogfile(t) PROVE IndInv'
  BY <1>8, GetDatePreserves, LockPreserves, WritePreserves, StatPreserves, NamePreserves,
     OpenPreserves, UnlockPreserves DEF SaveLogfile
<1> QED
  BY <1>3, <1>4, <1>5, <1>6, <1>7, <1>8 DEF Next

-----------------------------------------------------------------------------
(* The theorems.                                                           *)

\* The invariant holds in every reachable state.
THEOREM Invariance == Spec => []IndInv
  BY LoggerAssumption, InitEstablishes, StepPreserves, PTL DEF Spec

\* Every variable of the logger keeps its type.
THEOREM TypeCorrect == Spec => []TypeOK
<1>1. IndInv => TypeOK
  BY DEF IndInv
<1> QED
  BY <1>1, Invariance, PTL

\* Between the test of m_log_fp in __save_logfile__ and the last use of the file
\* nobody closes it, and fopen never overwrites the pointer to an open file,
\* however many threads and handlers log.
THEOREM FileSafety == Spec => []FileStaysOpen
<1>1. IndInv => FileStaysOpen
  BY DEF IndInv
<1> QED
  BY <1>1, Invariance, PTL

\* No log grows past the message that makes it larger than the limit.
THEOREM LogBound == Spec => []LogsStayBounded
<1>1. IndInv => LogsStayBounded
  BY DEF IndInv
<1> QED
  BY <1>1, Invariance, PTL

\* A sequence is a prefix of itself and of what appending to it gives.
LEMMA AppendKeepsPrefix ==
    ASSUME NEW S, NEW s \in Seq(S), NEW e \in S
    PROVE  IsPrefix(s, s) /\ IsPrefix(s, Append(s, e))
<1>1. IsPrefix(s, s)
  BY DEF IsPrefix
<1>2. Append(s, e) \in Seq(S) /\ Len(Append(s, e)) = Len(s) + 1
  OBVIOUS
<1>3. SubSeq(Append(s, e), 1, Len(s)) = SubSeq(s, 1, Len(s))
  OBVIOUS
<1> QED
  BY <1>1, <1>2, <1>3 DEF IsPrefix

\* Whatever is logged later, by whomever, however often a log is closed and another
\* one created, and however calls overwrite each other's struct tm: a log keeps what
\* was written to it, unless its name can be made of seconds that calls still under
\* way have read.
THEOREM PastLogs == Spec => PastLogsAreKept
<1> DEFINE Kept == \A s \in Second : IsPrefix(files[s], files'[s]) \/ s \in Fields(Nows)
<1>1. ASSUME IndInv, [Next]_vars PROVE [Kept]_vars
  <2>1. TypeOK /\ \A s \in Second : files[s] \in Seq(Message) /\ IsPrefix(files[s], files[s])
    <3>1. TypeOK
      BY <1>1 DEF IndInv
    <3>2. \A s \in Second : files[s] \in Seq(Message)
      BY <3>1 DEF TypeOK
    <3>3. \A s \in Second : IsPrefix(files[s], files[s])
      BY <3>2 DEF IsPrefix
    <3> QED
      BY <3>1, <3>2, <3>3
  <2>2. ASSUME UNCHANGED files PROVE Kept
    BY <2>1, <2>2
  <2>3. ASSUME NEW t \in Thread, Write(t) PROVE Kept
    <3>1. Top(t).msg \in Message
      BY <2>1, <2>3, TopNow DEF Write, At
    <3>2. m_log_fp \in Second /\ files' = [files EXCEPT ![m_log_fp] = Append(@, Top(t).msg)]
      BY <2>1, <2>3 DEF TypeOK, Write
    <3>3. IsPrefix(files[m_log_fp], Append(files[m_log_fp], Top(t).msg))
      BY <2>1, <3>1, <3>2, AppendKeepsPrefix
    <3>4. \A s \in Second : IsPrefix(files[s], files'[s])
      BY <2>1, <3>2, <3>3 DEF TypeOK
    <3> QED
      BY <3>4
  <2>4. ASSUME NEW t \in Thread, Open(t) PROVE Kept
    <3>1. files \in [Second -> Seq(Message)] /\ Len(calls[t]) \in DOMAIN calls[t]
      BY <2>1, <2>4, TopNow DEF TypeOK, Open, At
    <3>2. files' = [files EXCEPT ![m_log_filename] = <<>>] \/ files' = files
      BY <2>4 DEF Open
    <3>3. m_log_filename \in Fields(Nows)
      BY <1>1, <2>4, <3>1 DEF IndInv, NamesInUse, Open, At, Top
    <3>4. \A s \in Second : s = m_log_filename \/ files'[s] = files[s]
      BY <3>1, <3>2
    <3> QED
      BY <2>1, <3>3, <3>4
  <2>5. CASE Next
    <3>1. ASSUME Tick \/ SetLogLevel PROVE Kept
      BY <2>2, <3>1 DEF Tick, SetLogLevel, fileVars
    <3>2. ASSUME NEW t \in Thread,
                 \/ Call(t) \/ Interrupt(t) \/ GetDate(t) \/ Lock(t) \/ Stat(t)
                 \/ Create(t) \/ Localtime(t) \/ Format(t) \/ Unlock(t)
          PROVE  UNCHANGED files
      BY <3>2 DEF Call, Interrupt, GetDate, Lock, Stat, Create, Localtime, Format, Unlock,
                  fileVars
    <3>3. ASSUME NEW t \in Thread, Call(t) \/ Interrupt(t) \/ GetDate(t) \/ SaveLogfile(t)
          PROVE  Kept
      BY <2>2, <2>3, <2>4, <3>2, <3>3 DEF SaveLogfile
    <3> HIDE DEF Kept
    <3> QED
      BY <2>5, <3>1, <3>3 DEF Next
  <2> QED
    BY <1>1, <2>2, <2>5 DEF vars
<1> QED
  BY <1>1, Invariance, PTL DEF Spec, PastLogsAreKept
=============================================================================
