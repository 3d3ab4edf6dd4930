--------------------------- MODULE Logging_proofs ---------------------------
(***************************************************************************)
(* Proofs about Logging, for any threads, error codes and numbers of calls, *)
(* on both systems, with and without a first call of initLogger.           *)
(***************************************************************************)
EXTENDS Logging, SequenceTheorems, TLAPS

-----------------------------------------------------------------------------
(* The inductive invariant.                                                *)

Inside ==    \* under g_mutex
  {"check", "create", "publish", "setDefault", "bannerConsole", "bannerFile", "unlock"}
Past == {"lastError", "fill", "filled", "format", "console", "file"}   \* behind initLogger

\* g_mutex is held by the one thread that is under it.
MutexHeld == \A t \in Threads : pc[t] \in Inside => gMutex = t

\* The logger is there, with its line.
Built == gLogger /\ default /\ console # <<>>

\* What has been built when, and what the thread that builds may rely on.
Phases ==
  /\ ~gLogger => ~ready /\ console = <<>> /\ file = <<>>
  /\ ~alive => ~gLogger
  /\ ready => Built
  /\ gLogger /\ gMutex = None => Built
  /\ \A t \in Threads :
       /\ pc[t] = "check" /\ gLogger => Built
       /\ pc[t] \in {"create", "publish"} => ~gLogger
       /\ pc[t] \in {"setDefault", "bannerConsole", "bannerFile"} =>
            gLogger /\ ~ready /\ file = <<>>
       /\ pc[t] \in {"bannerConsole", "bannerFile"} => default
       /\ pc[t] \in {"setDefault", "bannerConsole"} => console = <<>>
       /\ pc[t] = "bannerFile" => console # <<>>
       /\ pc[t] = "unlock" => Built
       /\ pc[t] \in Past => ready

\* A thread's record is its own and that of its latest call.
Callers ==
  \A t \in Threads :
    /\ rec[t].by = t
    /\ pc[t] # "idle" => calls[t] >= 1
    /\ pc[t] # "idle" /\ kind[t] # "init" => rec[t].n = calls[t]
    /\ pc[t] \in Past => kind[t] # "init"
    /\ pc[t] \in {"lastError", "fill", "filled"} => kind[t] = "error"

\* A record in a sink is older than the one its thread is about to write there;
\* done are the places of a thread that has written it.
OlderRecord(r, done) ==
  r.n <= calls[r.by] /\ (pc[r.by] \notin done => r.n < calls[r.by])
Records(sink) == {sink[i] : i \in 1 .. Len(sink)}
Older ==
  /\ \A r \in Records(console) : OlderRecord(r, {"idle", "file"})
  /\ \A r \in Records(file) : OlderRecord(r, {"idle"})

\* The thread is about to log a code that is not its operation's.
Lossy(t) ==
  \/ /\ pc[t] \in Inside \cup {"lock", "lastError"}
     /\ kind[t] = "error" /\ errno[t] # rec[t].code
  \/ pc[t] \in {"fill", "filled", "format", "console"} /\ LostCode(rec[t])

\* Only the thread that has built the logger can be, and only once.
LossOnce ==
  /\ \A t \in Threads :
       /\ kind[t] = "info" /\ pc[t] # "idle" => ~LostCode(rec[t])
       /\ Lossy(t) /\ ~gLogger => pc[t] = "publish"
       /\ Lossy(t) => \A r \in Records(console) : ~LostCode(r)
  /\ \A t, u \in Threads : Lossy(t) /\ Lossy(u) => t = u

-----------------------------------------------------------------------------
(* Types.                                                                  *)

\* The line of initLogger is a record.
LEMMA BannerType == ASSUME NEW t \in Threads PROVE Banner(t) \in Record
  BY DEF Banner, Record

\* What logInfo is about to log is a record.
LEMMA InfoRecord ==
  ASSUME NEW t \in Threads, NEW n \in Nat
  PROVE  [Banner(t) EXCEPT !.n = n + 1] \in Record
  <1>1. n + 1 \in Nat
    OBVIOUS
  <1> QED  BY <1>1 DEF Banner, Record

\* So is that of logSocketError, with the code of the failed operation.
LEMMA ErrorRecord ==
  ASSUME NEW t \in Threads, NEW n \in Nat, NEW e \in Codes
  PROVE  [Banner(t) EXCEPT !.n = n + 1, !.code = e] \in Record
  <1>1. n + 1 \in Nat
    OBVIOUS
  <1> QED  BY <1>1 DEF Banner, Record

\* It stays one when the code and its text are filled in.
LEMMA TextRecords ==
  ASSUME NEW r \in Record, NEW x \in Codes \cup {None, Stray, Mixed},
         NEW e \in Codes \cup {None, Stray}
  PROVE  /\ [r EXCEPT !.text = x] \in Record
         /\ [r EXCEPT !.err = e] \in Record
         /\ [r EXCEPT !.err = e, !.text = e] \in Record
  BY DEF Record

\* The facade starts with every variable in its type.
LEMMA InitTypeOK == Init => TypeOK
  <1> SUFFICES ASSUME Init PROVE TypeOK
    OBVIOUS
  <1>1. rec \in [Threads -> Record]
    BY BannerType DEF Init
  <1>2. console \in Seq(Record) /\ file \in Seq(Record)
    BY DEF Init
  <1>3. {alive, ready, gLogger, default} \subseteq BOOLEAN
    BY Zenon DEF Init
  <1> QED  BY <1>1, <1>2, <1>3 DEF Init, TypeOK, Pcs

\* A call keeps the types: what it is about to log is a record.
LEMMA CallType ==
  ASSUME TypeOK, NEW t \in Threads, Call(t)
  PROVE  TypeOK'
  <1> USE DEF TypeOK, Begin, Goto, loggerVars, sinkVars, Pcs
  <1>1. CASE CallInit(t)
    BY <1>1 DEF CallInit
  <1>2. CASE CallLog(t)
    <2>1. rec' \in [Threads -> Record]
      <3>1. calls[t] \in Nat /\ rec' = [rec EXCEPT ![t] = [Banner(t) EXCEPT !.n = calls[t] + 1]]
        BY <1>2 DEF CallLog
      <3>2. [Banner(t) EXCEPT !.n = calls[t] + 1] \in Record
        BY <3>1, InfoRecord
      <3> QED  BY <3>1, <3>2
    <2> QED  BY <1>2, <2>1 DEF CallLog
  <1>3. ASSUME NEW e \in Codes, CallSocketError(t, e) PROVE TypeOK'
    <2>1. rec' \in [Threads -> Record]
      BY <1>3, ErrorRecord DEF CallSocketError
    <2> QED  BY <1>3, <2>1 DEF CallSocketError
  <1> QED  BY <1>1, <1>2, <1>3 DEF Call

\* So does every step of the thread in a call.
LEMMA StepType ==
  ASSUME TypeOK, NEW t \in Threads, Step(t)
  PROVE  TypeOK'
  <1> USE LoggingAssumption DEF TypeOK, Goto, loggerVars, sinkVars, Pcs
  <1>1. CASE LockMutex(t)
    BY <1>1 DEF LockMutex
  <1>2. CASE CheckLogger(t)
    BY <1>2 DEF CheckLogger
  <1>3. CASE CreateSinks(t)
    BY <1>3 DEF CreateSinks
  <1>4. CASE PublishLogger(t)
    BY <1>4 DEF PublishLogger
  <1>5. CASE SetDefault(t)
    BY <1>5 DEF SetDefault
  <1>6. CASE BannerConsole(t)
    BY <1>6, BannerType DEF BannerConsole
  <1>7. CASE BannerFile(t)
    <2>1. Append(file, Banner(t)) \in Seq(Record)
      BY BannerType
    <2> QED  BY <1>7, <2>1 DEF BannerFile
  <1>8. CASE UnlockMutex(t)
    BY <1>8 DEF UnlockMutex
  <1>9. CASE ReadLastError(t)
    <2>1. rec[t] \in Record /\ errno[t] \in Codes \cup {None, Stray}
      OBVIOUS
    <2>2. CASE Windows
      <3>1. rec' = [rec EXCEPT ![t] = [rec[t] EXCEPT !.err = errno[t]]]
        BY <1>9, <2>1, <2>2 DEF ReadLastError, Record
      <3>2. [rec[t] EXCEPT !.err = errno[t]] \in Record
        BY <2>1, TextRecords
      <3>3. rec' \in [Threads -> Record]
        BY <3>1, <3>2
      <3> QED  BY <1>9, <3>3 DEF ReadLastError
    <2>3. CASE ~Windows
      <3>1. rec' = [rec EXCEPT ![t] = [rec[t] EXCEPT !.err = errno[t], !.text = errno[t]]]
        BY <1>9, <2>3 DEF ReadLastError
      <3>2. [rec[t] EXCEPT !.err = errno[t], !.text = errno[t]] \in Record
        BY <2>1, TextRecords
      <3>3. rec' \in [Threads -> Record]
        BY <3>1, <3>2
      <3> QED  BY <1>9, <3>3 DEF ReadLastError
    <2> QED  BY <2>2, <2>3
  <1>10. CASE FillBegins(t)
    BY <1>10 DEF FillBegins
  <1>11. CASE FillEnds(t)
    BY <1>11 DEF FillEnds, Record
  <1>12. CASE Format(t)
    <2>1. [rec[t] EXCEPT !.text = strbuf] \in Record
      BY TextRecords
    <2> QED  BY <1>12, <2>1 DEF Format
  <1>13. CASE WriteConsole(t)
    BY <1>13 DEF WriteConsole
  <1>14. CASE WriteFile(t)
    <2>1. Append(file, rec[t]) \in Seq(Record)
      OBVIOUS
    <2> QED  BY <1>14, <2>1 DEF WriteFile
  <1> QED
    BY <1>1, <1>2, <1>3, <1>4, <1>5, <1>6, <1>7, <1>8, <1>9, <1>10, <1>11,
       <1>12, <1>13, <1>14 DEF Step

-----------------------------------------------------------------------------
(* Mutual exclusion, and what has been built.                              *)

\* A call takes no mutex yet.
LEMMA CallMutex ==
  ASSUME TypeOK, MutexHeld, NEW t \in Threads, Call(t)
  PROVE  MutexHeld'
  <1> USE LoggingAssumption DEF TypeOK, Begin, Goto, loggerVars, sinkVars, MutexHeld, Inside
  <1>1. CASE CallInit(t)
    BY <1>1 DEF CallInit
  <1>2. CASE CallLog(t)
    BY <1>2 DEF CallLog
  <1>3. ASSUME NEW e \in Codes, CallSocketError(t, e) PROVE MutexHeld'
    BY <1>3 DEF CallSocketError
  <1> QED  BY <1>1, <1>2, <1>3 DEF Call

\* A thread gets under g_mutex when nobody is, and gives it back when it leaves.
LEMMA StepMutex ==
  ASSUME TypeOK, MutexHeld, NEW t \in Threads, Step(t)
  PROVE  MutexHeld'
  <1> USE LoggingAssumption DEF TypeOK, Goto, loggerVars, sinkVars, MutexHeld, Inside
  <1>1. CASE LockMutex(t)
    BY <1>1 DEF LockMutex
  <1>2. CASE CheckLogger(t)
    BY <1>2 DEF CheckLogger
  <1>3. CASE CreateSinks(t)
    BY <1>3 DEF CreateSinks
  <1>4. CASE PublishLogger(t)
    BY <1>4 DEF PublishLogger
  <1>5. CASE SetDefault(t)
    BY <1>5 DEF SetDefault
  <1>6. CASE BannerConsole(t)
    BY <1>6 DEF BannerConsole
  <1>7. CASE BannerFile(t)
    BY <1>7 DEF BannerFile
  <1>8. CASE UnlockMutex(t)
    BY <1>8 DEF UnlockMutex
  <1>9. CASE ReadLastError(t)
    BY <1>9 DEF ReadLastError
  <1>10. CASE FillBegins(t)
    BY <1>10 DEF FillBegins
  <1>11. CASE FillEnds(t)
    BY <1>11 DEF FillEnds
  <1>12. CASE Format(t)
    BY <1>12 DEF Format
  <1>13. CASE WriteConsole(t)
    BY <1>13 DEF WriteConsole
  <1>14. CASE WriteFile(t)
    BY <1>14 DEF WriteFile
  <1> QED
    BY <1>1, <1>2, <1>3, <1>4, <1>5, <1>6, <1>7, <1>8, <1>9, <1>10, <1>11,
       <1>12, <1>13, <1>14 DEF Step

\* A call builds nothing.
LEMMA CallPhases ==
  ASSUME TypeOK, Phases, NEW t \in Threads, Call(t)
  PROVE  Phases'
  <1> USE LoggingAssumption DEF TypeOK, Begin, Goto, loggerVars, sinkVars, Phases, Built, Past
  <1>1. CASE CallInit(t)
    BY <1>1 DEF CallInit
  <1>2. CASE CallLog(t)
    BY <1>2 DEF CallLog
  <1>3. ASSUME NEW e \in Codes, CallSocketError(t, e) PROVE Phases'
    BY <1>3 DEF CallSocketError
  <1> QED  BY <1>1, <1>2, <1>3 DEF Call

\* What is built is built by the one thread under g_mutex, in this order.
LEMMA StepPhases ==
  ASSUME TypeOK, MutexHeld, Phases, NEW t \in Threads, Step(t)
  PROVE  Phases'
  <1> USE LoggingAssumption DEF TypeOK, Goto, loggerVars, sinkVars, MutexHeld, Inside, Phases, Built, Past
  <1>1. CASE LockMutex(t)
    BY <1>1 DEF LockMutex
  <1>2. CASE CheckLogger(t)
    BY <1>2 DEF CheckLogger
  <1>3. CASE CreateSinks(t)
    BY <1>3 DEF CreateSinks
  <1>4. CASE PublishLogger(t)
    BY <1>4 DEF PublishLogger
  <1>5. CASE SetDefault(t)
    BY <1>5 DEF SetDefault
  <1>6. CASE BannerConsole(t)
    BY <1>6 DEF BannerConsole
  <1>7. CASE BannerFile(t)
    BY <1>7 DEF BannerFile
  <1>8. CASE UnlockMutex(t)
    BY <1>8 DEF UnlockMutex
  <1>9. CASE ReadLastError(t)
    BY <1>9 DEF ReadLastError
  <1>10. CASE FillBegins(t)
    BY <1>10 DEF FillBegins
  <1>11. CASE FillEnds(t)
    BY <1>11 DEF FillEnds
  <1>12. CASE Format(t)
    BY <1>12 DEF Format
  <1>13. CASE WriteConsole(t)
    BY <1>13 DEF WriteConsole
  <1>14. CASE WriteFile(t)
    BY <1>14 DEF WriteFile
  <1> QED
    BY <1>1, <1>2, <1>3, <1>4, <1>5, <1>6, <1>7, <1>8, <1>9, <1>10, <1>11,
       <1>12, <1>13, <1>14 DEF Step

-----------------------------------------------------------------------------
(* The order of the records.                                               *)

\* A call gives the thread a record of its own with the next number.
LEMMA CallCallers ==
  ASSUME TypeOK, Callers, NEW t \in Threads, Call(t)
  PROVE  Callers'
  <1> USE LoggingAssumption DEF TypeOK, Begin, Goto, loggerVars, sinkVars, Callers, Past, Banner
  <1>1. CASE CallInit(t)
    BY <1>1 DEF CallInit
  <1>2. CASE CallLog(t)
    BY <1>2 DEF CallLog
  <1>3. ASSUME NEW e \in Codes, CallSocketError(t, e) PROVE Callers'
    BY <1>3 DEF CallSocketError
  <1> QED  BY <1>1, <1>2, <1>3 DEF Call

\* The record stays the thread's.
LEMMA StepCallers ==
  ASSUME TypeOK, Callers, NEW t \in Threads, Step(t)
  PROVE  Callers'
  <1> USE LoggingAssumption DEF TypeOK, Goto, loggerVars, sinkVars, Callers, Past
  <1>1. CASE LockMutex(t)
    BY <1>1 DEF LockMutex
  <1>2. CASE CheckLogger(t)
    BY <1>2 DEF CheckLogger
  <1>3. CASE CreateSinks(t)
    BY <1>3 DEF CreateSinks
  <1>4. CASE PublishLogger(t)
    BY <1>4 DEF PublishLogger
  <1>5. CASE SetDefault(t)
    BY <1>5 DEF SetDefault
  <1>6. CASE BannerConsole(t)
    BY <1>6 DEF BannerConsole
  <1>7. CASE BannerFile(t)
    BY <1>7 DEF BannerFile
  <1>8. CASE UnlockMutex(t)
    BY <1>8 DEF UnlockMutex
  <1>9. CASE ReadLastError(t)
    BY <1>9 DEF ReadLastError
  <1>10. CASE FillBegins(t)
    BY <1>10 DEF FillBegins
  <1>11. CASE FillEnds(t)
    BY <1>11 DEF FillEnds
  <1>12. CASE Format(t)
    BY <1>12 DEF Format
  <1>13. CASE WriteConsole(t)
    BY <1>13 DEF WriteConsole
  <1>14. CASE WriteFile(t)
    BY <1>14 DEF WriteFile
  <1> QED
    BY <1>1, <1>2, <1>3, <1>4, <1>5, <1>6, <1>7, <1>8, <1>9, <1>10, <1>11,
       <1>12, <1>13, <1>14 DEF Step

\* What a sink holds is records, and what it holds after an Append the old ones
\* and the new one.
LEMMA SinkRecords ==
  ASSUME NEW s \in Seq(Record)
  PROVE  /\ Records(s) \subseteq Record
         /\ \A x \in Record : Records(Append(s, x)) = Records(s) \cup {x}
  <1>1. ASSUME NEW x \in Record, NEW r PROVE r \in Records(Append(s, x)) <=> r \in Records(s) \cup {x}
    <2>1. Len(Append(s, x)) = Len(s) + 1 /\ Append(s, x)[Len(s) + 1] = x
      OBVIOUS
    <2>2. \A i \in 1 .. Len(s) : Append(s, x)[i] = s[i]
      OBVIOUS
    <2> QED  BY <2>1, <2>2 DEF Records
  <1> QED  BY <1>1 DEF Records

\* A new call is younger than all that is in the sinks.
LEMMA CallOlder ==
  ASSUME TypeOK, Older, NEW t \in Threads, Call(t)
  PROVE  Older'
  <1>1. /\ console' = console /\ file' = file
        /\ pc[t] = "idle" /\ pc' = [pc EXCEPT ![t] = "lock"]
        /\ calls' = [calls EXCEPT ![t] = @ + 1]
    BY DEF Call, CallInit, CallLog, CallSocketError, Begin, Goto, sinkVars
  <1>2. ASSUME NEW r \in Record, NEW done, OlderRecord(r, done), "idle" \in done
        PROVE  OlderRecord(r, done)'
    BY <1>1, <1>2 DEF TypeOK, Record, OlderRecord
  <1>3. "idle" \in {"idle", "file"} /\ "idle" \in {"idle"}
    OBVIOUS
  <1>4. Records(console) \subseteq Record /\ Records(file) \subseteq Record
    BY SinkRecords DEF TypeOK
  <1> QED  BY <1>1, <1>2, <1>3, <1>4 DEF Older

\* A step makes no record that is in a sink young.
LEMMA OlderKept ==
  ASSUME TypeOK, NEW r \in Record, NEW done \in {{"idle", "file"}, {"idle"}},
         OlderRecord(r, done), NEW t \in Threads, Step(t)
  PROVE  OlderRecord(r, done)'
  <1> USE DEF TypeOK, Record, OlderRecord, Goto, loggerVars, sinkVars
  <1>1. CASE LockMutex(t)
    BY <1>1 DEF LockMutex
  <1>2. CASE CheckLogger(t)
    BY <1>2 DEF CheckLogger
  <1>3. CASE CreateSinks(t)
    BY <1>3 DEF CreateSinks
  <1>4. CASE PublishLogger(t)
    BY <1>4 DEF PublishLogger
  <1>5. CASE SetDefault(t)
    BY <1>5 DEF SetDefault
  <1>6. CASE BannerConsole(t)
    BY <1>6 DEF BannerConsole
  <1>7. CASE BannerFile(t)
    BY <1>7 DEF BannerFile
  <1>8. CASE UnlockMutex(t)
    BY <1>8 DEF UnlockMutex
  <1>9. CASE ReadLastError(t)
    BY <1>9 DEF ReadLastError
  <1>10. CASE FillBegins(t)
    BY <1>10 DEF FillBegins
  <1>11. CASE FillEnds(t)
    BY <1>11 DEF FillEnds
  <1>12. CASE Format(t)
    BY <1>12 DEF Format
  <1>13. CASE WriteConsole(t)
    BY <1>13 DEF WriteConsole
  <1>14. CASE WriteFile(t)
    BY <1>14 DEF WriteFile
  <1> QED
    BY <1>1, <1>2, <1>3, <1>4, <1>5, <1>6, <1>7, <1>8, <1>9, <1>10, <1>11,
       <1>12, <1>13, <1>14 DEF Step

\* A record goes to a sink once, and the line of initLogger is older than all.
LEMMA NewRecord ==
  ASSUME TypeOK, Callers, NEW t \in Threads, Step(t)
  PROVE  /\ \/ console' = console
            \/ \E r \in Record :
                 console' = Append(console, r) /\ OlderRecord(r, {"idle", "file"})'
         /\ \/ file' = file
            \/ \E r \in Record : file' = Append(file, r) /\ OlderRecord(r, {"idle"})'
  <1> USE DEF TypeOK, Callers, Past, Goto, loggerVars, sinkVars
  <1>1. CASE LockMutex(t)
    BY <1>1 DEF LockMutex
  <1>2. CASE CheckLogger(t)
    BY <1>2 DEF CheckLogger
  <1>3. CASE CreateSinks(t)
    BY <1>3 DEF CreateSinks
  <1>4. CASE PublishLogger(t)
    BY <1>4 DEF PublishLogger
  <1>5. CASE SetDefault(t)
    BY <1>5 DEF SetDefault
  <1>6. CASE BannerConsole(t)
    <2>1. Banner(t) \in Record /\ OlderRecord(Banner(t), {"idle", "file"})'
      <3>1. Banner(t).by = t /\ Banner(t).n = 0
        BY DEF Banner
      <3> QED  BY <1>6, <3>1, BannerType DEF BannerConsole, OlderRecord
    <2> QED  BY <1>6, <2>1 DEF BannerConsole
  <1>7. CASE BannerFile(t)
    <2>1. Banner(t) \in Record /\ OlderRecord(Banner(t), {"idle"})'
      <3>1. Banner(t).by = t /\ Banner(t).n = 0
        BY DEF Banner
      <3> QED  BY <1>7, <3>1, BannerType DEF BannerFile, OlderRecord
    <2> QED  BY <1>7, <2>1 DEF BannerFile
  <1>8. CASE UnlockMutex(t)
    BY <1>8 DEF UnlockMutex
  <1>9. CASE ReadLastError(t)
    BY <1>9 DEF ReadLastError
  <1>10. CASE FillBegins(t)
    BY <1>10 DEF FillBegins
  <1>11. CASE FillEnds(t)
    BY <1>11 DEF FillEnds
  <1>12. CASE Format(t)
    BY <1>12 DEF Format
  <1>13. CASE WriteConsole(t)
    <2>1. rec[t] \in Record /\ OlderRecord(rec[t], {"idle", "file"})'
      BY <1>13 DEF WriteConsole, OlderRecord, Record
    <2> QED  BY <1>13, <2>1 DEF WriteConsole
  <1>14. CASE WriteFile(t)
    <2>1. rec[t] \in Record /\ OlderRecord(rec[t], {"idle"})'
      BY <1>14 DEF WriteFile, OlderRecord, Record
    <2> QED  BY <1>14, <2>1 DEF WriteFile
  <1> QED
    BY <1>1, <1>2, <1>3, <1>4, <1>5, <1>6, <1>7, <1>8, <1>9, <1>10, <1>11,
       <1>12, <1>13, <1>14 DEF Step

\* So both sinks hold older records only.
LEMMA StepOlder ==
  ASSUME TypeOK, Callers, Older, NEW t \in Threads, Step(t)
  PROVE  Older'
  <1>1. console \in Seq(Record) /\ file \in Seq(Record)
    BY DEF TypeOK
  <1>2. Records(console) \subseteq Record /\ Records(file) \subseteq Record
    BY <1>1, SinkRecords
  <1>3. ASSUME NEW r \in Records(console') PROVE OlderRecord(r, {"idle", "file"})'
    <2>1. CASE r \in Records(console)
      BY <1>2, <2>1, OlderKept DEF Older
    <2>2. CASE r \notin Records(console)
      <3>1. PICK x \in Record :
              console' = Append(console, x) /\ OlderRecord(x, {"idle", "file"})'
        BY <1>3, <2>2, NewRecord
      <3> QED  BY <1>1, <1>3, <2>2, <3>1, SinkRecords
    <2> QED  BY <2>1, <2>2
  <1>4. ASSUME NEW r \in Records(file') PROVE OlderRecord(r, {"idle"})'
    <2>1. CASE r \in Records(file)
      BY <1>2, <2>1, OlderKept DEF Older
    <2>2. CASE r \notin Records(file)
      <3>1. PICK x \in Record : file' = Append(file, x) /\ OlderRecord(x, {"idle"})'
        BY <1>4, <2>2, NewRecord
      <3> QED  BY <1>1, <1>4, <2>2, <3>1, SinkRecords
    <2> QED  BY <2>1, <2>2
  <1> QED  BY <1>3, <1>4 DEF Older

\* A call writes nothing.
LEMMA CallBanner ==
  ASSUME TypeOK, BannerFirst, NEW t \in Threads, Call(t)
  PROVE  BannerFirst'
  <1> USE LoggingAssumption DEF TypeOK, Begin, sinkVars, BannerFirst
  <1>1. CASE CallInit(t)
    BY <1>1 DEF CallInit
  <1>2. CASE CallLog(t)
    BY <1>2 DEF CallLog
  <1>3. ASSUME NEW e \in Codes, CallSocketError(t, e) PROVE BannerFirst'
    BY <1>3 DEF CallSocketError
  <1> QED  BY <1>1, <1>2, <1>3 DEF Call

\* What a thread is about to write is the record of its latest call.
LEMMA AboutToWrite ==
  ASSUME TypeOK, Callers, NEW t \in Threads, pc[t] \in {"console", "file"}
  PROVE  rec[t] \in Record /\ rec[t].by = t /\ rec[t].n = calls[t] /\ rec[t].n \in Nat \ {0}
  <1>1. rec[t] \in Record /\ rec[t].by = t /\ calls[t] \in Nat
    BY DEF TypeOK, Callers
  <1>2. pc[t] # "idle" /\ pc[t] \in Past
    BY DEF Past
  <1> QED  BY <1>1, <1>2 DEF Callers

\* The line of initLogger is written to empty sinks, and everything else after it.
LEMMA StepBanner ==
  ASSUME TypeOK, Phases, Callers, BannerFirst, NEW t \in Threads, Step(t)
  PROVE  BannerFirst'
  <1> USE DEF TypeOK, Goto, sinkVars, BannerFirst
  <1>1. CASE LockMutex(t)
    BY <1>1 DEF LockMutex
  <1>2. CASE CheckLogger(t)
    BY <1>2 DEF CheckLogger
  <1>3. CASE CreateSinks(t)
    BY <1>3 DEF CreateSinks
  <1>4. CASE PublishLogger(t)
    BY <1>4 DEF PublishLogger
  <1>5. CASE SetDefault(t)
    BY <1>5 DEF SetDefault
  <1>6. CASE BannerConsole(t)
    <2>1. console = <<>> /\ console' = Append(console, Banner(t)) /\ file' = file
      BY <1>6 DEF BannerConsole, Phases
    <2>2. Banner(t).n = 0
      BY DEF Banner
    <2> QED  BY <2>1, <2>2
  <1>7. CASE BannerFile(t)
    <2>1. file = <<>> /\ file' \in {Append(file, Banner(t)), file} /\ console' = console
      BY <1>7 DEF BannerFile, Phases
    <2> QED  BY <2>1
  <1>8. CASE UnlockMutex(t)
    BY <1>8 DEF UnlockMutex
  <1>9. CASE ReadLastError(t)
    BY <1>9 DEF ReadLastError
  <1>10. CASE FillBegins(t)
    BY <1>10 DEF FillBegins
  <1>11. CASE FillEnds(t)
    BY <1>11 DEF FillEnds
  <1>12. CASE Format(t)
    BY <1>12 DEF Format
  <1>13. CASE WriteConsole(t)
    <2>1. console # <<>> /\ console' = Append(console, rec[t]) /\ file' = file
      BY <1>13 DEF WriteConsole, Phases, Past, Built
    <2>2. rec[t].n # 0
      BY <1>13, AboutToWrite DEF WriteConsole
    <2> QED  BY <2>1, <2>2
  <1>14. CASE WriteFile(t)
    <2>1. file' \in {Append(file, rec[t]), file} /\ console' = console
      BY <1>14 DEF WriteFile
    <2>2. rec[t].n # 0
      BY <1>14, AboutToWrite DEF WriteFile
    <2>3. \A i \in 1 .. Len(file) : Append(file, rec[t])[i] = file[i]
      OBVIOUS
    <2>4. Len(Append(file, rec[t])) = Len(file) + 1 /\ Append(file, rec[t])[Len(file) + 1] = rec[t]
      OBVIOUS
    <2>5. CASE file' = file
      BY <2>1, <2>5
    <2>6. CASE file' = Append(file, rec[t])
      <3>1. \A i \in 1 .. Len(file') : file'[i].n = 0 => i = 1
        BY <2>2, <2>3, <2>4, <2>6
      <3> QED  BY <2>1, <3>1
    <2> QED  BY <2>1, <2>5, <2>6
  <1> QED
    BY <1>1, <1>2, <1>3, <1>4, <1>5, <1>6, <1>7, <1>8, <1>9, <1>10, <1>11,
       <1>12, <1>13, <1>14 DEF Step

\* The records of each thread ascend in a sink.
Ascending(sink) ==
  \A i, j \in 1 .. Len(sink) : i < j /\ sink[i].by = sink[j].by => sink[i].n < sink[j].n

\* They still do with a record that is younger than its thread's others.
LEMMA AppendAscending ==
  ASSUME NEW s \in Seq(Record), NEW x \in Record, Ascending(s),
         \A r \in Records(s) : r.by = x.by => r.n < x.n
  PROVE  Ascending(Append(s, x))
  <1>1. Len(Append(s, x)) = Len(s) + 1 /\ Append(s, x)[Len(s) + 1] = x
    OBVIOUS
  <1>2. \A i \in 1 .. Len(s) : Append(s, x)[i] = s[i] /\ s[i] \in Records(s)
    BY DEF Records
  <1> QED  BY <1>1, <1>2 DEF Ascending

\* PerThreadOrder says this of each of the two sinks.
LEMMA OrderIsAscending == PerThreadOrder <=> Ascending(console) /\ Ascending(file)
  BY DEF PerThreadOrder, Ascending

\* A call writes nothing, so the order stays.
LEMMA CallOrder ==
  ASSUME TypeOK, PerThreadOrder, NEW t \in Threads, Call(t)
  PROVE  PerThreadOrder'
  <1> USE LoggingAssumption DEF TypeOK, Begin, sinkVars, PerThreadOrder
  <1>1. CASE CallInit(t)
    BY <1>1 DEF CallInit
  <1>2. CASE CallLog(t)
    BY <1>2 DEF CallLog
  <1>3. ASSUME NEW e \in Codes, CallSocketError(t, e) PROVE PerThreadOrder'
    BY <1>3 DEF CallSocketError
  <1> QED  BY <1>1, <1>2, <1>3 DEF Call

\* Each thread's records come to each sink in the order of its calls.
LEMMA StepOrder ==
  ASSUME TypeOK, Phases, Callers, Older, Ascending(console), Ascending(file),
         NEW t \in Threads, Step(t)
  PROVE  (Ascending(console) /\ Ascending(file))'
  <1> USE DEF TypeOK, Goto, sinkVars
  <1>1. CASE LockMutex(t)
    BY <1>1 DEF LockMutex
  <1>2. CASE CheckLogger(t)
    BY <1>2 DEF CheckLogger
  <1>3. CASE CreateSinks(t)
    BY <1>3 DEF CreateSinks
  <1>4. CASE PublishLogger(t)
    BY <1>4 DEF PublishLogger
  <1>5. CASE SetDefault(t)
    BY <1>5 DEF SetDefault
  <1>6. CASE BannerConsole(t)
    <2>1. Records(console) = {}
      BY <1>6 DEF BannerConsole, Phases, Records
    <2> QED  BY <1>6, <2>1, BannerType, AppendAscending DEF BannerConsole
  <1>7. CASE BannerFile(t)
    <2>1. Records(file) = {}
      BY <1>7 DEF BannerFile, Phases, Records
    <2>2. Ascending(Append(file, Banner(t)))
      BY <2>1, BannerType, AppendAscending
    <2> QED  BY <1>7, <2>2 DEF BannerFile
  <1>8. CASE UnlockMutex(t)
    BY <1>8 DEF UnlockMutex
  <1>9. CASE ReadLastError(t)
    BY <1>9 DEF ReadLastError
  <1>10. CASE FillBegins(t)
    BY <1>10 DEF FillBegins
  <1>11. CASE FillEnds(t)
    BY <1>11 DEF FillEnds
  <1>12. CASE Format(t)
    BY <1>12 DEF Format
  <1>13. CASE WriteConsole(t)
    <2>1. \A r \in Records(console) : r.by = rec[t].by => r.n < rec[t].n
      <3>1. pc[t] = "console" /\ rec[t].by = t /\ rec[t].n = calls[t]
        BY <1>13, AboutToWrite DEF WriteConsole
      <3> QED  BY <3>1 DEF Older, OlderRecord
    <2>2. Ascending(Append(console, rec[t]))
      BY <2>1, AppendAscending
    <2> QED  BY <1>13, <2>2 DEF WriteConsole
  <1>14. CASE WriteFile(t)
    <2>1. \A r \in Records(file) : r.by = rec[t].by => r.n < rec[t].n
      <3>1. pc[t] = "file" /\ rec[t].by = t /\ rec[t].n = calls[t]
        BY <1>14, AboutToWrite DEF WriteFile
      <3> QED  BY <3>1 DEF Older, OlderRecord
    <2>2. Ascending(Append(file, rec[t]))
      BY <2>1, AppendAscending
    <2> QED  BY <1>14, <2>2 DEF WriteFile
  <1> QED
    BY <1>1, <1>2, <1>3, <1>4, <1>5, <1>6, <1>7, <1>8, <1>9, <1>10, <1>11,
       <1>12, <1>13, <1>14 DEF Step

-----------------------------------------------------------------------------
(* Error codes.                                                            *)

\* A call begins with the code its operation has left.
LEMMA CallLossy ==
  ASSUME TypeOK, NEW u \in Threads, Lossy(u)', NEW t \in Threads, Call(t)
  PROVE  Lossy(u)
  <1> USE LoggingAssumption DEF TypeOK, Begin, Goto, Lossy, LostCode, Inside, Banner
  <1>1. CASE CallInit(t)
    BY <1>1 DEF CallInit
  <1>2. CASE CallLog(t)
    BY <1>2 DEF CallLog
  <1>3. ASSUME NEW e \in Codes, CallSocketError(t, e) PROVE Lossy(u)
    BY <1>3 DEF CallSocketError
  <1> QED  BY <1>1, <1>2, <1>3 DEF Call

\* No step but the making of the sinks loses a code.
LEMMA StepLossy ==
  ASSUME TypeOK, Callers, LossOnce, NEW u \in Threads, Lossy(u)', NEW t \in Threads, Step(t)
  PROVE  Lossy(u) \/ CreateSinks(t)
  <1> USE DEF TypeOK, Goto, Callers, Lossy, LostCode, Inside
  <1>1. CASE LockMutex(t)
    BY <1>1 DEF LockMutex
  <1>2. CASE CheckLogger(t)
    BY <1>2 DEF CheckLogger
  <1>3. CASE CreateSinks(t)
    BY <1>3
  <1>4. CASE PublishLogger(t)
    BY <1>4 DEF PublishLogger
  <1>5. CASE SetDefault(t)
    BY <1>5 DEF SetDefault
  <1>6. CASE BannerConsole(t)
    BY <1>6 DEF BannerConsole
  <1>7. CASE BannerFile(t)
    BY <1>7 DEF BannerFile
  <1>8. CASE UnlockMutex(t)
    BY <1>8 DEF UnlockMutex, LossOnce
  <1>9. CASE ReadLastError(t)
    BY <1>9 DEF ReadLastError
  <1>10. CASE FillBegins(t)
    BY <1>10 DEF FillBegins
  <1>11. CASE FillEnds(t)
    BY <1>11 DEF FillEnds
  <1>12. CASE Format(t)
    BY <1>12 DEF Format
  <1>13. CASE WriteConsole(t)
    BY <1>13 DEF WriteConsole
  <1>14. CASE WriteFile(t)
    BY <1>14 DEF WriteFile
  <1> QED
    BY <1>1, <1>2, <1>3, <1>4, <1>5, <1>6, <1>7, <1>8, <1>9, <1>10, <1>11,
       <1>12, <1>13, <1>14 DEF Step

\* What a step writes to the console is the line of initLogger or the record of
\* the thread that makes it.
LEMMA ConsoleStep ==
  ASSUME TypeOK, NEW t \in Threads, Step(t)
  PROVE  \/ console' = console
         \/ console' = Append(console, Banner(t)) /\ pc[t] = "bannerConsole"
         \/ console' = Append(console, rec[t]) /\ WriteConsole(t)
  BY DEF Step, LockMutex, CheckLogger, CreateSinks, PublishLogger, SetDefault, BannerConsole,
         BannerFile, UnlockMutex, ReadLastError, FillBegins, FillEnds, Format, WriteConsole,
         WriteFile, Goto, loggerVars, sinkVars

\* A step moves its own thread only; when g_logger is not set after it, it was
\* not before, and the step was not the one that sets it.
LEMMA OneMoves ==
  ASSUME TypeOK, NEW t \in Threads, Step(t), ~CreateSinks(t), ~gLogger'
  PROVE  /\ \A u \in Threads : u # t => pc'[u] = pc[u]
         /\ ~gLogger /\ pc[t] # "publish"
  <1>1. pc' = [pc EXCEPT ![t] = pc'[t]]
    BY DEF Step, LockMutex, CheckLogger, PublishLogger, SetDefault, BannerConsole,
           BannerFile, UnlockMutex, ReadLastError, FillBegins, FillEnds, Format, WriteConsole,
           WriteFile, Goto, TypeOK
  <1>2. ~gLogger /\ pc[t] # "publish"
    BY DEF Step, LockMutex, CheckLogger, PublishLogger, SetDefault, BannerConsole,
           BannerFile, UnlockMutex, ReadLastError, FillBegins, FillEnds, Format, WriteConsole,
           WriteFile, Goto, TypeOK, loggerVars
  <1> QED  BY <1>1, <1>2 DEF TypeOK

\* What is lost is lost once, by a call.
LEMMA CallLoss ==
  ASSUME TypeOK, LossOnce, ErrnoLostOnce, NEW t \in Threads, Call(t)
  PROVE  (LossOnce /\ ErrnoLostOnce)'
  <1>1. /\ console' = console /\ gLogger' = gLogger
        /\ pc[t] = "idle" /\ pc' = [pc EXCEPT ![t] = "lock"]
    BY DEF Call, CallInit, CallLog, CallSocketError, Begin, Goto, sinkVars, loggerVars
  <1>2. ErrnoLostOnce'
    BY <1>1 DEF ErrnoLostOnce
  <1>3. \A u \in Threads : Lossy(u)' => Lossy(u)
    BY CallLossy
  <1>4. \A u \in Threads : (kind[u] = "info" /\ pc[u] # "idle" => ~LostCode(rec[u]))'
    <2> USE LoggingAssumption DEF TypeOK, LossOnce, Begin, Goto, LostCode, Banner
    <2>1. CASE CallInit(t)
      BY <2>1 DEF CallInit
    <2>2. CASE CallLog(t)
      BY <2>2 DEF CallLog
    <2>3. ASSUME NEW e \in Codes, CallSocketError(t, e)
          PROVE  \A u \in Threads : (kind[u] = "info" /\ pc[u] # "idle" => ~LostCode(rec[u]))'
      BY <2>3 DEF CallSocketError
    <2> QED  BY <2>1, <2>2, <2>3 DEF Call
  <1>5. \A u \in Threads : Lossy(u) => u # t
    BY <1>1 DEF Lossy, Inside
  <1>6. \A u \in Threads : u # t => pc'[u] = pc[u]
    BY <1>1 DEF TypeOK
  <1> QED  BY <1>1, <1>2, <1>3, <1>4, <1>5, <1>6 DEF LossOnce

\* A record of logInfo has no code to lose.
LEMMA InfoLosesNothing ==
  ASSUME TypeOK, Callers, LossOnce, NEW t \in Threads, Step(t), NEW u \in Threads
  PROVE  (kind[u] = "info" /\ pc[u] # "idle" => ~LostCode(rec[u]))'
  <1> USE DEF TypeOK, Goto, Callers, LossOnce, LostCode
  <1>1. CASE LockMutex(t)
    BY <1>1 DEF LockMutex
  <1>2. CASE CheckLogger(t)
    BY <1>2 DEF CheckLogger
  <1>3. CASE CreateSinks(t)
    BY <1>3 DEF CreateSinks
  <1>4. CASE PublishLogger(t)
    BY <1>4 DEF PublishLogger
  <1>5. CASE SetDefault(t)
    BY <1>5 DEF SetDefault
  <1>6. CASE BannerConsole(t)
    BY <1>6 DEF BannerConsole
  <1>7. CASE BannerFile(t)
    BY <1>7 DEF BannerFile
  <1>8. CASE UnlockMutex(t)
    BY <1>8 DEF UnlockMutex
  <1>9. CASE ReadLastError(t)
    BY <1>9 DEF ReadLastError
  <1>10. CASE FillBegins(t)
    BY <1>10 DEF FillBegins
  <1>11. CASE FillEnds(t)
    BY <1>11 DEF FillEnds
  <1>12. CASE Format(t)
    BY <1>12 DEF Format
  <1>13. CASE WriteConsole(t)
    BY <1>13 DEF WriteConsole
  <1>14. CASE WriteFile(t)
    BY <1>14 DEF WriteFile
  <1> QED
    BY <1>1, <1>2, <1>3, <1>4, <1>5, <1>6, <1>7, <1>8, <1>9, <1>10, <1>11,
       <1>12, <1>13, <1>14 DEF Step

\* The sinks are made once, before anything is lost; so one code is lost at
\* most, and shown once.
LEMMA StepLoss ==
  ASSUME TypeOK, MutexHeld, Phases, Callers, LossOnce, ErrnoLostOnce,
         NEW t \in Threads, Step(t)
  PROVE  (LossOnce /\ ErrnoLostOnce)'
  <1>1. CASE CreateSinks(t)
    <2>1. /\ console = <<>> /\ console' = console /\ ~gLogger /\ ~gLogger'
          /\ pc[t] = "create" /\ gMutex = t
          /\ \/ pc' = [pc EXCEPT ![t] = "publish"]
             \/ pc' = [pc EXCEPT ![t] = "idle"]
      BY <1>1 DEF CreateSinks, Goto, Phases, MutexHeld, Inside, sinkVars
    <2>2. \A u \in Threads : ~Lossy(u)
      BY <2>1 DEF LossOnce, MutexHeld, Inside
    <2>3. \A u \in Threads : Lossy(u)' => u = t /\ pc'[u] = "publish"
      BY <1>1, <2>1, <2>2 DEF CreateSinks, Goto, Lossy, LostCode, Inside, TypeOK
    <2>4. Records(console') = {} /\ Len(console') = 0
      BY <2>1 DEF Records
    <2> QED  BY <2>1, <2>3, <2>4, InfoLosesNothing DEF LossOnce, ErrnoLostOnce
  <1>2. CASE ~CreateSinks(t)
    <2>1. \A u \in Threads : Lossy(u)' => Lossy(u)
      BY <1>2, StepLossy
    <2>2. ASSUME NEW u \in Threads, Lossy(u)', ~gLogger' PROVE pc'[u] = "publish"
      <3>1. Lossy(u)
        BY <2>1, <2>2
      <3>2. ~gLogger /\ \A v \in Threads : v # t => pc'[v] = pc[v]
        BY <1>2, <2>2, OneMoves
      <3>3. pc[u] = "publish"
        BY <3>1, <3>2 DEF LossOnce
      <3>4. u # t
        BY <1>2, <2>2, <3>3, OneMoves
      <3> QED  BY <3>2, <3>3, <3>4
    <2>3. ASSUME NEW r \in Records(console), Lossy(t) PROVE ~LostCode(r)
      BY <2>3 DEF LossOnce
    <2>4. ~LostCode(Banner(t))
      BY DEF Banner, LostCode
    <2>5. console \in Seq(Record) /\ Banner(t) \in Record /\ rec[t] \in Record
      BY BannerType DEF TypeOK
    <2>6. ASSUME WriteConsole(t), LostCode(rec[t]) PROVE Lossy(t) /\ ~Lossy(t)'
      BY <2>6 DEF WriteConsole, Goto, Lossy, Inside, TypeOK
    <2>7. ASSUME NEW u \in Threads, Lossy(u)', NEW r \in Records(console')
          PROVE  ~LostCode(r)
      <3>1. r \in Records(console) => ~LostCode(r)
        BY <2>1, <2>7 DEF LossOnce
      <3>2. \/ r \in Records(console) \/ r = Banner(t)
            \/ r = rec[t] /\ WriteConsole(t)
        <4>1. \A x \in Record : Records(Append(console, x)) = Records(console) \cup {x}
          BY <2>5, SinkRecords
        <4> QED  BY <2>5, <2>7, <4>1, ConsoleStep
      <3>3. ASSUME WriteConsole(t), LostCode(rec[t]) PROVE FALSE
        <4>1. Lossy(t) /\ Lossy(u) /\ ~Lossy(t)'
          BY <2>1, <2>6, <2>7, <3>3
        <4>2. t = u
          BY <4>1 DEF LossOnce
        <4> QED  BY <2>7, <4>1, <4>2
      <3> QED  BY <2>4, <3>1, <3>2, <3>3
    <2>8. ErrnoLostOnce'
      <3>1. CASE console' = console
        BY <3>1 DEF ErrnoLostOnce
      <3>2. ASSUME NEW x \in Record, console' = Append(console, x),
                   LostCode(x) => \A r \in Records(console) : ~LostCode(r)
            PROVE  ErrnoLostOnce'
        <4>1. \A i \in 1 .. Len(console) : console[i] \in Records(console)
          BY DEF Records
        <4>2. /\ Len(console') = Len(console) + 1
              /\ \A i \in 1 .. Len(console') :
                   console'[i] = IF i \in 1 .. Len(console) THEN console[i] ELSE x
          BY <2>5, <3>2
        <4>3. Len(console) \in Nat
          BY <2>5
        <4>4. \A i \in 1 .. Len(console') : i \in 1 .. Len(console) \/ i = Len(console) + 1
          BY <4>2, <4>3
        <4> QED  BY <3>2, <4>1, <4>2, <4>4 DEF ErrnoLostOnce
      <3>3. WriteConsole(t) /\ LostCode(rec[t]) => \A r \in Records(console) : ~LostCode(r)
        BY <2>3, <2>6
      <3> QED  BY <2>4, <2>5, <3>1, <3>2, <3>3, ConsoleStep
    <2> QED  BY <2>1, <2>2, <2>7, <2>8, InfoLosesNothing DEF LossOnce
  <1> QED  BY <1>1, <1>2

-----------------------------------------------------------------------------
(* The theorems.                                                           *)

\* The inductive invariant, with the properties it is there for.
Inv ==
  /\ TypeOK /\ MutexHeld /\ Phases /\ Callers /\ Older
  /\ BannerFirst /\ PerThreadOrder /\ LossOnce /\ ErrnoLostOnce

\* All of it holds before the first call.
LEMMA InitInv == Init => Inv
  <1> SUFFICES ASSUME Init PROVE Inv
    OBVIOUS
  <1>1. TypeOK
    BY InitTypeOK
  <1>2. MutexHeld /\ Phases
    BY DEF Init, MutexHeld, Phases, Inside, Past
  <1>3. Callers
    BY DEF Init, Callers, Past, Banner
  <1>4. Older /\ BannerFirst /\ PerThreadOrder /\ ErrnoLostOnce
    BY DEF Init, Older, Records, BannerFirst, PerThreadOrder, ErrnoLostOnce
  <1>5. LossOnce
    BY DEF Init, LossOnce, Lossy, LostCode, Inside, Banner
  <1> QED  BY <1>1, <1>2, <1>3, <1>4, <1>5 DEF Inv

\* Every call, every step of a thread in one and the end keep all of it.
LEMMA StepInv == Inv /\ [Next]_vars => Inv'
  <1> SUFFICES ASSUME Inv, [Next]_vars PROVE Inv'
    OBVIOUS
  <1>1. ASSUME NEW t \in Threads, Call(t) PROVE Inv'
    BY <1>1, CallType, CallMutex, CallPhases, CallCallers, CallOlder, CallBanner, CallOrder,
       CallLoss DEF Inv
  <1>2. ASSUME NEW t \in Threads, Step(t) PROVE Inv'
    <2> USE <1>2 DEF Inv
    <2>1. (TypeOK /\ MutexHeld)'
      BY StepType, StepMutex
    <2>2. Phases'
      BY StepPhases
    <2>3. (Callers /\ Older)'
      BY StepCallers, StepOlder
    <2>4. BannerFirst'
      BY StepBanner
    <2>5. PerThreadOrder'
      <3>1. Ascending(console) /\ Ascending(file)
        BY OrderIsAscending
      <3>2. (Ascending(console) /\ Ascending(file))'
        BY <3>1, StepOrder
      <3> QED  BY <3>2, OrderIsAscending, PTL
    <2>6. (LossOnce /\ ErrnoLostOnce)'
      BY StepLoss
    <2> QED  BY <2>1, <2>2, <2>3, <2>4, <2>5, <2>6
  <1>3. CASE UNCHANGED vars
    <2> USE <1>3 DEF Inv, vars, loggerVars, threadVars, sinkVars
    <2>1. (TypeOK /\ MutexHeld /\ Phases /\ Callers)'
      BY DEF TypeOK, MutexHeld, Phases, Built, Callers
    <2>2. (Older /\ BannerFirst /\ PerThreadOrder)'
      BY DEF Older, OlderRecord, BannerFirst, PerThreadOrder
    <2>3. (LossOnce /\ ErrnoLostOnce)'
      BY DEF LossOnce, Lossy, ErrnoLostOnce
    <2> QED  BY <2>1, <2>2, <2>3
  <1> QED  BY <1>1, <1>2, <1>3 DEF Next, Over

\* The invariant the three theorems rest on.
LEMMA AlwaysInv == Spec => []Inv
  BY InitInv, StepInv, PTL DEF Spec

\* Whichever threads call first, together or not, one logger is built, its line
\* comes before every record, whoever comes out of initLogger finds it complete,
\* and a process that ends does so before anything is logged (Logging.cpp:47-72).
THEOREM LoggerBuiltBeforeUse == Spec => []BuiltBeforeUse
  <1>1. Inv => BuiltBeforeUse
    BY DEF Inv, BuiltBeforeUse, ReadyMeansBuilt, DiesBeforeLogging, Phases, Built
  <1> QED  BY <1>1, AlwaysInv, PTL

\* Every thread's records are in each sink in the order of its calls, each once
\* at most, however the threads interleave (Logging.cpp:74-95).
THEOREM RecordsInOrder == Spec => []PerThreadOrder
  <1>1. Inv => PerThreadOrder
    BY DEF Inv
  <1> QED  BY <1>1, AlwaysInv, PTL

\* An error code is lost once at most, to the call that has built the logger
\* (Logging.cpp:49-54, 90-91).
THEOREM CodeLostOnce == Spec => []ErrnoLostOnce
  <1>1. Inv => ErrnoLostOnce
    BY DEF Inv
  <1> QED  BY <1>1, AlwaysInv, PTL

=============================================================================
