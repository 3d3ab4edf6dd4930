------------------------------ MODULE Logging -------------------------------
(***************************************************************************)
(* The logging functions of dong_dong (Logging.cpp), called by any number  *)
(* of threads, with the parts of Platform.h and spdlog they run through:   *)
(* lastError, errorString, logger::log_ and logger::sink_it_.              *)
(*                                                                         *)
(* A call is the sequence of its thread's steps; steps of other threads    *)
(* come between any two.  Each sink holds a mutex of its own while it      *)
(* formats and writes one record and calls nobody else meanwhile, so a     *)
(* write to a sink is one step.                                            *)
(*                                                                         *)
(* A record is identified by its thread and the number of the call;        *)
(* number 0 is the line "logger initialized".                              *)
(***************************************************************************)
EXTENDS Naturals, Sequences

CONSTANTS
  Threads,
  Codes,      \* the error codes a failed socket operation may leave
  MaxCalls,   \* bound: the number of calls each thread makes
  Windows,    \* TRUE: errorString fills its static buffer
  InitFirst,  \* TRUE: one initLogger() returns before anything else is
              \* called, as in the mains of step02 and step03
  None,       \* no code, no thread
  Stray,      \* an error code left by the file system calls of initLogger
  Mixed       \* errorString's buffer while it is being written

ASSUME LoggingAssumption ==
  /\ MaxCalls \in [Threads -> Nat]
  /\ Windows \in BOOLEAN
  /\ InitFirst \in BOOLEAN
  /\ {None, Stray, Mixed} \cap Codes = {}
  /\ None \notin Threads
  /\ Stray # Mixed /\ Stray # None /\ Mixed # None

VARIABLES
  alive,     \* FALSE: an exception nothing catches has ended the process
  ready,     \* some call of initLogger has returned
  gMutex,    \* the thread that holds g_mutex, or None
  gLogger,   \* g_logger is set
  default,   \* it is also spdlog's default logger
  strbuf,    \* the static buffer of errorString
  pc,        \* where each thread is
  kind,      \* what it has called: "init", "info" or "error"
  errno,     \* its errno (WSAGetLastError)
  rec,       \* the record it is about to write
  calls,     \* number of calls it has begun
  console,   \* the records each sink has written
  file

loggerVars == <<alive, ready, gMutex, gLogger, default, strbuf>>
threadVars == <<pc, kind, errno, rec, calls>>
sinkVars == <<console, file>>
vars == <<loggerVars, threadVars, sinkVars>>

Pcs == {"idle", "lock", "check", "create", "publish", "setDefault",
        "bannerConsole", "bannerFile", "unlock", "lastError", "fill", "filled",
        "format", "console", "file"}

\* code: what the failed operation left; err, text: what the record says.
Record == [by : Threads, n : Nat, code : Codes \cup {None},
           err : Codes \cup {None, Stray}, text : Codes \cup {None, Stray, Mixed}]

Banner(t) == [by |-> t, n |-> 0, code |-> None, err |-> None, text |-> None]

\* Every variable has its type; no sink writes more than one record for each
\* call and the line of initLogger.
TypeOK ==
  /\ {alive, ready, gLogger, default} \subseteq BOOLEAN
  /\ gMutex \in Threads \cup {None}
  /\ strbuf \in Codes \cup {None, Stray, Mixed}
  /\ pc \in [Threads -> Pcs]
  /\ kind \in [Threads -> {"init", "info", "error"}]
  /\ errno \in [Threads -> Codes \cup {None, Stray}]
  /\ rec \in [Threads -> Record]
  /\ calls \in [Threads -> Nat]
  /\ console \in Seq(Record)
  /\ file \in Seq(Record)

Init ==
  /\ alive = TRUE
  /\ ready = FALSE
  /\ gMutex = None
  /\ gLogger = FALSE
  /\ default = FALSE
  /\ strbuf = None
  /\ pc = [t \in Threads |-> "idle"]
  /\ kind = [t \in Threads |-> "init"]
  /\ errno = [t \in Threads |-> None]
  /\ rec = [t \in Threads |-> Banner(t)]
  /\ calls = [t \in Threads |-> 0]
  /\ console = <<>>
  /\ file = <<>>

Goto(t, from, to) ==
  /\ alive
  /\ pc[t] = from
  /\ pc' = [pc EXCEPT ![t] = to]

-----------------------------------------------------------------------------
(* The calls.                                                              *)

Begin(t, k) ==
  /\ Goto(t, "idle", "lock")
  /\ calls[t] < MaxCalls[t]
  /\ calls' = [calls EXCEPT ![t] = @ + 1]
  /\ kind' = [kind EXCEPT ![t] = k]
  /\ UNCHANGED <<loggerVars, sinkVars>>

\* initLogger(), called as such.  With InitFirst it is the first thing of all.
CallInit(t) ==
  /\ Begin(t, "init")
  /\ InitFirst => \A u \in Threads : calls[u] = 0
  /\ UNCHANGED <<errno, rec>>

\* logInfo, logWarning or logError
CallLog(t) ==
  /\ InitFirst => ready
  /\ Begin(t, "info")
  /\ rec' = [rec EXCEPT ![t] = [Banner(t) EXCEPT !.n = calls[t] + 1]]
  /\ UNCHANGED errno

\* A socket operation of the thread fails with e, and it calls logSocketError.
CallSocketError(t, e) ==
  /\ InitFirst => ready
  /\ Begin(t, "error")
  /\ errno' = [errno EXCEPT ![t] = e]
  /\ rec' = [rec EXCEPT ![t] = [Banner(t) EXCEPT !.n = calls[t] + 1, !.code = e]]

-----------------------------------------------------------------------------
(* initLogger, the first thing of every call.                              *)

\* Mutant: no mutex.
LockMutexMissing(t) ==
  /\ Goto(t, "lock", "check")
  /\ gMutex' = t
  /\ UNCHANGED <<alive, ready, gLogger, default, strbuf>>
  /\ UNCHANGED <<kind, errno, rec, calls, sinkVars>>

LockMutex(t) ==
  /\ Goto(t, "lock", "check")
  /\ gMutex = None
  /\ gMutex' = t
  /\ UNCHANGED <<alive, ready, gLogger, default, strbuf>>
  /\ UNCHANGED <<kind, errno, rec, calls, sinkVars>>

\* Mutant: the log directory is looked for before g_logger is.
CheckLoggerLate(t) ==
  /\ Goto(t, "check", IF gLogger THEN "unlock" ELSE "create")
  /\ errno' = [errno EXCEPT ![t] = Stray]
  /\ UNCHANGED <<loggerVars, kind, rec, calls, sinkVars>>

\* if (g_logger) return
CheckLogger(t) ==
  /\ Goto(t, "check", IF gLogger THEN "unlock" ELSE "create")
  /\ UNCHANGED <<loggerVars, kind, errno, rec, calls, sinkVars>>

\* create_directories and the constructors of the sinks, which open the file.
\* Their system calls leave any error code behind; if they throw, nothing
\* catches it.
CreateSinks(t) ==
  /\ UNCHANGED <<ready, gLogger, default, strbuf, kind, rec, calls, sinkVars>>
  /\ \E e \in {errno[t], Stray} : errno' = [errno EXCEPT ![t] = e]
  /\ \/ Goto(t, "create", "publish") /\ UNCHANGED <<alive, gMutex>>
     \/ Goto(t, "create", "idle") /\ alive' = FALSE /\ gMutex' = None

\* g_logger = std::make_shared<spdlog::logger>(...)
PublishLogger(t) ==
  /\ Goto(t, "publish", "setDefault")
  /\ gLogger' = TRUE
  /\ UNCHANGED <<alive, ready, gMutex, default, strbuf>>
  /\ UNCHANGED <<kind, errno, rec, calls, sinkVars>>

\* spdlog::set_default_logger(g_logger)
SetDefault(t) ==
  /\ Goto(t, "setDefault", "bannerConsole")
  /\ default' = TRUE
  /\ UNCHANGED <<alive, ready, gMutex, gLogger, strbuf>>
  /\ UNCHANGED <<kind, errno, rec, calls, sinkVars>>

\* Mutant: the line is written with logInfo, which calls initLogger.
BannerByLogInfo(t) ==
  /\ Goto(t, "bannerConsole", "lock")
  /\ UNCHANGED <<loggerVars, kind, errno, rec, calls, sinkVars>>

\* SPDLOG_LOGGER_INFO(g_logger, "logger initialized, ..."), to both sinks
BannerConsole(t) ==
  /\ Goto(t, "bannerConsole", "bannerFile")
  /\ console' = Append(console, Banner(t))
  /\ UNCHANGED <<loggerVars, kind, errno, rec, calls, file>>

BannerFile(t) ==
  /\ Goto(t, "bannerFile", "unlock")
  /\ file' \in {Append(file, Banner(t)), file}
  /\ UNCHANGED <<loggerVars, kind, errno, rec, calls, console>>

\* The lock_guard goes out of scope, the caller goes on.
UnlockMutex(t) ==
  /\ Goto(t, "unlock", CASE kind[t] = "init" -> "idle"
                         [] kind[t] = "info" -> "format"
                         [] kind[t] = "error" -> "lastError")
  /\ gMutex' = None
  /\ ready' = TRUE
  /\ UNCHANGED <<alive, gLogger, default, strbuf>>
  /\ UNCHANGED <<kind, errno, rec, calls, sinkVars>>

-----------------------------------------------------------------------------
(* The rest of logSocketError and of the other calls.                      *)

\* int sysErr = lastError()
ReadLastError(t) ==
  /\ Goto(t, "lastError", IF Windows THEN "fill" ELSE "format")
  /\ rec' = [rec EXCEPT ![t].err = errno[t],
                        ![t].text = IF Windows THEN @ ELSE errno[t]]
  /\ UNCHANGED <<loggerVars, kind, errno, calls, sinkVars>>

\* FormatMessageA writes the static buffer, which takes its time.
FillBegins(t) ==
  /\ Goto(t, "fill", "filled")
  /\ strbuf' = Mixed
  /\ UNCHANGED <<alive, ready, gMutex, gLogger, default>>
  /\ UNCHANGED <<kind, errno, rec, calls, sinkVars>>

FillEnds(t) ==
  /\ Goto(t, "filled", "format")
  /\ strbuf' = rec[t].err
  /\ UNCHANGED <<alive, ready, gMutex, gLogger, default>>
  /\ UNCHANGED <<kind, errno, rec, calls, sinkVars>>

\* logger::log_ formats the message; the text of the error is read from where
\* errorString has put it.
Format(t) ==
  /\ Goto(t, "format", "console")
  /\ rec' = IF Windows /\ kind[t] = "error"
            THEN [rec EXCEPT ![t].text = strbuf] ELSE rec
  /\ UNCHANGED <<loggerVars, kind, errno, calls, sinkVars>>

\* Mutant: a write is repeated that had gone through.
WriteFileAgain(t) ==
  /\ Goto(t, "file", "idle")
  /\ file' \in {Append(file, rec[t]), Append(Append(file, rec[t]), rec[t])}
  /\ UNCHANGED <<loggerVars, kind, errno, rec, calls, console>>

\* logger::sink_it_: the console sink first, then the file sink.  A write to
\* the file that fails is caught there, and the record is lost.
WriteConsole(t) ==
  /\ Goto(t, "console", "file")
  /\ console' = Append(console, rec[t])
  /\ UNCHANGED <<loggerVars, kind, errno, rec, calls, file>>

WriteFile(t) ==
  /\ Goto(t, "file", "idle")
  /\ file' \in {Append(file, rec[t]), file}
  /\ UNCHANGED <<loggerVars, kind, errno, rec, calls, console>>

-----------------------------------------------------------------------------

Call(t) ==
  \/ CallInit(t) \/ CallLog(t)
  \/ \E e \in Codes : CallSocketError(t, e)

Step(t) ==
  \/ LockMutex(t) \/ CheckLogger(t) \/ CreateSinks(t) \/ PublishLogger(t)
  \/ SetDefault(t) \/ BannerConsole(t) \/ BannerFile(t) \/ UnlockMutex(t)
  \/ ReadLastError(t) \/ FillBegins(t) \/ FillEnds(t) \/ Format(t)
  \/ WriteConsole(t) \/ WriteFile(t)

\* The process has ended, or every thread has made all its calls.
Over ==
  /\ ~alive \/ \A t \in Threads : pc[t] = "idle" /\ calls[t] = MaxCalls[t]
  /\ UNCHANGED vars

Next == (\E t \in Threads : Call(t) \/ Step(t)) \/ Over

Spec == Init /\ [][Next]_vars

\* A thread in a call is scheduled; nobody has to call.
FairSpec == Spec /\ \A t \in Threads : WF_vars(Step(t))

-----------------------------------------------------------------------------

\* Whichever threads come first, together or not, one of them builds the
\* logger, and its line comes before every record (Logging.cpp:47-72).
BannerFirst ==
  /\ \A i \in 1 .. Len(console) : console[i].n = 0 <=> i = 1
  /\ \A i \in 1 .. Len(file) : file[i].n = 0 => i = 1

\* When initLogger returns, to the thread that built the logger or to another,
\* the logger is complete (Logging.cpp:48-51, 66-71).
ReadyMeansBuilt == ready => gLogger /\ default /\ console # <<>>

\* A directory or a file that cannot be made ends the process before anything
\* is logged and before any thread has come out of initLogger; afterwards
\* nothing in the facade can end it (Logging.cpp:54-62).
DiesBeforeLogging == ~alive => ~gLogger /\ ~ready /\ console = <<>> /\ file = <<>>

\* One logger is built before it is used, or the process ends before anything
\* is logged; and all is of its type (Logging.cpp:47-72).
BuiltBeforeUse == TypeOK /\ BannerFirst /\ ReadyMeansBuilt /\ DiesBeforeLogging

\* A thread's records are in each sink in the order of its calls, and none is
\* there twice (Logging.cpp:74-95).
PerThreadOrder ==
  \A s \in {console, file} : \A i, j \in 1 .. Len(s) :
    i < j /\ s[i].by = s[j].by => s[i].n < s[j].n

\* A thread that logs gets back from it: no lock is waited for forever, not
\* even by the thread that holds it (Logging.cpp:48, 71).
CallsReturn == \A t \in Threads : (pc[t] # "idle") ~> (pc[t] = "idle" \/ ~alive)

\* "底层系统错误码" (Logging.h:24): the code in the record is the one the failed
\* operation has left.  False if logSocketError is the first call of all: it
\* reads the code after initLogger has used the file system (Logging.cpp:90-91).
LostCode(r) == r.err # r.code

ErrnoKept == \A i \in 1 .. Len(console) : ~LostCode(console[i])

\* That can happen only once in the life of the process, to the call that has
\* built the logger (Logging.cpp:49-54, 90-91).
ErrnoLostOnce ==
  \A i, j \in 1 .. Len(console) :
    LostCode(console[i]) /\ LostCode(console[j]) => i = j

\* "sys_errno=10061: <描述>" (Logging.h:26): the text of an error is the text of
\* its code.  False on Windows, where all threads share errorString's buffer
\* (Platform.h:76).
TextOfCode == \A i \in 1 .. Len(console) : console[i].text = console[i].err

=============================================================================
