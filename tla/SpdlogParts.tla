----------------------------- MODULE SpdlogParts -----------------------------
(***************************************************************************)
(* The parts of spdlog that are proved about and share nothing: the        *)
(* rotating files, the network sinks, the console sinks, a log file that   *)
(* processes share, the registry and the sinks of system services.  The    *)
(* initial state chooses the part a behaviour is about; v1 to v19 are its  *)
(* variables, and the rest stay 0.  What several parts have, where it is   *)
(* and what it is at, is in the first of them.                             *)
(***************************************************************************)
EXTENDS Integers, Sequences

CONSTANTS
  RecordSizes, Sizes, Counts, MaxRuns, MaxFaults,             \* RotatingFileSink
  NetKinds, Addresses, Bytes, MaxRecs, MaxConns, MaxStarts,   \* NetSinks
  Threads, NoThread, Stream, Coloured, MaxLines,              \* ConsoleSinks
  Processes, LinePieces, Capacity, ProcessLines,              \* SharedLogFile
  LoggerNames, LoggerLevels, MaxCalls,                        \* Registry
  ServiceKinds, TextRecords, Retries, WidgetLines, QueueMax   \* SystemSinks

VARIABLES
  part, v1, v2, v3, v4, v5, v6, v7, v8, v9, v10, v11, v12, v13, v14, v15, v16,
  v17, v18, v19

R == INSTANCE RotatingFileSink WITH
  Bytes <- RecordSizes, disk <- v1, buffer <- v2, opened <- v3,
  currentSize <- v4, maxSize <- v5, maxFiles <- v6, pc <- v7, i <- v8,
  rec <- v9, logged <- v10, gone <- v11, least <- v12, runs <- v13, faults <- v14
N == INSTANCE NetSinks WITH
  Kinds <- NetKinds, pc <- v1, kind <- v2, rec <- v3, thrown <- v4, addr <- v5,
  socket <- v6, open <- v7, conns <- v8, sent <- v9, logged <- v10,
  winsock <- v11, starts <- v12
C == INSTANCE ConsoleSinks WITH
  mutex <- v1, windows <- v2, lines <- v3, buffer <- v4, job <- v5, todo <- v6,
  screen <- v7, colour <- v8, saved <- v9, doColours <- v10
S == INSTANCE SharedLogFile WITH
  Pieces <- LinePieces, MaxLines <- ProcessLines, pc <- v1, windows <- v2,
  lines <- v3, buffer <- v4, rest <- v5, end <- v6, file <- v7, drained <- v8
G == INSTANCE Registry WITH
  Users <- Threads, NoUser <- NoThread, Names <- LoggerNames, Levels <- LoggerLevels,
  pc <- v1, objs <- v2, loggers <- v3, default <- v4, conf <- v5, globalLevel <- v6,
  logLevels <- v7, automatic <- v8, tp <- v9, pools <- v10, tpMutex <- v11, flusherMutex <- v12,
  flusher <- v13, workers <- v14, seen <- v15, calls <- v16, kept <- v17,
  released <- v18, named <- v19
A == INSTANCE SystemSinks WITH
  Kinds <- ServiceKinds, Records <- TextRecords, MaxLines <- WidgetLines,
  pc <- v1, kind <- v2, rec <- v3, thrown <- v4, life <- v5, fds <- v6, handle <- v7, tries <- v8,
  line <- v9, stored <- v10, torn <- v11, queue <- v12, blocks <- v13,
  returned <- v14

ASSUME PartsAssumption ==
  /\ R!RotatingAssumption /\ N!NetAssumption /\ C!ConsoleAssumption
  /\ S!SharedFileAssumption /\ G!RegistryAssumption /\ A!SystemSinksAssumption

-----------------------------------------------------------------------------

Idle19 == v19 = 0
Idle15 == v15 = 0 /\ v16 = 0 /\ v17 = 0 /\ v18 = 0 /\ Idle19
Idle13 == v13 = 0 /\ v14 = 0 /\ Idle15
Idle11 == v11 = 0 /\ v12 = 0 /\ Idle13
Idle9 == v9 = 0 /\ v10 = 0 /\ Idle11

Init ==
  \/ part = "rotating" /\ R!Init /\ Idle15
  \/ part = "net" /\ N!Init /\ Idle13
  \/ part = "console" /\ C!Init /\ Idle11
  \/ part = "shared" /\ S!Init /\ Idle9
  \/ part = "registry" /\ G!Init
  \/ part = "services" /\ A!Init /\ Idle15

Rest19 == <<part, v19>>
Rest15 == <<v15, v16, v17, v18, Rest19>>
Rest13 == <<v13, v14, Rest15>>
Rest11 == <<v11, v12, Rest13>>
Rest9 == <<v9, v10, Rest11>>

Next ==
  \/ part = "rotating" /\ R!Next /\ UNCHANGED Rest15
  \/ part = "net" /\ N!Next /\ UNCHANGED Rest13
  \/ part = "console" /\ C!Next /\ UNCHANGED Rest11
  \/ part = "shared" /\ S!Next /\ UNCHANGED Rest9
  \/ part = "registry" /\ G!Next /\ UNCHANGED part
  \/ part = "services" /\ A!Next /\ UNCHANGED Rest15

allVars == <<v1, v2, v3, v4, v5, v6, v7, v8, Rest9>>
Spec == Init /\ [][Next]_allVars

-----------------------------------------------------------------------------
(* Properties: those of the parts, each for the states of its part.        *)

\* A higher file number means older records, and a rotation, interrupted or not,
\* forgets the oldest file and nothing else (rotating_file_sink-inl.h:108-182).
RotatingFilesKept == part = "rotating" => R!RotatingFilesKept

\* Nothing is sent behind half a record, a call that returned has sent its
\* record whole on one connection, the client forgets no open socket, and
\* WSAStartup and WSACleanup come in pairs (tcp_client-windows.h:26-213,
\* tcp_sink.h:66-73).
NetRecordsWhole == part = "net" => N!NetRecordsWhole

\* Lines do not mix on the terminal, and of each line only the range its pattern
\* names is coloured (ansicolor_sink-inl.h:46-72).  On POSIX processes that append
\* to one file lose nothing of each other's, and a line is cut only where a full
\* buffer has ended (Logging.cpp:58).
LinesWhole ==
  /\ part = "console" => C!LinesWhole /\ C!OnlyRangeColoured
  /\ part = "shared" => S!NothingOverwritten /\ S!CutAtBufferEnds

\* A logger in the map is set as the registry says, the default logger's name
\* is in the map, there is one pool and one flusher thread at most, and no call
\* of the registry waits for ever (registry-inl.h:62-216, async.h:40-52).
RegistryConsistent ==
  part = "registry" =>
    G!Configured /\ G!DefaultListed /\ G!OnePool /\ G!OneFlusher /\ G!CallsGoOn

\* A record whose call returned is with the service that keeps records, once;
\* lines of the journal and of a widget are whole and in order; and attempts and
\* descriptors are limited (android_sink.h:46-73, systemd_namespace_sink.h:35-135,
\* qt_sinks.h:190-226, win_eventlog_sink.h:177-215).
ServicesServed ==
  part = "services" =>
    A!Bounded /\ A!NoneLostSilently /\ A!EachLineOnce /\ A!LastLinesShown

=============================================================================
