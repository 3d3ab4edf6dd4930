-------------------------- MODULE SpdlogParts_proofs --------------------------
(***************************************************************************)
(* What the parts of spdlog keep, they keep side by side: the invariants of *)
(* SpdlogParts, for every value of the constants.  The proofs about each   *)
(* part are in SpdlogSinks_proofs and RotatingFileSink_proofs, of which J   *)
(* and K are the instances with the variables of SpdlogParts; an invariant *)
(* of a part is one of the states of that part, and other parts leave it   *)
(* alone.                                                                  *)
(***************************************************************************)
EXTENDS SpdlogParts, TLAPS

J == INSTANCE SpdlogSinks_proofs WITH
  Pieces <- LinePieces, Names <- LoggerNames, Levels <- LoggerLevels,
  Records <- TextRecords,
  pc <- v1, kind <- v2, rec <- v3, thrown <- v4, windows <- v2, lines <- v3,
  buffer <- v4,
  addr <- v5, socket <- v6, open <- v7, conns <- v8, sent <- v9, logged <- v10,
  winsock <- v11, starts <- v12,
  mutex <- v1, job <- v5, todo <- v6, screen <- v7, colour <- v8, saved <- v9,
  doColours <- v10,
  rest <- v5, end <- v6, file <- v7, drained <- v8,
  objs <- v2, loggers <- v3, default <- v4, conf <- v5, globalLevel <- v6,
  logLevels <- v7, automatic <- v8, tp <- v9, pools <- v10, tpMutex <- v11,
  flusherMutex <- v12, flusher <- v13, workers <- v14, seen <- v15, calls <- v16,
  kept <- v17, released <- v18, named <- v19,
  life <- v5, fds <- v6, handle <- v7, tries <- v8, line <- v9, stored <- v10,
  torn <- v11, queue <- v12, blocks <- v13, returned <- v14
K == INSTANCE RotatingFileSink_proofs WITH
  Bytes <- RecordSizes, disk <- v1, buffer <- v2, opened <- v3,
  currentSize <- v4, maxSize <- v5, maxFiles <- v6, pc <- v7, i <- v8,
  rec <- v9, logged <- v10, gone <- v11, least <- v12, runs <- v13, faults <- v14

-----------------------------------------------------------------------------
(* The network sinks.                                                      *)

NetPart == part = "net" => J!NetInv

LEMMA NetSame ==
  /\ N!NetAssumption => J!N!NetAssumption
  /\ N!Init => J!N!Init
  /\ [N!Next]_N!vars => [J!N!Next]_J!N!vars
  /\ J!N!NetRecordsWhole => N!NetRecordsWhole
<1>1. N!NetAssumption => J!N!NetAssumption
  BY DEF N!NetAssumption, J!N!NetAssumption
<1>2. N!Init => J!N!Init
  BY DEF N!Init, J!N!Init
<1>3. UNCHANGED N!vars => UNCHANGED J!N!vars
  BY DEF N!vars, N!sockVars, N!callVars, J!N!vars, J!N!sockVars, J!N!callVars
<1>4. N!Next => J!N!Next
  BY DEF N!Next, N!TcpStart, N!UdpStart, N!UdpStartWindows, N!Destroy, N!SinkIt,
       N!ResolveFails, N!ConnectSocket, N!ConnectFails, N!Send, N!SendFails, N!SendTo,
       N!SendToFails, N!UdpSocket, N!Connected, N!NextAddress, N!Throw, N!Return,
       N!CleanUp, N!StartWinsock, N!sockVars, N!callVars,
       J!N!Next, J!N!TcpStart, J!N!UdpStart, J!N!UdpStartWindows, J!N!Destroy, J!N!SinkIt,
       J!N!ResolveFails, J!N!ConnectSocket, J!N!ConnectFails, J!N!Send, J!N!SendFails, J!N!SendTo,
       J!N!SendToFails, J!N!UdpSocket, J!N!Connected, J!N!NextAddress, J!N!Throw, J!N!Return,
       J!N!CleanUp, J!N!StartWinsock, J!N!sockVars, J!N!callVars
<1>5. J!N!NetRecordsWhole => N!NetRecordsWhole
  BY DEF N!NetRecordsWhole, N!TypeOK, N!WholeRecords, N!Follows, N!ReturnedWhole,
       N!OneSocket, N!WinsockPaired, J!N!NetRecordsWhole, J!N!TypeOK, J!N!WholeRecords,
       J!N!Follows, J!N!ReturnedWhole, J!N!OneSocket, J!N!WinsockPaired
<1>6. QED
  BY <1>1, <1>2, <1>3, <1>4, <1>5

\* What a part does, and what a step of another part leaves alone.
LEMMA PartSteps ==
  ASSUME [Next]_allVars
  PROVE  /\ part' = part
         /\ part = "net" => [N!Next]_N!vars
         /\ part = "rotating" => [R!Next]_R!vars
         /\ part = "console" => [C!Next]_C!vars
         /\ part = "shared" => [S!Next]_S!vars
         /\ part = "registry" => [G!Next]_G!vars
         /\ part = "services" => [A!Next]_A!vars
<1>1. CASE UNCHANGED allVars
  BY <1>1 DEF allVars, Rest9, Rest11, Rest13, Rest15, Rest19,
       N!vars, N!sockVars, N!callVars, R!vars, R!fileVars, R!setVars, R!rotateVars,
       C!vars, S!vars, G!vars, G!mapVars, G!settingVars, G!poolVars, G!flusherVars, G!userVars,
       A!vars, A!lifeVars, A!callVars, A!storeVars
<1>2. CASE Next
  BY <1>2 DEF Next, Rest9, Rest11, Rest13, Rest15, Rest19
<1>3. QED
  BY <1>1, <1>2

\* Beside all the others, the network sinks keep their records whole
\* (NetKeepsRecordsWhole).
THEOREM NetPartKept == Spec => []NetRecordsWhole
<1>1. J!N!NetAssumption
  BY PartsAssumption, NetSame
<1>2. Init => NetPart
  BY <1>1, NetSame, J!NetInitInv DEF Init, NetPart
<1>3. NetPart /\ [Next]_allVars => NetPart'
  BY <1>1, NetSame, PartSteps, J!NetStep DEF NetPart
<1>4. NetPart => NetRecordsWhole
  BY NetSame DEF NetPart, NetRecordsWhole, J!NetInv
<1>5. QED
  BY <1>2, <1>3, <1>4, PTL DEF Spec

-----------------------------------------------------------------------------
(* The rotating files.                                                     *)

RotatingPart == part = "rotating" => K!RotatingInv

LEMMA RotatingSame ==
  /\ R!RotatingAssumption => K!RotatingAssumption
  /\ R!Init => K!Init
  /\ [R!Next]_R!vars => [K!Next]_K!vars
  /\ K!RotatingFilesKept => R!RotatingFilesKept
<1>1. R!RotatingAssumption => K!RotatingAssumption
  BY DEF R!RotatingAssumption, K!RotatingAssumption
<1>2. R!Init => K!Init
  BY DEF R!Init, K!Init, R!Top, K!Top, R!Largest, K!Largest
<1>3. UNCHANGED R!vars => UNCHANGED K!vars
  BY DEF R!vars, R!fileVars, R!setVars, R!rotateVars, K!vars, K!fileVars, K!setVars, K!rotateVars
<1>4. R!Next => K!Next
  BY DEF R!Next, K!Next, R!Start, R!Set, R!Kill, R!Flush, R!SinkItFits, R!SinkItTooLarge, R!SinkItThrows, R!RotateNow, R!Skip, R!RemoveTarget, R!Rename, R!RenameFails, R!Reopen, R!ReopenGivingUp, R!ReopenFails, R!Write, R!BeginRotate, R!Rotating, R!Throw, R!Fault, R!With, R!Without, R!FileOrNone, R!Records, R!Constructing, R!SizeOf, R!Range, R!FoldLeft, R!MapThenFoldSet, R!Max, R!fileVars, R!setVars, R!rotateVars, K!Start, K!Set, K!Kill, K!Flush, K!SinkItFits, K!SinkItTooLarge, K!SinkItThrows, K!RotateNow, K!Skip, K!RemoveTarget, K!Rename, K!RenameFails, K!Reopen, K!ReopenGivingUp, K!ReopenFails, K!Write, K!BeginRotate, K!Rotating, K!Throw, K!Fault, K!With, K!Without, K!FileOrNone, K!Records, K!Constructing, K!SizeOf, K!Range, K!FoldLeft, K!MapThenFoldSet, K!Max, K!fileVars, K!setVars, K!rotateVars
<1>5. K!RotatingFilesKept => R!RotatingFilesKept
  BY DEF R!RotatingFilesKept, R!TypeOK, R!OldestFirst, R!OnlyOldestGo, R!Whole, R!FileOrNone,
       R!Records, R!Top, R!Constructing, R!Range,
       K!RotatingFilesKept, K!TypeOK, K!OldestFirst, K!OnlyOldestGo, K!Whole, K!FileOrNone,
       K!Records, K!Top, K!Constructing, K!Range
<1>6. QED
  BY <1>1, <1>2, <1>3, <1>4, <1>5

\* Beside all the others, rotations keep the files in order and forget the
\* oldest records alone (RotationsKeepFiles).
THEOREM RotatingPartKept == Spec => []RotatingFilesKept
<1>1. K!RotatingAssumption
  BY PartsAssumption, RotatingSame
<1>2. Init => RotatingPart
  BY <1>1, RotatingSame, K!InitInv DEF Init, RotatingPart
<1>3. RotatingPart /\ [Next]_allVars => RotatingPart'
  BY <1>1, RotatingSame, PartSteps, K!RotatingStep DEF RotatingPart
<1>4. RotatingPart => RotatingFilesKept
  BY RotatingSame DEF RotatingPart, RotatingFilesKept, K!RotatingInv, K!RotatingFilesKept
<1>5. QED
  BY <1>2, <1>3, <1>4, PTL DEF Spec

-----------------------------------------------------------------------------
(* The console sinks and the shared file.                                  *)

ConsolePart == part = "console" => J!ConsoleInv

LEMMA ConsoleSame ==
  /\ C!ConsoleAssumption => J!C!ConsoleAssumption
  /\ C!Init => J!C!Init
  /\ [C!Next]_C!vars => [J!C!Next]_J!C!vars
  /\ J!C!LinesWhole /\ J!C!OnlyRangeColoured => C!LinesWhole /\ C!OnlyRangeColoured
<1>1. C!ConsoleAssumption => J!C!ConsoleAssumption
  BY DEF C!ConsoleAssumption, C!Sinks, J!C!ConsoleAssumption, J!C!Sinks
<1>2. C!Init => J!C!Init
  BY DEF C!Init, C!Sinks, C!Streams, J!C!Init, J!C!Sinks, J!C!Streams
<1>3. UNCHANGED C!vars => UNCHANGED J!C!vars
  BY DEF C!vars, J!C!vars
<1>4. C!Next => J!C!Next
  BY DEF
    C!Sinks, C!Streams, C!Text, C!Change, C!IsText, C!Pieces, C!Log, C!ToTerminal, C!PrintRange,
    C!PrintConsole, C!Spill, C!Flush, C!SetColourMode, C!Next, J!C!Sinks, J!C!Streams, J!C!Text,
    J!C!Change, J!C!IsText, J!C!Pieces, J!C!Log, J!C!ToTerminal, J!C!PrintRange,
    J!C!PrintConsole, J!C!Spill, J!C!Flush, J!C!SetColourMode, J!C!Next
<1>5. J!C!LinesWhole /\ J!C!OnlyRangeColoured => C!LinesWhole /\ C!OnlyRangeColoured
  BY DEF C!LinesWhole, C!OnlyRangeColoured, J!C!LinesWhole, J!C!OnlyRangeColoured
<1>6. QED
  BY <1>1, <1>2, <1>3, <1>4, <1>5

SharedPart == part = "shared" => J!SharedInv

LEMMA SharedSame ==
  /\ S!SharedFileAssumption => J!S!SharedFileAssumption
  /\ S!Init => J!S!Init
  /\ [S!Next]_S!vars => [J!S!Next]_J!S!vars
  /\ J!S!NothingOverwritten /\ J!S!CutAtBufferEnds
     => S!NothingOverwritten /\ S!CutAtBufferEnds
<1>1. S!SharedFileAssumption => J!S!SharedFileAssumption
  BY DEF S!SharedFileAssumption, J!S!SharedFileAssumption
<1>2. S!Init => J!S!Init
  BY DEF S!Init, J!S!Init
<1>3. UNCHANGED S!vars => UNCHANGED J!S!vars
  BY DEF S!vars, J!S!vars
<1>4. S!Next => J!S!Next
  BY DEF
    S!Open, S!Write, S!Fill, S!LastWritten, S!WriteOut, S!PutAt, S!Drain, S!Close, S!Kill,
    S!Next, J!S!Open, J!S!Write, J!S!Fill, J!S!LastWritten, J!S!WriteOut, J!S!PutAt, J!S!Drain,
    J!S!Close, J!S!Kill, J!S!Next
<1>5. J!S!NothingOverwritten /\ J!S!CutAtBufferEnds
      => S!NothingOverwritten /\ S!CutAtBufferEnds
  BY DEF S!NothingOverwritten, S!CutAtBufferEnds, J!S!NothingOverwritten, J!S!CutAtBufferEnds
<1>6. QED
  BY <1>1, <1>2, <1>3, <1>4, <1>5

\* Beside all the others, lines do not mix on the terminal, nor are they cut or
\* overwritten in the file that processes share (ConsoleKeepsLines,
\* SharedFileKept).
THEOREM LinesPartKept == Spec => []LinesWhole
<1>1. J!C!ConsoleAssumption /\ J!S!SharedFileAssumption
  BY PartsAssumption, ConsoleSame, SharedSame
<1>2. Init => ConsolePart /\ SharedPart
  BY <1>1, ConsoleSame, SharedSame, J!ConsoleInitInv, J!SharedInitInv
    DEF Init, ConsolePart, SharedPart
<1>3. ConsolePart /\ [Next]_allVars => ConsolePart'
  BY <1>1, ConsoleSame, PartSteps, J!ConsoleStep DEF ConsolePart
<1>4. SharedPart /\ [Next]_allVars => SharedPart'
  BY <1>1, SharedSame, PartSteps, J!SharedStep DEF SharedPart
<1>5. ConsolePart /\ SharedPart => LinesWhole
  BY ConsoleSame, SharedSame, J!ConsoleGives, J!SharedCuts DEF ConsolePart, SharedPart, LinesWhole
<1>6. QED
  BY <1>2, <1>3, <1>4, <1>5, PTL DEF Spec

-----------------------------------------------------------------------------
(* The registry.                                                           *)

RegistryPart == part = "registry" => J!RegistryInv

LEMMA RegistrySame ==
  /\ G!RegistryAssumption => J!G!RegistryAssumption
  /\ G!Init => J!G!Init
  /\ [G!Next]_G!vars => [J!G!Next]_J!G!vars
  /\ J!G!Configured /\ J!G!DefaultListed /\ J!G!OnePool /\ J!G!OneFlusher /\ J!G!CallsGoOn
     => G!Configured /\ G!DefaultListed /\ G!OnePool /\ G!OneFlusher /\ G!CallsGoOn
<1>1. G!RegistryAssumption => J!G!RegistryAssumption
  BY DEF G!RegistryAssumption, J!G!RegistryAssumption
<1>2. G!Init => J!G!Init
  BY DEF G!Init, G!Logger, J!G!Init, J!G!Logger
<1>3. UNCHANGED G!vars => UNCHANGED J!G!vars
  BY DEF
    G!mapVars, G!settingVars, G!poolVars, G!flusherVars, G!userVars, G!vars, J!G!mapVars,
    J!G!settingVars, J!G!poolVars, J!G!flusherVars, J!G!userVars, J!G!vars
<1>4. G!Next => J!G!Next
  BY DEF
    G!mapVars, G!settingVars, G!poolVars, G!flusherVars, G!userVars, G!Logger, G!Begin, G!Goto,
    G!MapCall, G!With, G!Without, G!SetMap, G!LevelOf, G!Initialize, G!CreateSync,
    G!CreateAsync, G!CreatePool, G!CreateLogger, G!RegisterLogger, G!RegisterOrReplace,
    G!SetDefaultLogger, G!Drop, G!DropAll, G!ForAll, G!SetConf, G!SetLevel, G!SetLevels,
    G!SetAutomaticRegistration, G!Due, G!MayFlush, G!FlushAll, G!MayEnd, G!End,
    G!ReplaceFlusher, G!FlushEvery, G!Stopping, G!MayStop, G!MayJoin, G!StopWorker,
    G!JoinWorker, G!InitThreadPool, G!Shutdown, G!ShutdownLoggers, G!MayReset, G!ShutdownPool,
    G!LevelMaps, G!UserCall, G!UserStep, G!WorkerStep, G!Next, G!Range, J!G!mapVars,
    J!G!settingVars, J!G!poolVars, J!G!flusherVars, J!G!userVars, J!G!Logger, J!G!Begin,
    J!G!Goto, J!G!MapCall, J!G!With, J!G!Without, J!G!SetMap, J!G!LevelOf, J!G!Initialize,
    J!G!CreateSync, J!G!CreateAsync, J!G!CreatePool, J!G!CreateLogger, J!G!RegisterLogger,
    J!G!RegisterOrReplace, J!G!SetDefaultLogger, J!G!Drop, J!G!DropAll, J!G!ForAll, J!G!SetConf,
    J!G!SetLevel, J!G!SetLevels, J!G!SetAutomaticRegistration, J!G!Due, J!G!MayFlush,
    J!G!FlushAll, J!G!MayEnd, J!G!End, J!G!ReplaceFlusher, J!G!FlushEvery, J!G!Stopping,
    J!G!MayStop, J!G!MayJoin, J!G!StopWorker, J!G!JoinWorker, J!G!InitThreadPool, J!G!Shutdown,
    J!G!ShutdownLoggers, J!G!MayReset, J!G!ShutdownPool, J!G!LevelMaps, J!G!UserCall,
    J!G!UserStep, J!G!WorkerStep, J!G!Next, J!G!Range
<1>5. J!G!Configured /\ J!G!DefaultListed /\ J!G!OnePool /\ J!G!OneFlusher /\ J!G!CallsGoOn
      => G!Configured /\ G!DefaultListed /\ G!OnePool /\ G!OneFlusher /\ G!CallsGoOn
  BY DEF
    G!Configured, G!DefaultListed, G!OnePool, G!OneFlusher, G!MayGoOn, G!CallsGoOn, G!Stopping,
    G!MayFlush, G!MayEnd, G!MayStop, G!MayJoin, G!MayReset, J!G!Configured, J!G!DefaultListed,
    J!G!OnePool, J!G!OneFlusher, J!G!MayGoOn, J!G!CallsGoOn, J!G!Stopping, J!G!MayFlush,
    J!G!MayEnd, J!G!MayStop, J!G!MayJoin, J!G!MayReset
<1>6. QED
  BY <1>1, <1>2, <1>3, <1>4, <1>5

\* Beside all the others, the registry keeps its loggers as it is set, one pool
\* and one flusher, and its calls go on (RegistryKept).
THEOREM RegistryPartKept == Spec => []RegistryConsistent
<1>1. J!G!RegistryAssumption
  BY PartsAssumption, RegistrySame
<1>2. Init => RegistryPart
  BY <1>1, RegistrySame, J!RegistryInitInv DEF Init, RegistryPart
<1>3. RegistryPart /\ [Next]_allVars => RegistryPart'
  BY <1>1, RegistrySame, PartSteps, J!RegistryStep DEF RegistryPart
<1>4. RegistryPart => RegistryConsistent
  BY <1>1, RegistrySame, J!RegistryGives DEF RegistryPart, RegistryConsistent
<1>5. QED
  BY <1>2, <1>3, <1>4, PTL DEF Spec

-----------------------------------------------------------------------------
(* The sinks of system services.                                           *)

ServicePart == part = "services" => J!ServiceInv

LEMMA ServiceSame ==
  /\ A!SystemSinksAssumption => J!A!SystemSinksAssumption
  /\ A!Init => J!A!Init
  /\ [A!Next]_A!vars => [J!A!Next]_J!A!vars
  /\ J!A!Bounded /\ J!A!NoneLostSilently /\ J!A!EachLineOnce /\ J!A!LastLinesShown
     => A!Bounded /\ A!NoneLostSilently /\ A!EachLineOnce /\ A!LastLinesShown
<1>1. A!SystemSinksAssumption => J!A!SystemSinksAssumption
  BY DEF A!SystemSinksAssumption, J!A!SystemSinksAssumption
<1>2. A!Init => J!A!Init
  BY DEF A!Init, J!A!Init
<1>3. UNCHANGED A!vars => UNCHANGED J!A!vars
  BY DEF
    A!lifeVars, A!callVars, A!storeVars, A!vars, J!A!lifeVars, J!A!callVars, J!A!storeVars,
    J!A!vars
<1>4. A!Next => J!A!Next
  BY DEF
    A!lifeVars, A!callVars, A!storeVars, A!Construct, A!ConstructFails, A!Destroy, A!Log,
    A!Return, A!Throw, A!Store, A!AndroidLog, A!JournalSend, A!Syslog, A!Request, A!ReportEvent,
    A!Produce, A!Deliver, A!Lines, A!LastLine, A!WriteFails, A!WritePrefix, A!EndLine,
    A!WriteText, A!WriteNewline, A!Shown, A!Invoke, A!GuiInvokes, A!Next, J!A!lifeVars,
    J!A!callVars, J!A!storeVars, J!A!Construct, J!A!ConstructFails, J!A!Destroy, J!A!Log,
    J!A!Return, J!A!Throw, J!A!Store, J!A!AndroidLog, J!A!JournalSend, J!A!Syslog, J!A!Request,
    J!A!ReportEvent, J!A!Produce, J!A!Deliver, J!A!Lines, J!A!LastLine, J!A!WriteFails,
    J!A!WritePrefix, J!A!EndLine, J!A!WriteText, J!A!WriteNewline, J!A!Shown, J!A!Invoke,
    J!A!GuiInvokes, J!A!Next
<1>5. J!A!Bounded /\ J!A!NoneLostSilently /\ J!A!EachLineOnce /\ J!A!LastLinesShown
      => A!Bounded /\ A!NoneLostSilently /\ A!EachLineOnce /\ A!LastLinesShown
  BY DEF
    A!Bounded, A!NoneLostSilently, A!Begun, A!Written, A!Before, A!EachLineOnce,
    A!LastLinesShown, A!Contains, A!IsInjective, J!A!Bounded, J!A!NoneLostSilently, J!A!Begun,
    J!A!Written, J!A!Before, J!A!EachLineOnce, J!A!LastLinesShown, J!A!Contains, J!A!IsInjective
<1>6. QED
  BY <1>1, <1>2, <1>3, <1>4, <1>5

\* Beside all the others, no record of a call that returned is lost by a service
\* that keeps records, and lines are whole and in order (ServicesKeepRecords).
THEOREM ServicesPartKept == Spec => []ServicesServed
<1>1. J!A!SystemSinksAssumption
  BY PartsAssumption, ServiceSame
<1>2. Init => ServicePart
  BY <1>1, ServiceSame, J!ServiceInitInv DEF Init, ServicePart
<1>3. ServicePart /\ [Next]_allVars => ServicePart'
  BY <1>1, ServiceSame, PartSteps, J!ServiceStep DEF ServicePart
<1>4. ServicePart => ServicesServed
  BY <1>1, ServiceSame, J!ServiceGives DEF ServicePart, ServicesServed
<1>5. QED
  BY <1>2, <1>3, <1>4, PTL DEF Spec

=============================================================================
