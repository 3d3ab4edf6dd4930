CONSTANTS
  t1 = t1
  t2 = t2
  Threads = {t1, t2}
  NoThread = NoThread
  NoFile = NoFile
  Moved = Moved
  RecordSizes <- FourRecords
  Sizes = {3}
  Counts = {1, 2}
  MaxRuns = 2
  MaxFaults = 2
  NetKinds <- AllNetKinds
  Addresses = {1, 2}
  Bytes = 2
  MaxRecs = 3
  MaxConns = 3
  MaxStarts = 2
  Stream <- TwoStreams
  Coloured = {1, 2}
  MaxLines = 3
  Processes = {1, 2}
  LinePieces = 2
  Capacity = 3
  ProcessLines = 2
  LoggerNames = {"", "a"}
  LoggerLevels = {0, 1}
  MaxCalls = 4
  ServiceKinds = {"android", "systemd", "namespace", "syslog", "eventlog", "kafka", "mongo", "loki", "qt", "qtcolor"}
  TextRecords <- ThreeTexts
  Retries = 2
  WidgetLines = 2
  QueueMax = 2
SPECIFICATION MCSpec
SYMMETRY Symmetry
INVARIANTS
  RotatingFilesKept
  FilesLimited
  FilterCounts
  NetRecordsWhole
  LinesWhole
  RegistryConsistent
  BacktraceDumped
  ServicesServed
  PatternsFollowed
  FormatStringsRead
  TextWritten
  NumbersExact
  CalendarShown
PROPERTY
  OnlyOldestDeleted
CHECK_DEADLOCK FALSE
