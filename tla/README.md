# A TLA+ verification of dong_dong

`dong_dong` is a network library under construction, written from bare
sockets up along the targets of `dong_dong_network_requires_v1.md`.  The
code of targets 01 to 03 exists: a platform layer, a logging layer over the
vendored spdlog, a blocking echo server with its client (target 02), and an echo
server with one detached thread per connection with a program of concurrent
clients (target 03).  Most of the repository is spdlog, and most of spdlog is the
formatting library fmt that it carries.

This directory holds TLA+ modules of the library's own code and of the vendored
code beneath it, the TLC configurations that check them, and TLAPS proofs about
the two servers, the logging facade, the thread pool of spdlog, its registry, and its
sinks for files, networks, terminals and system services.

Paths below are relative to `src/`; `server.cpp` without more is
`dong_dong/source/step03/server.cpp`, and files of spdlog and fmt are named
without their directory.

## 1. Inventory

| part | source | state it keeps | operations |
|---|---|---|---|
| threaded server | `step03/server.cpp` | listening descriptor; per connection a thread with its descriptor and a 1024-byte buffer | socket, bind, listen; accept loop; spawn and detach; recv/send loop; close |
| concurrent clients | `step03/clients.cpp` | the threads to join; a socket per thread | spawn, join; socket, connect, send, one recv, close |
| blocking server | `step02/server.cpp` | `listenFd_`, `connFd_`, a buffer | start, serve (one accept, recv/send loop), closeAll by destructor |
| blocking client | `step02/client.cpp` | `sockFd_` | connect, echo, closeAll by destructor |
| platform layer | `Platform.h`, `Platform.cpp` | Winsock started or not; the static buffer of `errorString` | SocketInitializer, lastError, errorString, closeSocket |
| logging facade | `Logging.cpp`, `Logging.h` | `g_mutex`, `g_logger` | initLogger, logInfo, logWarning, logError, logSocketError |
| spdlog, as used | `logger-inl.h`, `registry-inl.h`, `daily_file_sink.h`, `file_helper-inl.h` | default logger; per sink a mutex; open file, its day, next rotation, stdio buffer | log_, sink_it_; open, rotate, write, close |
| loggers and registry of spdlog | `logger-inl.h`, `backtracer-inl.h`, `registry-inl.h`, `periodic_worker-inl.h`, factories | sinks, backtrace ring, error count; maps of loggers and levels, pool, flusher | log, dump_backtrace, flush; register, drop, set..., create, shutdown |
| asynchronous core of spdlog | `async_logger-inl.h`, `thread_pool-inl.h`, `mpmc_blocking_q.h`, `circular_q.h` | queue, its mutex and conditions, workers, counters, owners of the pool | log, flush, post; dequeue, handle; destroy and join |
| file sinks of spdlog | `rotating_file_sink-inl.h`, `daily_file_sink.h`, `hourly_file_sink.h`, `file_helper-inl.h` | open file, its size or next rotation, names of old files | construct, write, rotate, delete, flush |
| other sinks of spdlog | `dup_filter_sink.h`, `ringbuffer_sink.h`, `tcp_sink.h`, `udp_sink.h`, console, Android, systemd, syslog, event log, Qt, Kafka, MongoDB, Loki | last message and count; ring; socket; colours; descriptors and queues | log, flush, connect, retry, reconnect |
| formatter of spdlog | `pattern_formatter-inl.h` | compiled pattern; cached time, date and offset | set_pattern, need_localtime, format |
| fmt | `base.h`, `format.h`, `format-inl.h`, `printf.h`, `chrono.h` | buffers; otherwise functions of their input | parse and check format strings; write text, integers, floats, times; printf |
| targets 04-16 | the requirements only | - | no code yet |

How they interact.  Server and client processes meet in TCP: the kernel
queues connections for `accept`, a `recv` returns any piece of what was written,
a close with unread bytes becomes a RST, and a write after a RST raises SIGPIPE.
In the threaded server main and the threads share the process's descriptor
table and nothing else: a thread is given an integer.  All threads call the
logging functions, each of which runs `initLogger` first, under `g_mutex`;
records then go to the console sink and the file sink, each with its own mutex.
`logSocketError` reads `errno` left by the failed socket operation, and on
Windows the text of the code from one static buffer.  Server and clients run in
one directory and append to the same log file.  In spdlog the loggers hang on a
registry that other threads reconfigure; an asynchronous logger hands messages
to the workers of a pool through one bounded queue; a sink is called under its
own mutex, formats with a formatter of its own, and that calls fmt.

What is hard: descriptors that are used again while threads come and go; threads
nobody joins; every way out of the recv loop; messages in pieces; clients that
leave early, abort or stay silent; the limits of descriptors and threads;
several threads in `initLogger` at once; the clock that passes midnight between
two readings of it; a process that is ended by a signal with records in its
buffer.  In spdlog: producers, workers and the pool's destructor around one
queue; rotations that fail or are killed between two renames; queues of file
names rebuilt from the disk; connections that break within a record; locks of
the registry taken in several orders; caches of the formatter under messages out
of order.  In fmt: two readings of one format string, text in pieces through
buffers at their limits, rounding that carries, times before the epoch.
`PROJECT.json` lists each of these at its line under `hazards`, with
the properties that watch it.

What makes each part correct:

* threaded server - a thread talks to its own client only; no descriptor is
  lost; bytes come back in order, once, to the one who sent them; everybody who
  sends hears something, whatever the silent clients do.
* clients - the join loop ends.
* blocking server - the same echo for one client; the others are released when
  it ends; sockets are closed before Winsock is.
* logging - one logger, complete before use; records in the order of a thread's
  calls; the code and the text of the operation's own error; every call returns.
* log file - each record in the file of its day; files only grow, in the order
  of days; only a tail can be lost.
* asynchronous core - a bounded first-in first-out channel that loses only what
  the policy allows and counts it; every call returns; the pool is drained and
  joined before it goes.
* sinks - only the oldest file goes; a filtered message is counted; a connection
  carries whole records; lines do not mix.
* registry - loggers are set as the registry says, one pool and one flusher, no
  call waits for ever.
* formatter and fmt - what is shown is what was given: the second of the message,
  all of the text, the number that was written, the day of the calendar.

## 2. Modules

```
Tcp  <---  EchoClients  <---  ThreadedEcho  --implements-->  EchoService
 ^                                ^   ^
 |                   MCThreadedEcho   ThreadedEcho_proofs
 +------  BlockingEcho  --implements-->  EchoService
              ^   ^
 MCBlockingEcho   BlockingEcho_proofs

Logging <--- MCLogging, Logging_proofs
DailyFileSink <--- MCDailyFileSink, DailyFileSink_proofs

CircularQueue <--- ThreadPool  --implements-->  BoundedChannel
   ^                   ^   ^
   |        MCThreadPool   ThreadPool_proofs
   |
SpdlogParts chooses in Init one of
  files       RotatingFileSink   SharedLogFile
  sinks       NetSinks   ConsoleSinks   SystemSinks
  loggers     Registry
RotatingFileSink <--- RotatingFileSink_proofs  <---+
the other five   <--- SpdlogSinks_proofs  <--------+--- SpdlogParts_proofs ---> SpdlogParts

MCSpdlogParts extends SpdlogParts, and its Init may also choose one of
  files       TimedFiles (CircularQueue)
  sinks       DupFilterSink (CircularQueue)
  loggers     Logger (CircularQueue)
  formatter   PatternFormatter   PatternLayout
  fmt         FormatString   OutputBuffer   TextWriting   Printf   IntegerWriting
              FloatWriting (FloatDigits)   ChronoFormat (TmWriter)
              (Writing is shared by the writers)
```

**`Tcp`** (external) is the kernel's side: the accept queue, the two ends of one
connection per client, how many bytes each side has written and read, and a RST
on its way.  Each operator is a system call with one of its outcomes.  `NetRecv`
may return any non-empty part of what is there, which stands for segmentation
and for bytes still under way.  A byte is `<<client, position>>`, so that a byte
in the wrong place can be told from the right one.

**`EchoClients`** is `clients.cpp`: `cpc[c]` is where thread `c` is in
`runClient`, `cmain` where main is.  Silent clients (`Idle`) are clients of
other programs: they connect, never send, and leave or stay.  They are the "pain"
of target 02 that target 03 is written for.

**`ThreadedEcho`** is `server.cpp`, composed with the two modules above.

| TLA+ | code |
|---|---|
| `mpc`, `listenFd`, `connFd` | main's position and locals |
| `fdTable` | the process's descriptor table; `IsLowestFree` is POSIX's rule for a new descriptor |
| `tpc[t]`, `tfd[t]`, `buf[t]` | position, parameter and buffer of the thread started for client `t` |
| `MainSocket`, `MainBind`, `MainListen` | lines 48-71, each with its `return -1` |
| `MainAccept`, `MainAcceptFails`, `MainRetry` | lines 74-82 |
| `SpawnThread`, `SpawnThreadThrows` | lines 84-86 |
| `ThreadRecv`, `ThreadRecvEof`, `ThreadRecvError` | lines 27-36 |
| `ThreadSend`, `ThreadSendError`, `ThreadSigPipe` | line 37 |
| `ThreadClose` | line 39 |

A thread acts on whatever its integer stands for (`Peer(t) == fdTable[tfd[t]]`),
not on "its" connection, so a descriptor closed too early and used again would
show.

**`BlockingEcho`** is `step02/server.cpp` with `step02/client.cpp`.  Leaving
`main` on any path goes through the destructors (`CloseConn`, `CloseListen`,
`Cleanup`), in the order C++ runs them.  The build is chosen in `Init`
(`winsock`): Winsock's start and end, and no SIGPIPE, or the other way round.

**`EchoService`** is what both servers promise: a client says its message once,
and hears longer and longer beginnings of that same message.  Both detailed
modules implement it with the refinement mapping
`said <- {c : sent[c] > 0}`, `heard <- [c |-> the bytes c has read]`.

**`Logging`** is `Logging.cpp` with the parts of `Platform.h` and spdlog a call
runs through, one action per step at which another thread can come between.
`Windows` chooses how `errorString` works, `InitFirst` says that one `initLogger()` returns
before anything else is called, as in the mains of targets 02 and 03.

**`DailyFileSink`** is the file behind it.  Time counts in ticks; `Start[d]` is
the tick day `d` begins at, `Day24` is `hours(24)`.  A message is stamped
(`Stamp`), then waits for the sink's mutex (`Enter...`), then the next rotation
is computed from the present time (`Rotate`), then the record goes to the stdio
buffer or the disk (`Write`).  `CloseFile` is `fclose`, of which nobody looks at the
result: it may write out a part of the buffer only, and the history variable `lost`
has the rest.  `EndProcess` is an exit, which closes the file, or a signal, which does
not.  `Midnight` is what `mktime` makes of 00:00: an hour off where the clocks are
changed between 00:00 and the reading of the clock, whose `tm_isdst` is taken over
(`daily_file_sink.h:151-162`).  The clock may tick at any moment; the history variable
`crossed` remembers whether midnight has fallen within a call or within the
constructor, and the property `FileOfDayInTime` is about the rest.

**`ThreadPool`** is the asynchronous core.  A step under `queue_mutex_` is one
action, the notification after the unlock another; a thread in a condition
variable is at `"waiting"` and may wake for no reason.  `refs` are the holders of
the pool, and whoever lets the last one go runs the destructor: the owner, or a
producer at the end of its call.  A sink's `log` and `flush` may throw, which the
worker catches sink by sink; the history variable `missed` has the flushes that threw.
`mingw` is the build that notifies under the lock.

| TLA+ | code |
|---|---|
| `Call`, `Return`, `AfterRelease` | `async_logger-inl.h:36-57`: the call takes the pool, posts, and lets it go |
| `Enqueue`, `EnqueueNowait`, `EnqueueIfHaveRoom`, `Discard` with the waits and `Notify` | `mpmc_blocking_q.h:31-63`, and the MinGW build at 97-124 |
| `Dequeue`, `DequeueWaits`, `WorkerNotify`, `BackendSinkIt`, `BackendFlush` | `mpmc_blocking_q.h:82-90`, `thread_pool-inl.h:91-122`, `async_logger-inl.h:62-80` |
| `StartWorker`, `StartWorkerThrows`, `DropPool`, `PostTerminate`, `Join` | `thread_pool-inl.h:16-55` and the registry's release of the pool |
| `q` and the operators on it | `circular_q.h` (`CircularQueue`) |

It implements **`BoundedChannel`**: a channel of bounded length that may refuse
or evict only when it is full, and where only stop messages follow the first stop
message.

**`Logger`** is a synchronous logger with its backtracer: the flag is read
without the mutex, a sink that throws does not keep the record from the next.
**`Registry`** is the registry with the factories, the flusher thread and
`shutdown`: what happens under `logger_map_mutex_` is one action, what takes
several locks has a step for each.

**Files.**  `RotatingFileSink` has an action for each step on the disk, so a kill
or a failing `rename` comes between any two.  `TimedFiles` has `max_files`,
`truncate` and the queue of names of the daily and the hourly sink over calendars
that the run gives.  A file whose first record cannot be formatted or written never
enters the queue, for the cleaning comes behind the write (`LogRotatesThrows`); the
history variable `left` has it, and those that could not be deleted.  `SharedLogFile`
is one file of two processes.

**Sinks.**  `DupFilterSink` is the filter over children that throw, one of them
the ring buffer; `NetSinks` TCP and UDP, POSIX and Windows, with a send that
takes a part and then fails; `ConsoleSinks` many sinks on two streams and one
terminal; `SystemSinks` the services of the system, one kind to a behaviour.

**Formatter.**  `PatternLayout` reads a pattern and lays out a line, its text by
lengths; `PatternFormatter` is what is remembered from one message to the next.  A width
is a `size_t` in four limbs of 16 bits, which wraps at 2^64 while its digits are read and
is cut to 64 afterwards; the reader it is compared with divides the number by 2^16.

**fmt** has hardly any state: `FormatString`, `Printf`, `TextWriting`,
`IntegerWriting`, `FloatWriting` and `ChronoFormat` are functions of their input,
translated as operators, and a state is one input.  `Init` takes it from a set
of inputs (in `MCSpdlogParts`), and the properties compare with a definition written
the other way round: a grammar, a reader of the text, a calendar.  `OutputBuffer`
is the one with actions.  `Writing` has the padding all writers share and the tables
of `is_printable`, `FloatDigits` the bigints and the arithmetic of `format_dragon`.  `ChronoFormat`'s
`shown` is what the input's formats give, computed once: the text, whether it is refused,
and whether a build with assertions stops (`asserts`).  A weekday, day, month, year or
date alone is written by its own call only if nothing stands before the brace; otherwise
the formatter of `std::tm` writes it, by default as `%F %T` of a `tm` that has no other field.

**`SpdlogParts`** puts the six parts that are proved about side by side: a behaviour
is of one of them.  **`MCSpdlogParts`** adds the others, and the values of the run.

The other `MC...` modules add symmetry sets, calendars and a name for the refinement;
everything else a run needs is in its `.cfg`.  Operators marked "Mutant" belong
to no specification: each is a version of an action with a plausible bug, kept
beside the action to show that the properties are able to fail.

## 3. Runs

| run | question | bounds |
|---|---|---|
| `threaded_safety` | does every thread keep its connection, is no descriptor lost, does each client hear its own bytes in order, and does the whole implement `EchoService`? | 2 clients, 1 silent; messages of 3 bytes, recv of at most 2; queue of 2; a descriptor for each, 2 threads; SIGPIPE |
| `threaded_liveness` | is everybody answered, does every descriptor come back, does the client program end? | the same clients; messages of 2, recv of 1; 2 connection descriptors |
| `threaded_sigpipe` | can one client end the service for all? (yes) | 1 client, 3 bytes |
| `blocking` | both builds: bytes in step, one client served, `EchoService` implemented, sockets closed before Winsock; the end of the server releases the queue | 2 clients, 1 silent; messages of 3, recv of 2; queue of 2 |
| `blocking_winsock` | is WSACleanup paired with WSAStartup? (no) | 1 client |
| `logging` | first calls together: one logger, complete, its line first; order of records; one error code lost at most; every call returns | 2 threads, 3 calls, 2 codes, Windows build |
| `logging_errno` | is the code kept when nothing was called before? (no) | 1 thread, 1 call |
| `logging_text` | is the text that of the code, on Windows? (no) | 2 threads, 2 codes, one `initLogger` first |
| `daily` | files in order, append only; lost are a tail at most and what a failing `fclose` left; only a midnight within a call misplaces a record | 2 threads, 2 records each, 4 days of 2 ticks, 2 runs of the process |
| `daily_midnight` | is every record in the file of its day? (no) | 1 thread |
| `async` | is every message handled, refused or overrun, once and in order; is the pool drained and joined before it goes; does any call hang; is it a bounded channel? | queue of 1; 2 producers with 2 and 1 calls, 1 or 2 workers, 2 sinks of which one throws in `log` and in `flush`; all three policies, both builds |
| `spdlog_parts` | does each of the 18 parts of spdlog and fmt that share nothing keep its promise, when its environment fails and over all small inputs? | see below |

Several properties of a run are conjunctions of named parts (`BuiltBeforeUse`,
`FileOfDayInTime`, `StoppedClean`, `EndReleases`, those of `spdlog_parts`): one
question each, answered by parts that are told apart in the modules.  The module's
type invariant is the first part of one of them.

### What the parts of `spdlog_parts` are checked for

| part | promise | bounds |
|---|---|---|
| rotating | `RotatingFilesKept`: higher number, older records; only the oldest go.  `FilesLimited`: no file beyond `max_size` but by one record; `current_size_` is true whatever failed | 4 records, size 3, 1 or 2 old files, 2 runs, 2 failures |
| timed | `FilesLimited`: at most `max_files` files of a run, but those it could not delete and those whose first write threw, the last ones whole where names follow the rotations; `OnlyOldestDeleted` | 4 records over 7 ticks, 2 failures, 8 setups: daily and hourly, truncating, a repeated hour, a rotation at midday, a day with an hour more |
| filter | `FilterCounts`: each message shown or counted, no repetition, the ring has the last | 2 children, 2 texts, 4 messages, 1 exception |
| net | `NetRecordsWhole` | 2 addresses, records of 2 bytes, 3 records, 3 sockets, both systems, TCP and UDP, lazy or not |
| console, shared | `LinesWhole` | 3 sinks on 2 streams, 3 lines; 2 processes with 2 lines of 2 pieces, buffers of 3 |
| registry | `RegistryConsistent` | 2 threads, 4 calls, 2 names, 2 levels |
| logger | `BacktraceDumped` | 2 threads, 2 programs of 3 to 4 calls, rings of 1 and 2, 2 exceptions |
| services | `ServicesServed` | 10 kinds, 3 records of 1 or 2 lines, 2 retries |
| formatter, layout | `PatternsFollowed` | 3 messages out of order over 5 ticks; all patterns of 4 letters out of 8, and every flag behind every kind of padding, with widths up to 64 and about 2^64 |
| format string, printf | `FormatStringsRead` | all strings of 4 letters out of 6, all specifiers of 2 letters and long ones, dynamic widths and precisions; integers of 8 bits, arguments of 10 bits about their bounds, numbers with up to four zeros before them |
| output, text | `TextWritten` | 6 kinds of buffers, pieces of up to 4, texts of 8; all byte strings of 3 out of 10, and longer ones |
| integer, float | `NumbersExact` | integers of 8 bits; floats of few bits with an implicit bit and without, bigits of 4 bits, digits up to 14 |
| chrono | `CalendarShown` | days around the turn of 14 years (leap years, ISO years of 52 and 53 weeks, years before 0 and beyond 9999), durations of several periods; fields of a date alone, with every width with and without a conversion; counts of 24 bits, an int of 8 |

Why these bounds are enough to mean something.  Three connections and four
descriptors, one of them the listener's, make descriptors be used again while
other threads run; two bytes per recv against messages of three make a message
come in one, two or three pieces; a queue of two with three clients makes
`connect` fail.  In `threaded_liveness` the silent client holds one of two
descriptors, so the others take turns, and `accept` fails with EMFILE in between.
Two threads and two readings of the clock are what every ordering problem of the
log file takes; four days of two ticks let a file be a whole day late.  In
`async` a queue of one is full after one message, so a second producer waits,
evicts or is refused, and stop messages wait in front of it; a larger queue adds
places, no cases.  Words of 8 bits bring every overflow within reach of all
values: the code compares with the limits of its types, never with constants of
32 bits.  Each part of a conjunction was seen to fail under a change of its own.

`Backlog` is 5 in the code and 1 in the runs; `RecvMax` is 1023 in the code.
`MaxTime`, `MaxRecs`, `MaxRuns`, `MaxCalls`, `MaxFaults` and the like bound what is
otherwise unbounded.  A client sends once, as in the code, so nothing else has to
be bounded.  `CHECK_DEADLOCK FALSE` stands where the system really stops: clients
that are done, a server that has ended, a pool that is gone, a clock at its bound,
a part that is a function of its input.  `Logging` has an action `Over` for that
instead, so its runs do look for deadlock; `Registry` and `ThreadPool` state it
(`CallsGoOn`, `NobodyHangs`).

### Fairness

`FairSpec` of `ThreadedEcho` has weak fairness for main, for each server
thread, for each client thread, for the clients' main and for the delivery of a
RST: each is a thread the operating system schedules on its own, and a step
stays enabled once it is (nobody else takes a thread's bytes, its descriptor or
main's place at the head of the queue).  Silent clients have none: they may stay
for good.  `BlockingEcho` is the same with one server process.  In `Logging` a
thread that is in a call goes on; nobody has to make a call.  For `g_mutex` weak
fairness is enough because calls are bounded.

`FairSpec` of `ThreadPool` has weak fairness for each thread's own steps, and none
for a wake-up without a reason: what `NobodyHangs` shows must come from the
notifications.  It says that again and again either the process is gone or all is
quiet.

### What does not hold

Five runs end in a violation; each is a place where the code does other than
a comment of the repository says, quoted in `PROJECT.json` under `findings`.

1. SIGPIPE ends the threaded server (`server.cpp:37`): a client that closes
   before the last piece of its echo is sent makes a later `send` fatal on POSIX.
   The same would happen to `ServerSurvives` at the limit of threads, where
   `std::thread` throws in `main` (`server.cpp:85`, action `SpawnThreadThrows`).
2. `WSACleanup` is called although `WSAStartup` failed (`Platform.cpp:18`).
3. `logSocketError` reads the error code after `initLogger` (`Logging.cpp:90`);
   it is lost if that was the first call, as in `SocketInitializer`.
4. `errorString` shares a static buffer between threads (`Platform.h:76`).
5. A rotation over midnight, or a start just before it, leaves the old day's file
   open for the whole new day (`daily_file_sink.h:112`, `90-93`).

Others were met while the modules were written and checked.  They have no run of
their own; the properties leave them out, by name and with the reason beside it.

*Servers and clients.*  A client reads its echo with one `recv` (`clients.cpp:47`)
and may leave with a part of it: that early close is where the RSTs of the runs
come from.  On Windows two processes that append to one log file may overwrite
each other's lines.

*Files.*  The next rotation is 24 hours after midnight (`daily_file_sink.h:161`),
an hour late on a day of 23 hours, and an hour off where the clocks are changed
between 00:00 and the message.  "retain only the last max_files"
(`daily_file_sink.h:64`) fails when the rotation is not at 00:00, and on a day of 25
hours or a repeated hour: the file that is open may be deleted or emptied
(`LastKeptAligned` has the condition under which it holds).  "old log files from
previous executions will not be deleted" (line 65) is not what
`init_filenames_q_` does.  A rotating sink whose reopening failed has no file:
small records are dropped silently, until the next rotation that succeeds.

*Sinks and loggers.*  `dup_filter_sink.h:34` shows "Skipped 3" where two are
skipped.  A sink that logs through its own logger while a backtrace is dumped
deadlocks, and so does a callback that comes back to the registry.  Error reports
are held back while the clock is set back.  `set_level` leaves the levels of
`set_levels` in place for loggers to come; `create` makes and truncates a sink
before it finds the name taken; `create_async` beside `shutdown` may leave a logger
without a pool.  `qt_color_sink` with `max_lines` of 0 or less removes lines
for ever; a `systemd_namespace` sink whose `setvbuf` fails leaks a FILE, and one
whose write failed leaves half a line in the stream; the result of Kafka's
`produce()` is ignored.

*Formatter.*  `to12h` gives 00 at midnight where `%I` and `%r` promise 1 to 12;
`%c` and `%E` announce more characters than they write, so with `!` text before
them may be cut; `need_localtime(false)` with a pattern that shows times leaves
stale text.  A width of 2^64 and more counts modulo 2^64.  The comment before
`handle_padspec_` lists `%+8!X` among the padded flags (`pattern_formatter-inl.h:1267`),
where `+` is the flag of the full format and `8!X` is text.

*fmt.*  The checker at compile time takes `{a} {}` and a `bool` as a width, which
formatting then refuses.  An empty debug string with a width lacks its closing
quote (`format.h:2183`).  The `0` flag with a locale puts zeros before the sign.
`%-j` and `%_j` of the days 100 to 109, 200 to 209 and 300 to 309 lose a zero
(`chrono.h:1384-1393`); a `local_time` with a fraction before the epoch converts a
negative count to an unsigned one (2217-2240), which `sys_time` avoids; a negative
duration shows no sign in `%r`, `%p` and `%O...`.  Without an implicit bit (the
80-bit `long double`) the shortest digits of a power of two may be another
float's, and `{:a}` of a subnormal up to 8 times its value; for `long double` a value
just below a power of ten may begin with a zero.  Unlike C, `printf` writes a sign
for unsigned conversions and "0" for a zero with precision 0, takes a precision in digits
that does not fit an `int` for 0, and counts zeros before a number as digits of it.  A
weekday, month or year whose format asks for the day of the month, be it by a width
without a conversion, stops a build with assertions and shows day 00 in others
(`chrono.h:1069-1072`).

`threaded_liveness` assumes `SigPipe = FALSE` and enough threads (the Windows
build, or a process that ignores the signal): otherwise the service
may end, and `EveryClientAnswered` excuses a server that is gone.

## 4. Proofs

### The threaded server

`ThreadedEcho_proofs` proves about `ThreadedEcho!Spec`, for every set of
clients, any descriptors, message length, queue length and limit of threads,
with and without SIGPIPE:

| theorem | says |
|---|---|
| `TypeCorrect` | `Spec => []TypeOK` |
| `HandOverCorrect` | `Spec => [](HandOver /\ NoFdLeak)` |
| `OwnershipCorrect` | `Spec => []FdOwnership` |
| `LeakFree` | `Spec => []NoFdLeak` |
| `InStepCorrect` | `Spec => [](InStep /\ EchoIntegrity)` |
| `IntegrityCorrect` | `Spec => []EchoIntegrity` |
| `CompleteCorrect` | `Spec => []EchoComplete` |
| `Refinement` | `Spec => Echo!Spec` |

They rest on the assumptions the modules name: `TcpAssumption`,
`IdleAssumption`, `ServerAssumption`.

The argument.  `FdOwnership` alone is not inductive: the step that could break it
is a close by another thread, or an accept that reuses a number.  `HandOver` is
the strengthening: at every moment a connection is in the queue once, or main's
`connFd`, or one thread's, one descriptor at most stands for it, and a thread
exists only for connections that were accepted.  Then a thread that closes its
own descriptor cannot close another's, and an accept takes a number that no
running thread has.  `NoFdLeak` is carried along, because the step from main to
the thread needs to know that main's descriptor is not in a thread's hands.

`InStep` is the second invariant, on top of the first: what a thread has in its
buffer are the last bytes received from its own client (that is where
`FdOwnership` comes in), and sent plus in hand is what was received as long
as the connection stands.  It gives `EchoIntegrity`, then `EchoComplete`.
`Refinement` follows: bytes in order, starting with the first, are a prefix of
the message, a client's `recv` makes that prefix longer, and every other step
leaves it alone.

### The blocking server

`BlockingEcho_proofs` proves about `BlockingEcho!Spec`, for any clients, message
length, buffer and queue, in both builds, from `TcpAssumption` and
`BlockingAssumption`:

| theorem | says |
|---|---|
| `OneClientCorrect` | `Spec => []OneClientInStep` |
| `SocketsClosedFirst` | `Spec => []SocketsBeforeWinsock` |
| `Refinement` | `Spec => Echo!Spec` |

The invariant `Inv` adds three things to the properties.  `OneConnection`: nothing
is received or sent before the one `accept`, `connFd_` stands for it from there to
`closeAll`, and only its bytes have come back meanwhile, which is why a second
client can get none.  `Closed`: both descriptors are gone when the destructor of
`SocketInitializer` runs, and `WSACleanup` is the last thing.  `OwnBytes`: what was
sent back is the beginning of what was received, and what is in hand comes next;
with `InStep`, which says that nothing lies between, a `send` makes that beginning
longer.  The refinement follows as for the threaded server.

### The logging facade

`Logging_proofs` proves about `Logging!Spec`, for any threads, error codes and
numbers of calls, for both systems, with and without a first `initLogger`, from
`LoggingAssumption`:

| theorem | says |
|---|---|
| `LoggerBuiltBeforeUse` | `Spec => []BuiltBeforeUse` |
| `RecordsInOrder` | `Spec => []PerThreadOrder` |
| `CodeLostOnce` | `Spec => []ErrnoLostOnce` |

The invariant `Inv` has four layers.  `MutexHeld`: who is between the lock and the
unlock holds `g_mutex`, so there is one of them.  `Phases`: what is built is built
by that one, in order; whoever finds `g_logger` set under the mutex finds all of
it, because the builder had the mutex until the end.  From it come `BannerFirst`,
since a record is only written by a thread that has left `initLogger`, and what
is said of a process that ends.  `Callers` and `Older`: a thread's record is its
latest call's, and a record in a sink is older than the one its thread is about
to write there, so an append keeps the order.  `LossOnce`: only the step that
makes the sinks can change another's error code under it, it is made once, with
no record anywhere, and the one call it hits carries the loss until its record is
written; so two lost codes can never be in the console.

### The daily file

`DailyFileSink_proofs` proves about `DailyFileSink!Spec`, for any calendar, threads,
delays and failures, from `DailyAssumption`:

| theorem | says |
|---|---|
| `SinkGoesOnward` | `Spec => OnwardOnly` |
| `SinkLeavesNoHoles` | `Spec => []NoHoles` |
| `FullDaysFilesRight` | `FullDays => (Spec => []FileOfDayInTime)` |

`SinkGoesOnward`: an open file is replaced by one of the same or a later day only,
and every file only grows.  A file is
left for the day of a message that is not older than `rotation_tp_`, so what has
to be shown is that `rotation_tp_` is never before the open file's own day (`Due`).
It is, between the opening of a file and the computation of its next rotation;
but then the thread that does both has the mutex (`Exclusive`), and when it
computes, the clock is past the beginning of the file's day (`Begun`, which
rests on `Stamped`: no message is stamped later than now).  Nothing is assumed
of the length of a day, so this holds on days of 23 and 25 hours too, and of 00:00 only
that it is at most 24 hours ahead and at most 24 hours before the day of which it is,
so a change of the clocks is allowed.

`SinkLeavesNoHoles`: a hole would be a record on disk behind one that is missing.
What a living process has written is on disk, in the one buffer, or in `lost` (`Kept`,
`Held`).  Closing the file moves a part of the buffer to its end, in order, and the rest
to `lost` (`CloseFileIs`, `ClosedOnDisk`); with the process it is lost as a whole.

`FullDaysFilesRight` has a hypothesis: `FullDays`, every day has 24 hours or more, and
00:00 is the beginning of the day (no change of the clocks).
The sink leaves a file 24 hours after the beginning of its day; on a day of 23 hours
the records of the next day's first hour still go into the old file, and no
theorem can say otherwise.  Then `LeftInTime` (`rotation_tp_` is 24 hours after the
beginning of the open file's day) and `OfToday` (a call is of the day its message is
of) are the invariant, as long as no midnight has fallen within a call or within the
constructor (`crossed`).  The run's days have 24 hours and no such change, so it meets
the hypothesis.

### The thread pool

`ThreadPool_proofs` begins with what `circular_q` does, for every size, to the
sequence `Contents` a queue stands for: `PushAppends`, `PushOverruns`,
`PopTakesOldest`.  No induction is needed: the number of a slot is a sum below twice
the size, so `%` subtracts the size at most once (`ModIsAhead`), and a step of the
head or the tail moves every item by one place or by none (`HeadGoesOn`,
`TailGoesOn`).  A push into a full queue is treated as a pop and a push.

The theorems about `ThreadPool!Spec` hold for any finite sets of producers and
workers, one sink or more, any policies and capacity, in both builds, from
`PoolAssumption`:

| theorem | says |
|---|---|
| `QueueIsChannel` | `Spec => ChannelSpec` |
| `PoolStopsClean` | `Spec => []StoppedClean` |
| `PoolDelivers` | `Spec => []Delivered` |

`QueueIsChannel`: the pool's queue implements `BoundedChannel`.  A push is a `Put` or
a `PutEvicting`, a pop is a `Take`.  What the queue alone cannot say is that a
terminate message is never evicted and that nothing is put behind one.  `PoolInv`
says it: whoever is in a call holds the pool (`CallersHold`), main posts nothing
else than terminate messages (`MainOnlyStops`), and as soon as there is a
terminate message, in a hand or in the queue, nobody holds the pool any more
(`EndedUnheld`), so nobody is left who could post anything else.

The other two first sort the steps by what they do to the messages: one is put into
the line, taken from it, carried from sink to sink, or refused, and all else leaves
them where they are.  `DeliveryInv` then has these layers:

* `HandsFit` - what a worker has in hand at each point of its loop;
* `OneEnds`, `EndsUnheld` - one thread at most ends the pool, and nobody holds it then;
* `OwnCall`, `NotYet` - a producer's messages are numbered by its calls, so the one
  it puts into the line is new and the last of its own;
* `Apart` - an accepted message is in the line, in one worker's hands or handled, at
  one of these only, a producer's oldest foremost; `LostCounted`, `RefusedCounted` -
  what is at none of them is counted;
* `StopsCounted`, `StopsLast`, `Finished` - the terminate messages in the line, in the
  workers' hands and still to be put are as many as the destructor has begun to
  post, nothing comes behind one, and a pool that nobody holds is being ended or has
  only ended workers.

`StoppedClean` follows: when the destructor has run, every worker has a terminate
message in hand, that is all of them, so none is in the line, and behind a
terminate message nothing else can be: the line is empty.

`SinksInv` stands on top of it, for `Delivered`: what a sink has was brought by a
worker that had been to the sinks before it (`SunkBy`, `Served`), and with one worker
what is handled came before what is in hand (`OneByOne`), so the order of the line is
the order of the sinks, and a flush finds there all that its caller had logged
before (`Covered`).  A flush may throw: `Delivered` is about the sinks out of which the
very message's flush did not throw (`missed`), and a flush that throws takes nothing from
what another sink has flushed.

### The parts of spdlog

A part is proved about by itself, in `RotatingFileSink_proofs` or in
`SpdlogSinks_proofs`, from the assumption its module names.  That assumption is a
hypothesis of these theorems, because `SpdlogParts` is where it is assumed
(`PartsAssumption`), of all six parts together.

| theorem | says |
|---|---|
| `RotationsKeepFiles` | `RotatingAssumption => (Spec => []RotatingFilesKept)` |
| `NetKeepsRecordsWhole` | `N!NetAssumption => (N!Spec => []N!NetRecordsWhole)` |
| `ConsoleKeepsLines` | `C!ConsoleAssumption => (C!Spec => [](C!LinesWhole /\ C!OnlyRangeColoured))` |
| `SharedFileKept` | `S!SharedFileAssumption => (S!Spec => [](S!NothingOverwritten /\ S!CutAtBufferEnds))` |
| `RegistryKept` | `G!RegistryAssumption => (G!Spec => [](G!Configured /\ G!DefaultListed /\ G!OnePool /\ G!OneFlusher /\ G!CallsGoOn))` |
| `ServicesKeepRecords` | `A!SystemSinksAssumption => (A!Spec => [](A!Bounded /\ A!NoneLostSilently /\ A!EachLineOnce /\ A!LastLinesShown))` |

`SpdlogParts_proofs` carries them over to the specification in which the parts stand side
by side, where the properties are those of the run:

| theorem | says |
|---|---|
| `RotatingPartKept` | `Spec => []RotatingFilesKept` |
| `NetPartKept` | `Spec => []NetRecordsWhole` |
| `LinesPartKept` | `Spec => []LinesWhole` |
| `RegistryPartKept` | `Spec => []RegistryConsistent` |
| `ServicesPartKept` | `Spec => []ServicesServed` |

The link is short.  `SpdlogParts_proofs` takes the two modules of proofs with the
variables of `SpdlogParts` for theirs (`J` and `K`); the instances of a module on both
sides are the same formulas (`NetSame`, `ConsoleSame`, ...); the invariant of a part holds
in the states of that part, whose steps are the part's own (`PartSteps`).  The run's
`MCSpec` adds parts and changes none: a behaviour of it in which `part` is one of the six
is one of `Spec`.

### The network sinks

Any addresses, bytes to a record, records, connections and starts, TCP and UDP, lazy or
not, on both systems.  What goes out next has to fit behind what is there.  `NetEnding`
says what the socket in use ends with: the last byte of a record, or the byte that
`send()` has come to.  `NetOlder`: only that socket can have bytes of the record under
way, so a record that is begun again after a failure begins on a new one.
`NetBytesSent`: every byte `send()` has gone past is there, so a call that returns has
given the whole record.  `NetCalls`: there is a socket while `send()` runs and none while
`connect()` does.

### The console sinks and the shared file

Any threads, sinks and streams.  A line under way is one row of pieces that is cut in two
places: what the terminal has, what is in the buffer of the stream, and what is still to
write.  `ConsoleAt` names the two places, and the terminal is in the colour of the level
between the one change of colour and the other.  `ConsoleHeld` says that the line of the
thread with the mutex is such a row, `ConsoleFree` that nobody else has anything to write
and no other stream anything in its buffer; so a piece that reaches the terminal is the
next one of the newest line.

For the shared file, any processes, lengths of lines and buffers.  What a process has
written out, what is in its buffer and what is left of its line are numbers that follow
one another (`SharedRow`); a buffer that is written out has come to the end of a full
buffer or of all its process logs (`SharedAt`), so where the file goes on with another
process one of the two was so (`SharedEnds`).  The argument is about POSIX alone: what
Windows does there is in section 3.

### The registry

Any users, names and levels.  Three arguments that share the steps of the users.

* `RegistryPool` - the user that makes a pool has `tp_mutex`, and what it has seen of
  `tp_` is still so; without a pool there have been as many resets as pools.
* `RegistryFlusher` - a call that replaces the flusher keeps the mutex until the old
  worker is joined; a worker that has not ended is the flusher or that one, and the
  flusher is active.
* `RegistryMap` - what is in the map is a logger that was made; each setting is given to
  all loggers of the map in the same step that keeps it for new ones.

`CallsGoOn` is an invariant about who waits for whom, stated with the guards of the
actions: a user that waits for `tp_mutex` waits for one that holds it and can go on; a user
that joins a worker waits for a callback that needs neither mutex, or for the end of a
worker that was told to end.  No user holds `logger_map_mutex_` from one step to the next,
which is what the callback waits for, so the locks make no circle.  That a thread
that can go on does so is the schedule's business and not proved.

### The sinks of system services

Any kinds, records, retries and lengths of queues.  `ServiceStored`: what a service has is
in the order of records and lines, before what is in hand.  `ServiceQueued`: what Kafka's
producer or Qt's events hold is in order, behind all that Kafka has and not
yet in the document (`ServiceShown`).  `ServiceKept` is what a call that returned or threw
leaves behind.  The sinks that ask and hear an answer are one case (`ServiceAnswered`).
`qt_color_sink` needs arithmetic: the document loses lines at the front and gets a text at
the end, and the text before the last one may have lost its beginning, never its end.

### The rotating files

Any sizes and numbers of files that have a largest one, any records, runs and failures.

A rotation moves file `i - 1` to `i`, from the oldest down.  `Vacant` is what makes
each step safe: but for the oldest file, which is removed first, the place a file
moves to is free.  So no rename writes over a file, and a kill between two of
them, or a failing one, leaves a gap and nothing worse.  `Waits`: the record a
rotation makes room for is newer than all there are and is nowhere yet;
`Buffered`: stdio holds back nothing meanwhile.  The steps are sorted by what they
do to the files' contents, and the order of the records is argued from there
without looking at the disk again.

### Not proved

Only model-checked are:

* liveness (`EveryClientAnswered`, `EndReleases`, `CallsReturn`, `NobodyHangs`), which is
  beyond the prover;
* `FilesLimited`: the size of a file is a sum over its records, a fold, about which
  the prover cannot induct, and so is that of `currentSize`; the timed files have
  their own invariants, not proved yet, and neither is `OnlyOldestDeleted`;
* `FilterCounts`: the messages a report counts are summed by a fold; `BacktraceDumped`
  and the caches of `PatternsFollowed` have no proof yet;
* the parts of fmt and the layout of patterns: they are recursive functions and folds over
  their input, and what such a definition computes for every input takes an induction;
* the runs that show a violation: they have nothing to prove.

## 5. What is left out

* Blocking `send`: a message is shorter than the socket buffers.  Signals that
  interrupt calls (EINTR), keep-alive timeouts, and routers that drop a
  connection without a word are not modelled.
* `accept` of the threaded server fails for want of a descriptor only; other
  passing errors of it lead to the same `continue`.
* A record is in the stdio buffer or on the disk as a whole in `DailyFileSink`
  and `RotatingFileSink`; `SharedLogFile` has the buffer that is written out in the
  middle of a record.  That `fclose` cannot write the buffer out is modelled in
  `DailyFileSink`; in `RotatingFileSink` it writes all of it.
* The log calls inside the servers: the two modules of the servers leave them
  out, `Logging` has them by themselves.  A record that cannot be written does
  not disturb the caller (`logger.h:331-342`), except in the first `initLogger`.
* How Windows numbers its sockets: descriptors are numbers there too, but not
  the lowest ones; the proofs use the rule only in that a new one was free.
* spdlog: cloning, copying and swapping of loggers; the event handlers of files;
  `set_sinks` and `set_formatter` of `dist_sink`; setters of colours and patterns;
  callbacks that come back to the registry; `send()` that returns 0; a blackhole
  that lets `connect` hang without a timeout.
* fmt: the shortest digits of `float` and `double` (Dragonbox) with its cached powers
  and 128-bit products, so the first segment of digits is taken as exact;
  floating-point durations and locales other than the classic; `fmt::compile`,
  argument stores, `ranges.h`, `std.h`, `color.h`, `os.h`, `xchar.h`, `ostream.h`: templates that
  choose an overload and hand on to what is modelled.  Tables that cover 64 bits
  are modelled as far as TLC's integers go (31 bits).  `char` is signed, as on x86.
* Error codes (an enumeration), `log_test` (a behaviour of `Logging`), and targets
  04-16, of which no code exists.

The modules stand for a little under a third of the repository's lines; what
remains is for the most part fmt's tables and templates, and the parts above.

## 6. Plan

Done, in this order: `Tcp`, `EchoClients`, `ThreadedEcho`, its proofs,
`BlockingEcho`, `Logging`, `DailyFileSink`; then `CircularQueue`, `ThreadPool` and
`BoundedChannel`; the sinks, the registry and the logger; the pattern formatter; fmt;
the proofs of `Logging`, `BlockingEcho`, `DailyFileSink`, `ThreadPool`,
`RotatingFileSink` and the five parts of `SpdlogSinks_proofs`.  Next:

1. **The servers with their log calls**: `ThreadedEcho` composed with the part of
   `Logging` that can end the process or hold a thread.
2. **Proofs**: the files that a `TimedFiles` run leaves; the backtrace of `Logger`; the
   caches of `PatternFormatter`.
3. **Dragonbox**, with words of few bits, against the nearest and shortest
   decimal.
4. The targets 04 to 16, as their code is written.
