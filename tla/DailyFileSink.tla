--------------------------- MODULE DailyFileSink ----------------------------
(***************************************************************************)
(* The log file of dong_dong: spdlog's daily_file_sink with rotation at    *)
(* 00:00, its file_helper, and the stdio buffer behind it (Logging.cpp:58  *)
(* makes one; its flush level is never set, so nothing flushes the buffer  *)
(* but the buffer itself, a rotation, and a regular exit).                 *)
(*                                                                         *)
(* Time is counted in ticks.  A message is stamped when log_msg is built,  *)
(* before its thread waits for the sink's mutex; the rotation time is      *)
(* computed from another reading of the clock.                             *)
(***************************************************************************)
EXTENDS Naturals, Sequences

CONSTANTS
  Threads,
  Days,     \* the days of the calendar, 0 to some last one
  Start,    \* the tick each day starts at
  Midnight, \* what mktime() makes of 00:00, by the tick whose date is taken: the
            \* start of its day, or an hour off where the clocks are changed
            \* between the two, for tm_isdst is that of the tick
  Day24,    \* std::chrono::hours(24)
  MaxTime,  \* bound: the last tick
  MaxRecs,  \* bound: messages a thread logs
  MaxRuns,  \* bound: starts of the process
  NoFile,   \* fd_ is nullptr
  NoThread

ASSUME DailyAssumption ==
  /\ Days \subseteq Nat /\ 0 \in Days
  /\ Start \in [Days -> Nat] /\ Start[0] = 0
  /\ \A d, e \in Days : d < e => Start[d] < Start[e]
  /\ \A tp \in 0 .. MaxTime : \E d \in Days :   \* every tick is of some day
       Start[d] <= tp /\ \A e \in Days : Start[e] <= tp => e <= d
  /\ Day24 \in Nat \ {0}
  /\ Midnight \in [0 .. MaxTime -> Nat]
  /\ \A tp \in 0 .. MaxTime :
       /\ Midnight[tp] <= tp + Day24
       /\ \A d \in Days : Start[d] <= tp => Start[d] <= Midnight[tp] + Day24
  /\ {MaxTime, MaxRecs, MaxRuns} \subseteq Nat
  /\ NoFile \notin Days
  /\ NoThread \notin Threads

VARIABLES
  now,        \* log_clock
  crossed,    \* history: midnight has fallen within a call or the constructor
  proc,       \* the process: "down", "named" or "up" (constructor done)
  runs,       \* number of times it was started
  mutex,      \* who holds the sink's mutex
  pc,         \* where each thread is
  msg,        \* the message it logs
  count,      \* number of messages it has begun
  fileDay,    \* the day in the name of the open file, or NoFile
  rotationTp, \* rotation_tp_
  pending,    \* what is in the stdio buffer of the open file
  disk,       \* what is in the file of each day
  written,    \* all messages this process has written, in order
  lost        \* history: what was in a buffer that could not be written out

clockVars == <<now, crossed>>
procVars == <<proc, runs>>
threadVars == <<pc, msg, count>>
fileVars == <<fileDay, rotationTp, pending, disk, written, lost>>
vars == <<clockVars, procVars, mutex, threadVars, fileVars>>

Record == [by : Threads, n : 0 .. MaxRecs, time : 0 .. MaxTime]

DayOf(tp) == CHOOSE d \in Days :
  Start[d] <= tp /\ \A e \in Days : Start[e] <= tp => e <= d

\* Every variable has its type, and the file is never further than 24 hours
\* from its next rotation (daily_file_sink.h:151-162).
TypeOK ==
  /\ now \in 0 .. MaxTime
  /\ crossed \in BOOLEAN
  /\ proc \in {"down", "named", "up"}
  /\ runs \in 0 .. MaxRuns
  /\ mutex \in Threads \cup {NoThread}
  /\ pc \in [Threads -> {"idle", "enter", "rotate", "write"}]
  /\ msg \in [Threads -> Record]
  /\ count \in [Threads -> 0 .. MaxRecs]
  /\ fileDay \in Days \cup {NoFile}
  /\ rotationTp \in 0 .. (now + Day24)
  /\ pending \in Seq(Record)
  /\ disk \in [Days -> Seq(Record)]
  /\ written \in Seq(Record)
  /\ lost \subseteq Record

Init ==
  /\ now = 0
  /\ crossed = FALSE
  /\ proc = "down"
  /\ runs = 0
  /\ mutex = NoThread
  /\ pc = [t \in Threads |-> "idle"]
  /\ msg = [t \in Threads |-> [by |-> t, n |-> 0, time |-> 0]]
  /\ count = [t \in Threads |-> 0]
  /\ fileDay = NoFile
  /\ rotationTp = 0
  /\ pending = <<>>
  /\ disk = [d \in Days |-> <<>>]
  /\ written = <<>>
  /\ lost = {}

-----------------------------------------------------------------------------
(* file_helper.                                                            *)

\* What reaches the disk when the stdio buffer is flushed.
Flushed ==
  IF fileDay = NoFile THEN disk ELSE [disk EXCEPT ![fileDay] = @ \o pending]

\* Mutant: fd_ is overwritten without close(), the old buffer is never flushed.
OpenNoClose(d) ==
  /\ fileDay' = d
  /\ pending' = <<>>
  /\ UNCHANGED <<disk, lost>>

\* close(): fclose() writes out the buffer, or a part of it and the rest is lost,
\* for nobody looks at its result.
CloseFile ==
  /\ pending' = <<>>
  /\ \/ disk' = Flushed /\ UNCHANGED lost
     \/ \E k \in 0 .. Len(pending) - 1 :
          /\ fileDay # NoFile
          /\ disk' = [disk EXCEPT ![fileDay] = @ \o SubSeq(pending, 1, k)]
          /\ lost' = lost \cup {pending[i] : i \in k + 1 .. Len(pending)}

\* open(): the old file is closed, and the file of day d is opened to append; the
\* descriptor stays nullptr when the five tries fail.
Open(d) == fileDay' = d /\ CloseFile

OpenFails == fileDay' = NoFile /\ CloseFile

\* write(): the bytes stay in the buffer, or fill it and go to the disk.
WriteBuffer(r) ==
  /\ written' = Append(written, r)
  /\ \/ pending' = Append(pending, r) /\ UNCHANGED disk
     \/ /\ pending' = <<>>
        /\ disk' = [disk EXCEPT ![fileDay] = (@ \o pending) \o <<r>>]

\* next_rotation_tp_(): midnight of the current day, or 24 hours later.
NextRotationTp ==
  IF Midnight[now] > now THEN Midnight[now] ELSE Midnight[now] + Day24

-----------------------------------------------------------------------------
(* The constructor, in initLogger.  It reads the clock twice.              *)

ConstructOpen ==
  /\ proc = "down"
  /\ runs < MaxRuns
  /\ runs' = runs + 1
  /\ \/ proc' = "named" /\ Open(DayOf(now))
     \/ proc' = "down" /\ OpenFails \* the exception ends the process
  /\ written' = <<>>
  /\ UNCHANGED <<clockVars, mutex, threadVars, rotationTp>>

ConstructRotation ==
  /\ proc = "named"
  /\ proc' = "up"
  /\ rotationTp' = NextRotationTp
  /\ UNCHANGED <<clockVars, runs, mutex, threadVars>>
  /\ UNCHANGED <<fileDay, pending, disk, written, lost>>

-----------------------------------------------------------------------------
(* A thread logs a message.                                                *)

Goto(t, from, to) ==
  /\ proc = "up"
  /\ pc[t] = from
  /\ pc' = [pc EXCEPT ![t] = to]
  /\ UNCHANGED <<clockVars, procVars>>

\* log_msg's constructor takes the time.
Stamp(t) ==
  /\ Goto(t, "idle", "enter")
  /\ count[t] < MaxRecs
  /\ count' = [count EXCEPT ![t] = @ + 1]
  /\ msg' = [msg EXCEPT ![t] = [by |-> t, n |-> count[t] + 1, time |-> now]]
  /\ UNCHANGED <<mutex, fileVars>>

\* Mutant: the file is changed whenever the message is of another day.
ShouldRotateByDay(t) == DayOf(msg[t].time) # fileDay

\* Mutant: ">" for ">=".
ShouldRotateLate(t) == msg[t].time > rotationTp

ShouldRotate(t) == msg[t].time >= rotationTp

\* sink_it_ with the mutex locked: nothing to rotate.
Enter(t) ==
  /\ Goto(t, "enter", "write")
  /\ mutex = NoThread
  /\ ~ShouldRotate(t)
  /\ mutex' = t
  /\ UNCHANGED <<msg, count, fileVars>>

\* The file is named after the message's time.
EnterOpen(t) ==
  /\ Goto(t, "enter", "rotate")
  /\ mutex = NoThread
  /\ ShouldRotate(t)
  /\ mutex' = t
  /\ Open(DayOf(msg[t].time))
  /\ UNCHANGED <<msg, count, rotationTp, written>>

\* open throws; the logger catches it and the message is lost.
EnterOpenFails(t) ==
  /\ Goto(t, "enter", "idle")
  /\ mutex = NoThread
  /\ ShouldRotate(t)
  /\ OpenFails
  /\ UNCHANGED <<mutex, msg, count, rotationTp, written>>

\* The next rotation is computed from the present time.
Rotate(t) ==
  /\ Goto(t, "rotate", "write")
  /\ rotationTp' = NextRotationTp
  /\ UNCHANGED <<mutex, msg, count, fileDay, pending, disk, written, lost>>

\* The record is written, or lost: fwrite fails, or there is no file.
Write(t) ==
  /\ Goto(t, "write", "idle")
  /\ mutex' = NoThread
  /\ \/ fileDay # NoFile /\ WriteBuffer(msg[t])
     \/ UNCHANGED <<pending, disk, written>>
  /\ UNCHANGED <<msg, count, fileDay, rotationTp, lost>>

-----------------------------------------------------------------------------
(* The environment.                                                        *)

InCall == proc = "named" \/ \E t \in Threads : pc[t] # "idle"

Tick ==
  /\ now < MaxTime
  /\ now' = now + 1
  /\ crossed' = (crossed \/ (InCall /\ DayOf(now + 1) # DayOf(now)))
  /\ UNCHANGED <<procVars, mutex, threadVars, fileVars>>

\* The process ends.  A regular exit closes the file; a signal, which is how
\* the servers are ended, loses what is in the buffer.
EndProcess ==
  /\ proc # "down"
  /\ proc' = "down"
  /\ mutex' = NoThread
  /\ pc' = [t \in Threads |-> "idle"]
  /\ fileDay' = NoFile
  /\ CloseFile \/ (pending' = <<>> /\ UNCHANGED <<disk, lost>>)
  /\ UNCHANGED <<clockVars, runs, msg, count, rotationTp, written>>

Thread(t) ==
  \/ Stamp(t) \/ Enter(t) \/ EnterOpen(t) \/ EnterOpenFails(t)
  \/ Rotate(t) \/ Write(t)

Next ==
  \/ ConstructOpen \/ ConstructRotation
  \/ \E t \in Threads : Thread(t)
  \/ Tick \/ EndProcess

Spec == Init /\ [][Next]_vars

-----------------------------------------------------------------------------

OnDisk == UNION {{disk[d][i] : i \in 1 .. Len(disk[d])} : d \in Days}

\* "按日期每天一个文件，跨天自动切换" (Logging.h:12): a record is in the file of the
\* day its time says.  False: see crossed (daily_file_sink.h:106-122, 151-162).
FileOfDay == \A d \in Days : \A i \in 1 .. Len(disk[d]) : DayOf(disk[d][i].time) = d

\* Where the clocks are not changed, it takes a midnight within a call, or
\* within the constructor, to write a record to the file of another day
\* (daily_file_sink.h:90-93, 106-122).  All is of its type, so the next
\* rotation is never further than 24 hours away.
FileOfDayInTime == TypeOK /\ (~crossed => FileOfDay)

\* The sink never goes back to an older file, whatever the threads' stamps are
\* (daily_file_sink.h:106-114).
FilesInOrder ==
  [][fileDay # NoFile /\ fileDay' # NoFile => fileDay' >= fileDay]_vars

\* Only the tail of what was written can be missing when the process is
\* killed: a rotation leaves nothing behind in the old file's buffer, but what
\* a failing fclose() could not write (file_helper-inl.h:26-28, 83-96).
TailOnly ==
  \A i, j \in 1 .. Len(written) :
    i < j /\ written[j] \in OnDisk => written[i] \in OnDisk \cup lost

\* Files only grow, over rotations and restarts of the process
\* (file_helper-inl.h:30, 50: "ab").
OnlyGrows ==
  [][\A d \in Days : /\ Len(disk'[d]) >= Len(disk[d])
                     /\ SubSeq(disk'[d], 1, Len(disk[d])) = disk[d]]_vars

\* A thread's records are in each file in the order of its calls, and none is
\* there twice (base_sink-inl.h:27-31).
InCallOrder ==
  \A d \in Days : \A i, j \in 1 .. Len(disk[d]) :
    i < j /\ disk[d][i].by = disk[d][j].by => disk[d][i].n < disk[d][j].n

\* What is on the disk has no holes but those and is in order
\* (daily_file_sink.h:106-122).
NoHoles == TailOnly /\ InCallOrder

\* The sink goes on to later files and only adds to each
\* (daily_file_sink.h:106-114, file_helper-inl.h:30, 50).
OnwardOnly == FilesInOrder /\ OnlyGrows

=============================================================================
