----------------------------- MODULE TimedFiles -----------------------------
(***************************************************************************)
(* The files of daily_file_sink (daily_file_sink.h) and hourly_file_sink   *)
(* (hourly_file_sink.h) over days or hours: which one is open, which are   *)
(* emptied, and which are deleted when max_files is set.  The two sinks    *)
(* differ in the calendar and in that the hourly one removes a first file  *)
(* it has left empty.                                                      *)
(*                                                                         *)
(* Time counts in ticks.  A file is known by the number of its day or      *)
(* hour; its contents are the set of records in it.  What threads and the  *)
(* stdio buffer add is in DailyFileSink.                                   *)
(***************************************************************************)
EXTENDS CircularQueue, FiniteSets

CONSTANTS
  Setups,     \* the sinks tried: hourly or not, truncate_, max_files_, calendar
  MaxTime,    \* bound: the last tick
  MaxRecs,    \* bound: records
  MaxRuns,    \* bound: starts of the program
  MaxFaults,  \* bound: files that cannot be opened, written or deleted
  NoFile      \* no file is open

\* A calendar: the file name of each tick, the rotation time of its day or
\* hour, and the 24 hours or the hour added to it.
TimedAssumption ==
  \A s \in Setups :
    /\ s.hourly \in BOOLEAN /\ s.truncate \in BOOLEAN /\ s.max \in Nat \ {0}
    /\ s.name \in [0 .. MaxTime -> Nat] /\ s.begin \in [0 .. MaxTime -> Nat]
    /\ s.period \in Nat \ {0}
    /\ \A t \in 1 .. MaxTime : s.name[t] >= s.name[t - 1] /\ s.name[t] <= s.name[t - 1] + 1

VARIABLES
  setup,
  now,         \* log_clock
  disk,        \* the files there are, by name
  open,        \* the file that is open
  filename,    \* the file last opened, or that could not be opened
  rotationTp,  \* rotation_tp_
  names,       \* filenames_q_
  initEmpty,   \* remove_init_file_
  logged,      \* records so far
  mine,        \* history: what this run of the program wrote to each file
  left,        \* history: the files of this run that a failure kept out of the
               \* queue, or on the disk when the queue had given them up
  runs, faults

vars == <<setup, now, disk, open, filename, rotationTp, names, initEmpty, logged, mine, left,
          runs, faults>>

Init ==
  /\ setup \in Setups
  /\ now = 0 /\ rotationTp = 0
  /\ disk = [f \in {} |-> {}] /\ mine = [f \in {} |-> {}]
  /\ open = NoFile /\ filename = NoFile /\ left = {}
  /\ names = DisabledQ /\ initEmpty = FALSE
  /\ logged = 0 /\ runs = 0 /\ faults = 0

With(files, f, s) == [n \in DOMAIN files \cup {f} |-> IF n = f THEN s ELSE files[n]]
Without(files, gone) == [n \in DOMAIN files \ gone |-> files[n]]
FileOrNone(files, f) == IF f \in DOMAIN files THEN files[f] ELSE {}

\* file_helper::open(): to append, or truncated first.
Opened(files, f) == With(files, f, IF setup.truncate THEN {} ELSE FileOrNone(files, f))

\* next_rotation_tp_().
NextRotationTp ==
  LET t == setup.begin[now] IN IF t > now THEN t ELSE t + setup.period

\* Files without a gap, back from now by a day or an hour at a time, at most max
\* of them; where the clocks were changed two of them may be the same one.
FoundName(j) == setup.name[now - j * setup.period]
Found(files) ==
  {k \in 1 .. setup.max :
     \A j \in 0 .. k - 1 : now >= j * setup.period /\ FoundName(j) \in DOMAIN files}

\* Mutant: the names are pushed as they are found.
InitFilenamesNewestFirst(files) ==
  LET n == Cardinality(Found(files))
      q[k \in 0 .. n] == IF k = 0 THEN NewQ(setup.max) ELSE PushBack(q[k - 1], FoundName(k - 1))
  IN  q[n]

\* init_filenames_q_(): the files found, pushed oldest first.
InitFilenames(files) ==
  LET n == Cardinality(Found(files))
      q[k \in 0 .. n] == IF k = 0 THEN NewQ(setup.max) ELSE PushBack(q[k - 1], FoundName(n - k))
  IN  q[n]

\* The constructor.
Start ==
  /\ runs < MaxRuns /\ names.max_items = 0
  /\ runs' = runs + 1
  /\ open' = setup.name[now] /\ filename' = open'
  /\ disk' = Opened(disk, open')
  /\ initEmpty' = (setup.hourly /\ disk'[open'] = {})
  /\ rotationTp' = NextRotationTp
  /\ names' = InitFilenames(disk')
  /\ mine' = [f \in {open'} |-> {}] /\ left' = {}
  /\ UNCHANGED <<setup, now, logged, faults>>

Taking == names.max_items > 0 /\ logged < MaxRecs
Due == now >= rotationTp
Fault == faults < MaxFaults /\ faults' = faults + 1

\* sink_it_() with nothing to rotate.  What is written to a file that has been
\* deleted while it was open is lost.
Log ==
  /\ Taking /\ ~Due
  /\ logged' = logged + 1
  /\ initEmpty' = FALSE
  /\ mine' = [mine EXCEPT ![open] = @ \cup {logged'}]
  /\ disk' = IF open \in DOMAIN disk THEN With(disk, open, disk[open] \cup {logged'})
                                     ELSE disk
  /\ UNCHANGED <<setup, now, open, filename, rotationTp, names, left, runs, faults>>

\* The record cannot be formatted or written, and is lost.
LogThrows ==
  /\ Taking /\ ~Due /\ Fault
  /\ logged' = logged + 1
  /\ initEmpty' = FALSE
  /\ UNCHANGED <<setup, now, disk, open, filename, rotationTp, names, mine, left, runs>>

\* The hourly sink removes a first file that nothing was written to, by the name
\* of the file last opened: after an open that failed, the one it failed at.
Cleaned == IF initEmpty THEN Without(disk, {filename}) ELSE disk

\* Mutant: the queue is taken for full one item too late.
DeleteOldLate(files, f) ==
  LET old == IF Size(names) > setup.max THEN {FrontItem(names)} ELSE {} IN
  /\ names' = PushBack(IF old = {} THEN names ELSE PopFront(names), f)
  /\ \/ disk' = Without(files, old) /\ left' = left \ {f} /\ UNCHANGED faults
     \/ old # {} /\ Fault /\ disk' = files /\ left' = (left \ {f}) \cup old

\* delete_old_(): a full queue gives up its oldest file; when that cannot be
\* deleted it is forgotten all the same, and the exception follows.
DeleteOld(files, f) ==
  LET old == IF Full(names) THEN {FrontItem(names)} ELSE {} IN
  /\ names' = PushBack(IF old = {} THEN names ELSE PopFront(names), f)
  /\ \/ disk' = Without(files, old) /\ left' = left \ {f} /\ UNCHANGED faults
     \/ old # {} /\ Fault /\ disk' = files /\ left' = (left \ {f}) \cup old

\* sink_it_() opens the next file.
Rotates(f) ==
  /\ Taking /\ Due
  /\ logged' = logged + 1
  /\ open' = f /\ filename' = f
  /\ rotationTp' = NextRotationTp
  /\ initEmpty' = FALSE
  /\ UNCHANGED <<setup, now, runs>>

LogRotates ==
  LET f == setup.name[now]  files == Opened(Cleaned, f) IN
  /\ Rotates(f)
  /\ mine' = With(mine, f, FileOrNone(mine, f) \cup {logged'})
  /\ DeleteOld(With(files, f, files[f] \cup {logged'}), f)

\* The record cannot be formatted or written: delete_old_() is not reached, and
\* the file that has been opened does not enter the queue.
LogRotatesThrows ==
  LET f == setup.name[now] IN
  /\ Rotates(f) /\ Fault
  /\ disk' = Opened(Cleaned, f)
  /\ mine' = With(mine, f, FileOrNone(mine, f))
  /\ left' = left \cup {f}
  /\ UNCHANGED names

\* The file cannot be opened, before or after it was truncated: the record is
\* lost, and the next one tries again.
LogOpenFails ==
  LET f == setup.name[now] IN
  /\ Taking /\ Due /\ Fault
  /\ logged' = logged + 1
  /\ open' = NoFile /\ filename' = f
  /\ disk' \in {Cleaned} \cup (IF setup.truncate THEN {Opened(Cleaned, f)} ELSE {})
  /\ UNCHANGED <<setup, now, rotationTp, names, initEmpty, mine, left, runs>>

Stop ==
  /\ names.max_items > 0
  /\ names' = DisabledQ /\ open' = NoFile
  /\ UNCHANGED <<setup, now, disk, filename, rotationTp, initEmpty, logged, mine, left, runs, faults>>

Tick ==
  /\ now < MaxTime /\ now' = now + 1
  /\ UNCHANGED <<setup, disk, open, filename, rotationTp, names, initEmpty, logged, mine, left,
                 runs, faults>>

Next ==
  \/ Start \/ Log \/ LogThrows \/ LogRotates \/ LogRotatesThrows \/ LogOpenFails
  \/ Stop \/ Tick

Spec == Init /\ [][Next]_vars

-----------------------------------------------------------------------------
(* Properties.                                                             *)

Names == {setup.name[t] : t \in 0 .. MaxTime}

TypeOK ==
  /\ setup \in Setups /\ now \in 0 .. MaxTime /\ rotationTp \in 0 .. now + 2 * setup.period
  /\ DOMAIN disk \subseteq Names /\ \A f \in DOMAIN disk : disk[f] \subseteq 1 .. logged
  /\ DOMAIN mine \subseteq Names /\ left \subseteq Names
  /\ filename \in Names \cup {NoFile} /\ open \in {filename, NoFile}
  /\ names = DisabledQ \/ IsCircQ(names, Names)
  /\ initEmpty \in BOOLEAN

\* At most max_files of the files this run has opened are there, but for those it
\* could not delete and those whose first record could not be written, which
\* stay for good: the cleaning comes behind the write
\* (daily_file_sink.h:112-121, 166-181).
AtMostMax ==
  names.max_items > 0 =>
    Cardinality((DOMAIN mine \cap DOMAIN disk) \ left) <= setup.max

\* Only the oldest of the files the sink knows of is ever deleted, or a file
\* with nothing in it (daily_file_sink.h:124-143, 166-181;
\* hourly_file_sink.h:74-77).
DeletesOldest ==
  \A f \in DOMAIN disk \ DOMAIN disk' :
    disk[f] = {} \/ \A n \in DOMAIN Contents(names') : f <= Contents(names')[n]

OnlyOldestDeleted == [][DeletesOldest]_vars

Newest(files, k) ==
  {f \in files : Cardinality({g \in files : g > f}) < k}

\* "retain only the last max_files and delete previous" (daily_file_sink.h:64):
\* the last max_files files this run has written to are there, with all it
\* wrote.  False when a rotation is due in the middle of a file's day.
LastKept ==
  names.max_items > 0 =>
    \A f \in Newest({g \in DOMAIN mine : mine[g] # {}}, setup.max) :
      f \in DOMAIN disk /\ mine[f] \subseteq disk[f]

Aligned ==
  \A t \in 0 .. MaxTime :
    /\ setup.name[setup.begin[t]] = setup.name[t] /\ setup.begin[t] <= t
    /\ setup.begin[t] + setup.period <= MaxTime =>
         setup.name[setup.begin[t] + setup.period] = setup.name[t] + 1

\* It holds when the names change where the rotations are due: hourly files,
\* and daily ones that rotate at midnight, without a change of the clocks.
LastKeptAligned == Aligned => LastKept

=============================================================================
