-------------------------- MODULE RotatingFileSink --------------------------
(***************************************************************************)
(* rotating_file_sink (rotating_file_sink-inl.h) with its file_helper: a   *)
(* file of a limited size and a row of older ones, renamed from log.1 to   *)
(* log.2 and so on when a record does not fit.                             *)
(*                                                                         *)
(* The sink's mutex makes its calls one at a time, but the process may be  *)
(* killed between any two steps on the disk, so each of these is an action.*)
(* A record is a number; stdio keeps records in a buffer, which a kill     *)
(* loses.  disk[i] is the file number i, if there is one.                  *)
(***************************************************************************)
EXTENDS Integers, SequencesExt

CONSTANTS
  Bytes,      \* the sizes of the records 1 .. n, in order
  Sizes,      \* the values max_size is given
  Counts,     \* the values max_files is given
  MaxRuns,    \* bound: starts of the program
  MaxFaults   \* bound: failed system calls

Records == DOMAIN Bytes
Constructing == -1   \* rotate_() called by the constructor
Top == CHOOSE m \in Counts : \A c \in Counts : c <= m
Largest == CHOOSE m \in Sizes : \A s \in Sizes : s <= m

RotatingAssumption ==
  /\ Bytes \in Seq(Nat \ {0})
  /\ Sizes \subseteq Nat \ {0} /\ \E m \in Sizes : \A s \in Sizes : s <= m
  /\ Counts \subseteq Nat /\ \E m \in Counts : \A c \in Counts : c <= m
  /\ {MaxRuns, MaxFaults} \subseteq Nat

VARIABLES
  disk,         \* the files there are, by number
  buffer,       \* what stdio has not written out
  opened,       \* fd_ # nullptr
  currentSize,  \* current_size_
  maxSize, maxFiles,
  pc,           \* where the sink is
  i,            \* the loop variable of rotate_()
  rec,          \* the record rotate_() makes room for, 0 or Constructing
  logged,       \* records so far
  gone,         \* history: records the sink has given up, and lost in a kill
  least,        \* history: the smallest max_files so far
  runs, faults

fileVars == <<disk, buffer, opened, currentSize>>
setVars == <<maxSize, maxFiles, least, runs>>
rotateVars == <<pc, i, rec>>
vars == <<fileVars, setVars, rotateVars, logged, gone, faults>>

SizeOf(s) == FoldLeft(LAMBDA sum, r : sum + Bytes[r], 0, s)

Init ==
  /\ disk = [f \in {} |-> <<>>] /\ buffer = <<>>
  /\ opened = FALSE /\ currentSize = 0
  /\ maxSize = Largest /\ maxFiles = Top /\ least = Top
  /\ pc = "down" /\ i = 0 /\ rec = 0
  /\ logged = 0 /\ gone = {}
  /\ runs = 0 /\ faults = 0

With(f, s) == [n \in DOMAIN disk \cup {f} |-> IF n = f THEN s ELSE disk[n]]
Without(f) == [n \in DOMAIN disk \ {f} |-> disk[n]]
FileOrNone(f) == IF f \in DOMAIN disk THEN disk[f] ELSE <<>>

Fault == faults < MaxFaults /\ faults' = faults + 1

\* rotate_() throws: the record it made room for is not written, and a
\* constructor makes no sink.
Throw(lost) ==
  /\ pc' = IF rec = Constructing THEN "down" ELSE "idle"
  /\ rec' = 0
  /\ gone' = gone \cup lost \cup ({rec} \cap Records)

-----------------------------------------------------------------------------
(* The constructor, the setters and the end of the process.                *)

Start(size, count, rotateOnOpen) ==
  /\ pc = "down" /\ runs < MaxRuns
  /\ runs' = runs + 1
  /\ maxSize' = size /\ maxFiles' = count
  /\ least' = IF count < least THEN count ELSE least
  /\ disk' = With(0, FileOrNone(0))
  /\ currentSize' = SizeOf(FileOrNone(0))
  /\ IF rotateOnOpen /\ currentSize' > 0
     THEN pc' = "remove" /\ i' = count /\ rec' = Constructing /\ opened' = FALSE
     ELSE pc' = "idle" /\ opened' = TRUE /\ UNCHANGED <<i, rec>>
  /\ UNCHANGED <<buffer, logged, gone, faults>>

\* set_max_size(), set_max_files().
Set(size, count) ==
  /\ pc = "idle"
  /\ maxSize' = size /\ maxFiles' = count
  /\ least' = IF count < least THEN count ELSE least
  /\ UNCHANGED <<fileVars, runs, rotateVars, logged, gone, faults>>

Kill ==
  /\ pc # "down"
  /\ pc' = "down" /\ rec' = 0
  /\ gone' = gone \cup Range(buffer) \cup ({rec} \cap Records)
  /\ buffer' = <<>> /\ opened' = FALSE
  /\ UNCHANGED <<disk, currentSize, setVars, i, logged, faults>>

\* stdio writes its buffer out when it likes, and when flush() asks for it.
Flush ==
  /\ pc = "idle" /\ opened /\ buffer # <<>>
  /\ disk' = With(0, disk[0] \o buffer) /\ buffer' = <<>>
  /\ UNCHANGED <<opened, currentSize, setVars, rotateVars, logged, gone, faults>>

-----------------------------------------------------------------------------
(* sink_it_().                                                             *)

\* file_helper::write(), which without a file returns and says nothing.
Write(r, newSize) ==
  /\ currentSize' = newSize
  /\ IF opened THEN buffer' = Append(buffer, r) /\ UNCHANGED gone
               ELSE gone' = gone \cup {r} /\ UNCHANGED buffer

SinkItFits ==
  LET r == logged + 1 IN
  /\ pc = "idle" /\ r \in Records
  /\ currentSize + Bytes[r] <= maxSize
  /\ logged' = r
  /\ Write(r, currentSize + Bytes[r])
  /\ UNCHANGED <<disk, opened, setVars, rotateVars, faults>>

\* rotate_() begins: the file is closed.
BeginRotate(r) ==
  /\ pc' = "remove" /\ i' = maxFiles /\ rec' = r
  /\ opened' = FALSE

\* A record that does not fit: flush, and rotate unless the file is empty.
SinkItTooLarge ==
  LET r == logged + 1 IN
  /\ pc = "idle" /\ r \in Records /\ opened
  /\ currentSize + Bytes[r] > maxSize
  /\ logged' = r
  /\ IF disk[0] \o buffer # <<>>
     THEN /\ disk' = With(0, disk[0] \o buffer) /\ buffer' = <<>>
          /\ BeginRotate(r) /\ UNCHANGED <<currentSize, gone>>
     ELSE /\ Write(r, currentSize + Bytes[r])
          /\ UNCHANGED <<disk, opened, rotateVars>>
  /\ UNCHANGED <<setVars, faults>>

\* size() throws without a file; fflush() and fwrite() may fail.
SinkItThrows ==
  LET r == logged + 1 IN
  /\ pc = "idle" /\ r \in Records
  /\ \/ ~opened /\ currentSize + Bytes[r] > maxSize /\ UNCHANGED faults
     \/ opened /\ Fault
  /\ logged' = r /\ gone' = gone \cup {r}
  /\ UNCHANGED <<fileVars, setVars, rotateVars>>

RotateNow ==
  /\ pc = "idle"
  /\ disk' = IF opened THEN With(0, disk[0] \o buffer) ELSE disk
  /\ buffer' = <<>>
  /\ BeginRotate(0)
  /\ UNCHANGED <<currentSize, setVars, logged, gone, faults>>

-----------------------------------------------------------------------------
(* rotate_().                                                              *)

Rotating == UNCHANGED <<buffer, setVars, logged>>

Skip ==
  /\ pc = "remove" /\ i > 0 /\ i - 1 \notin DOMAIN disk
  /\ i' = i - 1
  /\ UNCHANGED <<disk, opened, currentSize, pc, rec, gone, faults>> /\ Rotating

\* rename_file_() removes the target first; that it may fail is ignored.
RemoveTarget ==
  /\ pc = "remove" /\ i > 0 /\ i - 1 \in DOMAIN disk
  /\ pc' = "rename"
  /\ disk' = Without(i)
  /\ UNCHANGED <<opened, currentSize, i, rec, gone, faults>> /\ Rotating

Rename ==
  /\ pc = "rename"
  /\ disk' = [n \in (DOMAIN disk \cup {i}) \ {i - 1} |->
                IF n = i THEN disk[i - 1] ELSE disk[n]]
  /\ pc' = "remove" /\ i' = i - 1
  /\ UNCHANGED <<opened, currentSize, rec, gone, faults>> /\ Rotating

\* Mutant: a rename that fails is ignored.
RenameFailsIgnored ==
  /\ pc = "rename" /\ Fault
  /\ pc' = "remove" /\ i' = i - 1
  /\ UNCHANGED <<disk, opened, currentSize, rec, gone>> /\ Rotating

\* rename() fails twice: truncate the file all the same, and throw.
RenameFails ==
  /\ pc = "rename" /\ Fault
  /\ pc' = "giveUp"
  /\ UNCHANGED <<disk, opened, currentSize, i, rec, gone>> /\ Rotating

\* The loop is over: a fresh file, and the record that waits for it.
Reopen ==
  /\ pc = "remove" /\ i = 0
  /\ disk' = With(0, <<>>)
  /\ opened' = TRUE
  /\ buffer' = IF rec \in Records THEN <<rec>> ELSE <<>>
  /\ currentSize' = SizeOf(buffer')
  /\ pc' = "idle" /\ rec' = 0
  /\ UNCHANGED <<setVars, i, logged, gone, faults>>

ReopenGivingUp ==
  /\ pc = "giveUp"
  /\ disk' = With(0, <<>>)
  /\ opened' = (rec # Constructing) /\ currentSize' = 0
  /\ Throw(Range(FileOrNone(0)))
  /\ UNCHANGED <<i, faults>> /\ Rotating

\* All tries to open fail, before the truncation or after it: the estimate
\* stays, and there is no file until the next rotation.
ReopenFails ==
  /\ pc = "giveUp" \/ (pc = "remove" /\ i = 0)
  /\ Fault
  /\ \/ Throw({}) /\ UNCHANGED disk
     \/ Throw(Range(FileOrNone(0))) /\ disk' = With(0, <<>>)
  /\ UNCHANGED <<opened, currentSize, i>> /\ Rotating

-----------------------------------------------------------------------------

Next ==
  \/ \E size \in Sizes, count \in Counts :
       Set(size, count) \/ \E b \in BOOLEAN : Start(size, count, b)
  \/ Kill \/ Flush
  \/ SinkItFits \/ SinkItTooLarge \/ SinkItThrows \/ RotateNow
  \/ Skip \/ RemoveTarget \/ Rename \/ RenameFails
  \/ Reopen \/ ReopenGivingUp \/ ReopenFails

Spec == Init /\ [][Next]_vars

-----------------------------------------------------------------------------
(* Properties.                                                             *)

\* What a file has or, the open one, will have.
Whole(f) == IF f = 0 THEN FileOrNone(0) \o buffer ELSE FileOrNone(f)

TypeOK ==
  /\ DOMAIN disk \subseteq 0 .. Top /\ \A f \in DOMAIN disk : disk[f] \in Seq(Records)
  /\ buffer \in Seq(Records) /\ opened \in BOOLEAN
  /\ maxSize \in Sizes /\ maxFiles \in Counts /\ least \in Counts
  /\ pc \in {"down", "idle", "remove", "rename", "giveUp"}
  /\ i \in 0 .. Top /\ rec \in Records \cup {0, Constructing}
  /\ logged \in 0 .. Len(Bytes) /\ gone \subseteq 1 .. logged
  /\ runs \in 0 .. MaxRuns /\ faults \in 0 .. MaxFaults
  /\ opened => 0 \in DOMAIN disk

\* A higher number means older records, through crashes and failures in the
\* middle of a rotation, and none is there twice
\* (rotating_file_sink-inl.h:135-172).
OldestFirst ==
  \A f, g \in 0 .. Top : \A m \in DOMAIN Whole(f), n \in DOMAIN Whole(g) :
    f > g \/ (f = g /\ m < n) => Whole(f)[m] < Whole(g)[n]

\* A record that was written, and not lost with the buffer of a killed
\* process or with a rename that failed, goes only when all older ones do:
\* a rotation, also one interrupted at any step, forgets the oldest file and
\* nothing else (rotating_file_sink-inl.h:143-182).
OnlyOldestGo ==
  LET kept == UNION {Range(Whole(f)) : f \in 0 .. least} IN
  \A r \in 1 .. logged :
    r \in kept \cup gone \cup {rec} \/ \A a \in kept : a > r

\* What a user of the files counts on.
RotatingFilesKept == TypeOK /\ OldestFirst /\ OnlyOldestGo

\* No file grows beyond max_size but by a single record that is larger
\* (rotating_file_sink-inl.h:113-130).
SizeLimit ==
  \A f \in DOMAIN disk :
    Len(Whole(f)) <= 1 \/ SizeOf(Whole(f)) <= Largest

\* current_size_, which is never read from the file after the constructor, is
\* the size of the open file whatever has failed in between.
SizeExact ==
  currentSize \in Nat /\ (pc = "idle" /\ opened => currentSize = SizeOf(Whole(0)))

=============================================================================
